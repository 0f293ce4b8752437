----------------------------- MODULE FileStore -----------------------------
(***************************************************************************)
(* The metadata engine of blockfs: the FileMeta table, the FileBlockMeta   *)
(* table and the pool of data blocks, their images on the device, and the  *)
(* threads that create, truncate, rename and unlink files over them        *)
(* (lib/file_handle.cc, lib/file.cc, lib/file_block.cc,                    *)
(* lib/file_block_handle.cc, lib/block_handle.cc).                         *)
(*                                                                         *)
(* A step is one critical section or one device write of the code.  An     *)
(* operation that returns an error before it changed anything is not a     *)
(* step.  Different files are worked on concurrently; operations on one    *)
(* name are serialised (by the kernel's inode and directory locks under    *)
(* FUSE), which is the guard Free(n).                                      *)
(***************************************************************************)
EXTENDS Integers, Sequences, FiniteSets, Functions

CONSTANTS
    Threads,        \* worker threads of the FUSE loop, or of the library's user
    Names,          \* the keys (dh, file name) of created_files_
    Blocks,         \* data block ids
    Block0,         \* block id 0, what an unset slot of block_id_ reads as
    MaxFiles,       \* super_meta()->max_file_num
    MaxFileBlocks,  \* super_meta()->max_file_block_num
    Capacity,       \* kFileBlockCapacity, block ids per FileBlock
    BlockSize,      \* kBlockSize, in units of the sizes below
    FilesPerPage,   \* FileMetas per 4K page (FILE_ALIGN)
    Offsets,        \* sizes a truncate may ask for (all <= device_size)
    Ops,            \* operations the clients issue
    MaxCrashes,     \* bound on crashes
    MaxFailures     \* bound on failed device writes

AllOps == {"create", "extend", "shrink", "unlink", "rename"}

None == -1
Fhs == 0 .. MaxFiles - 1
Fbs == 0 .. MaxFileBlocks - 1

ASSUME StoreAssumption ==
    /\ MaxFiles \in Nat \ {0} /\ MaxFileBlocks \in Nat \ {0}
    /\ Capacity \in Nat \ {0} /\ BlockSize \in Nat \ {0}
    /\ FilesPerPage \in Nat \ {0}
    /\ Offsets \subseteq Nat
    /\ Ops \subseteq AllOps
    /\ MaxCrashes \in Nat /\ MaxFailures \in Nat
    /\ IsFiniteSet(Blocks) /\ Block0 \in Blocks
    /\ None \notin Names /\ None \notin Threads

VARIABLES
    status,         \* "up" (mounted) or "down"
    fmeta,          \* FileMeta table in memory
    disk_fmeta,     \* FileMeta table on the device
    fbmeta,         \* FileBlockMeta table in memory
    disk_fbmeta,    \* FileBlockMeta table on the device
    free_fhs,       \* FileHandle::free_fhs_
    free_fbhs,      \* FileBlockHandle::free_fbhs_
    pool,           \* BlockHandle::block_id_pool_
    created_files,  \* FileHandle::created_files_, name -> fh
    item,           \* item_maps_ (fb_maps_) of the File (ParentFile) over fh
    fh_mutex,       \* holder of FileHandle::mutex_ between steps
    pc, loc,        \* each thread's place in the code and its locals
    crashes, failures

memory == <<fmeta, fbmeta, free_fhs, free_fbhs, pool, created_files, item>>
disk == <<disk_fmeta, disk_fbmeta>>
vars == <<status, memory, disk, fh_mutex, pc, loc, crashes, failures>>

(***************************************************************************)
(* Data.  "ok" says that crc_ matches the record's content.  Only the      *)
(* fields that steer the control are kept: is_temp_ is FALSE here,         *)
(* file_cut_ is always 0, and parent_fh_, modes and times are never read.  *)
(***************************************************************************)
FileMeta ==
    [used : BOOLEAN, size : Nat, name : Names \cup {None},
     child : Fhs \cup {None}, ok : BOOLEAN]
FileBlockMeta ==
    [used : BOOLEAN, fh : Fhs \cup {None}, ids : Seq(Blocks)]

FreshFile == [used |-> FALSE, size |-> 0, name |-> None, child |-> None, ok |-> TRUE]
FreshFb == [used |-> FALSE, fh |-> None, ids |-> <<>>]

NoPage == [f \in Fhs |-> FreshFile]
NoLoc == [name |-> None, fh |-> None, new |-> None, fb |-> None,
          new_fb |-> FALSE, ids |-> <<>>, off |-> 0, page |-> NoPage]

Pcs == {"idle", "create_write", "create_add",
        "extend_blocks", "extend_fb", "extend_size",
        "unlink_fb", "unlink_meta", "unlink_names",
        "shrink_fb", "shrink_copy", "shrink_detach", "shrink_attach",
        "shrink_write", "shrink_land", "shrink_write_fb",
        "shrink_write_old", "shrink_land_old",
        "recycle_blocks", "recycle_fb", "recycle_meta", "recycle_child"}

Init ==
    /\ status = "down"
    /\ fmeta = [f \in Fhs |-> FreshFile]
    /\ disk_fmeta = [f \in Fhs |-> FreshFile]
    /\ fbmeta = [b \in Fbs |-> FreshFb]
    /\ disk_fbmeta = [b \in Fbs |-> FreshFb]
    /\ free_fhs = <<>> /\ free_fbhs = <<>> /\ pool = {}
    /\ created_files = [n \in Names |-> None]
    /\ item = [f \in Fhs |-> None]
    /\ fh_mutex = None
    /\ pc = [t \in Threads |-> "idle"]
    /\ loc = [t \in Threads |-> NoLoc]
    /\ crashes = 0 /\ failures = 0

-----------------------------------------------------------------------------
(* Helpers *)

\* No thread is working on name n.
Free(n) == \A t \in Threads : loc[t].name # n

Start(t, op) == status = "up" /\ op \in Ops /\ pc[t] = "idle"
At(t, l) == pc[t] = l
Goto(t, l) == pc' = [pc EXCEPT ![t] = l]
Return(t) ==
    /\ pc' = [pc EXCEPT ![t] = "idle"]
    /\ loc' = [loc EXCEPT ![t] = NoLoc]

\* A section under FileHandle::mutex_ that fits in one step.
MetaGuard == fh_mutex = None

\* The end of the one section that takes several steps.
MutexKept == UNCHANGED fh_mutex
ReleaseMutex == fh_mutex' = None

PageOf(f) == {g \in Fhs : g \div FilesPerPage = f \div FilesPerPage}
UnsealedCrc(fm, f) == fm
Sealed(fm, f) == [fm EXCEPT ![f].ok = TRUE]

\* The device image after the page of f was written with content fm.
PageWritten(fm, f) == [g \in Fhs |-> IF g \in PageOf(f) THEN fm[g] ELSE disk_fmeta[g]]

\* One device write, which fails at most MaxFailures times.
DeviceWrite(good) ==
    /\ good \/ failures < MaxFailures
    /\ failures' = IF good THEN failures ELSE failures + 1

\* File::WriteMeta(f) when the table's content is fm: the crc of f is computed
\* in place, then the whole page goes to the device, neighbours included.
WriteMeta(fm, f, good) ==
    /\ DeviceWrite(good)
    /\ fmeta' = Sealed(fm, f)
    /\ disk_fmeta' = IF good THEN PageWritten(Sealed(fm, f), f) ELSE disk_fmeta

FbMetaKeptInMemory(fbm, b, good) ==
    DeviceWrite(good) /\ fbmeta' = fbm /\ UNCHANGED disk_fbmeta

\* FileBlock::WriteMeta: a FileBlockMeta is a page of its own.
WriteFbMeta(fbm, b, good) ==
    /\ DeviceWrite(good)
    /\ fbmeta' = fbm
    /\ disk_fbmeta' = IF good THEN [disk_fbmeta EXCEPT ![b] = fbm[b]] ELSE disk_fbmeta

ClearMetaKeepsSize(m) == [m EXCEPT !.used = FALSE, !.child = None]
ClearMetaSizeMinusOne(m) == [m EXCEPT !.used = FALSE, !.size = -1, !.child = None]
ClearMeta(m) == [m EXCEPT !.used = FALSE, !.size = 0, !.child = None]

FreeMetaValid(f) == ~fmeta[f].used /\ fmeta[f].size = 0

\* NewFreeFileNolock: the meta is used and named; its crc is now stale.
ClaimedMeta(m, n) == [m EXCEPT !.used = TRUE, !.name = n, !.ok = FALSE]

\* n distinct block ids of the pool, in the order the hash set yields them.
BlockChoices(n) == Injection(1 .. n, pool)

NumBlocksRoundedDown(size) == size \div BlockSize
NumBlocks(size) == (size + BlockSize - 1) \div BlockSize
BlocksNeeded(size, offset) ==
    LET left == IF size % BlockSize = 0 THEN 0 ELSE BlockSize - (size % BlockSize)
        expand == offset - size
    IN  IF expand <= left THEN 0 ELSE NumBlocks(expand - left)

Full(b) == Len(fbmeta[b].ids) = Capacity
Room(b) == Capacity - Len(fbmeta[b].ids)

-----------------------------------------------------------------------------
(* CreateFile *)

\* NewFile under the mutex claims the free meta at the head of the list.
CreateNew(t, n) ==
    /\ Start(t, "create") /\ Free(n) /\ MetaGuard
    /\ created_files[n] = None
    /\ free_fhs # <<>> /\ FreeMetaValid(Head(free_fhs))
    /\ fmeta' = [fmeta EXCEPT ![Head(free_fhs)] = ClaimedMeta(@, n)]
    /\ free_fhs' = Tail(free_fhs)
    /\ loc' = [loc EXCEPT ![t].name = n, ![t].fh = Head(free_fhs)]
    /\ Goto(t, "create_write")
    /\ UNCHANGED <<status, disk, fbmeta, free_fbhs, pool, created_files, item,
                   fh_mutex, crashes, failures>>

\* The mutex was dropped and is taken again to persist the meta; a failed
\* write returns with the meta still used.
CreateWrite(t, good) ==
    /\ At(t, "create_write") /\ MetaGuard
    /\ WriteMeta(fmeta, loc[t].fh, good)
    /\ IF good THEN Goto(t, "create_add") /\ UNCHANGED loc ELSE Return(t)
    /\ UNCHANGED <<status, fbmeta, disk_fbmeta, free_fhs, free_fbhs, pool,
                   created_files, item, fh_mutex, crashes>>

\* AddFileToDirectory
CreateAdd(t) ==
    /\ At(t, "create_add") /\ MetaGuard
    /\ created_files' = [created_files EXCEPT ![loc[t].name] = loc[t].fh]
    /\ Return(t)
    /\ UNCHANGED <<status, fmeta, disk, fbmeta, free_fhs, free_fbhs, pool,
                   item, fh_mutex, crashes, failures>>

-----------------------------------------------------------------------------
(* ftruncate to a larger size: ExtendFile *)

\* A file of size 0 takes a FileBlock off the free list; any other uses the
\* one it has, unless it is missing or full.
ExtendStart(t, n, off) ==
    LET f == created_files[n] IN
    /\ Start(t, "extend") /\ Free(n) /\ f # None
    /\ off > fmeta[f].size
    /\ \/ /\ fmeta[f].size = 0
          /\ free_fbhs # <<>>
          /\ free_fbhs' = Tail(free_fbhs)
          /\ loc' = [loc EXCEPT ![t].name = n, ![t].fh = f, ![t].off = off,
                                ![t].fb = Head(free_fbhs), ![t].new_fb = TRUE]
       \/ /\ fmeta[f].size > 0
          /\ item[f] # None /\ ~Full(item[f])
          /\ loc' = [loc EXCEPT ![t].name = n, ![t].fh = f, ![t].off = off,
                                ![t].fb = item[f]]
          /\ UNCHANGED free_fbhs
    /\ Goto(t, "extend_blocks")
    /\ UNCHANGED <<status, fmeta, disk, fbmeta, free_fhs, pool, created_files,
                   item, fh_mutex, crashes, failures>>

NotPutBack(t) == free_fbhs
PutBackAnyway(t) == Append(free_fbhs, loc[t].fb)
PutBack(t) == IF loc[t].new_fb THEN Append(free_fbhs, loc[t].fb) ELSE free_fbhs

\* GetFreeBlockIdLock; without enough ids a new FileBlock is put back.
ExtendBlocks(t) ==
    LET need == BlocksNeeded(fmeta[loc[t].fh].size, loc[t].off) IN
    /\ At(t, "extend_blocks")
    /\ \/ /\ Cardinality(pool) >= need
          /\ \E s \in BlockChoices(need) :
                /\ pool' = pool \ Range(s)
                /\ loc' = [loc EXCEPT ![t].ids = s]
          /\ Goto(t, IF need > 0 THEN "extend_fb" ELSE "extend_size")
          /\ UNCHANGED free_fbhs
       \/ /\ Cardinality(pool) < need
          /\ free_fbhs' = PutBack(t)
          /\ Return(t)
          /\ UNCHANGED pool
    /\ UNCHANGED <<status, fmeta, disk, fbmeta, free_fhs, created_files, item,
                   fh_mutex, crashes, failures>>

\* The FileBlock with the ids that fit; a new one is claimed for the file.
FilledFb(t) ==
    LET b == loc[t].fb
        fits == IF Len(loc[t].ids) <= Room(b) THEN loc[t].ids
                ELSE SubSeq(loc[t].ids, 1, Room(b))
    IN  [used |-> TRUE,
         fh |-> IF loc[t].new_fb THEN loc[t].fh ELSE fbmeta[b].fh,
         ids |-> fbmeta[b].ids \o fits]

\* The ids go into the FileBlock, which is persisted and, when it is new,
\* entered in item_maps_ unless cut 0 is taken.  Ids that do not fit end the
\* call with -1, nothing being written or given back.
ExtendFb(t, good) ==
    LET b == loc[t].fb
        f == loc[t].fh
        fbm == [fbmeta EXCEPT ![b] = FilledFb(t)]
    IN
    /\ At(t, "extend_fb")
    /\ \/ /\ Len(loc[t].ids) <= Room(b)
          /\ WriteFbMeta(fbm, b, good)
          /\ item' = IF good /\ loc[t].new_fb /\ item[f] = None
                     THEN [item EXCEPT ![f] = b] ELSE item
          /\ IF good THEN Goto(t, "extend_size") /\ UNCHANGED loc ELSE Return(t)
       \/ /\ Len(loc[t].ids) > Room(b) /\ good
          /\ fbmeta' = fbm
          /\ Return(t)
          /\ UNCHANGED <<disk_fbmeta, item, failures>>
    /\ UNCHANGED <<status, fmeta, disk_fmeta, free_fhs, free_fbhs, pool,
                   created_files, fh_mutex, crashes>>

\* set_file_size and WriteMeta in RunInMetaGuard.
ExtendSize(t, good) ==
    /\ At(t, "extend_size") /\ MetaGuard
    /\ WriteMeta([fmeta EXCEPT ![loc[t].fh].size = loc[t].off], loc[t].fh, good)
    /\ Return(t)
    /\ UNCHANGED <<status, fbmeta, disk_fbmeta, free_fhs, free_fbhs, pool,
                   created_files, item, fh_mutex, crashes>>

-----------------------------------------------------------------------------
(* unlink of a file that is not open *)

\* FindFile; RemoveAllFileBlock starts by giving the block ids back.
UnlinkStart(t, n) ==
    LET f == created_files[n] IN
    /\ Start(t, "unlink") /\ Free(n) /\ MetaGuard /\ f # None
    /\ pool' = IF item[f] = None THEN pool ELSE pool \cup Range(fbmeta[item[f]].ids)
    /\ loc' = [loc EXCEPT ![t].name = n, ![t].fh = f, ![t].fb = item[f]]
    /\ Goto(t, IF item[f] = None THEN "unlink_meta" ELSE "unlink_fb")
    /\ UNCHANGED <<status, fmeta, disk, fbmeta, free_fhs, free_fbhs,
                   created_files, item, fh_mutex, crashes, failures>>

\* FileBlock::ReleaseAll: clear, persist, and only then free the FileBlock.
UnlinkFb(t, good) ==
    LET b == loc[t].fb IN
    /\ At(t, "unlink_fb")
    /\ WriteFbMeta([fbmeta EXCEPT ![b] = FreshFb], b, good)
    /\ IF good
       THEN /\ free_fbhs' = Append(free_fbhs, b)
            /\ item' = [item EXCEPT ![loc[t].fh] = None]
            /\ Goto(t, "unlink_meta")
            /\ loc' = [loc EXCEPT ![t].fb = None]
       ELSE Return(t) /\ UNCHANGED <<free_fbhs, item>>
    /\ UNCHANGED <<status, fmeta, disk_fmeta, free_fhs, pool, created_files,
                   fh_mutex, crashes>>

\* File::Release: ClearMeta and WriteMeta in RunInMetaGuard.
UnlinkMeta(t, good) ==
    LET f == loc[t].fh IN
    /\ At(t, "unlink_meta") /\ MetaGuard
    /\ WriteMeta([fmeta EXCEPT ![f] = ClearMeta(@)], f, good)
    /\ IF good THEN Goto(t, "unlink_names") /\ UNCHANGED loc ELSE Return(t)
    /\ UNCHANGED <<status, fbmeta, disk_fbmeta, free_fhs, free_fbhs, pool,
                   created_files, item, fh_mutex, crashes>>

\* RemoveFileFromoDirectory.  The fh is not put back into free_fhs_.
UnlinkNames(t) ==
    /\ At(t, "unlink_names") /\ MetaGuard
    /\ created_files' = [created_files EXCEPT ![loc[t].name] = None]
    /\ Return(t)
    /\ UNCHANGED <<status, fmeta, disk, fbmeta, free_fhs, free_fbhs, pool, item,
                   fh_mutex, crashes, failures>>

-----------------------------------------------------------------------------
(* rename of a file: the maps, the name and the page, in one guarded section *)

RenameOntoExisting(t, n, m, good) ==
    LET f == created_files[n] IN
    /\ Start(t, "rename") /\ Free(n) /\ Free(m) /\ MetaGuard
    /\ f # None /\ n # m
    /\ created_files' = [created_files EXCEPT ![n] = None, ![m] = f]
    /\ WriteMeta([fmeta EXCEPT ![f].name = m], f, good)
    /\ UNCHANGED <<status, fbmeta, disk_fbmeta, free_fhs, free_fbhs, pool, item,
                   fh_mutex, pc, loc, crashes>>

RenameFile(t, n, m, good) ==
    LET f == created_files[n] IN
    /\ Start(t, "rename") /\ Free(n) /\ Free(m) /\ MetaGuard
    /\ f # None /\ created_files[m] = None
    /\ created_files' = [created_files EXCEPT ![n] = None, ![m] = f]
    /\ WriteMeta([fmeta EXCEPT ![f].name = m], f, good)
    /\ UNCHANGED <<status, fbmeta, disk_fbmeta, free_fhs, free_fbhs, pool, item,
                   fh_mutex, pc, loc, crashes>>

-----------------------------------------------------------------------------
(* ftruncate to a smaller size: ShrinkFile moves the file to a new fh *)

\* The first k slots of block_id_; a slot past used_block_num_ holds 0.
FirstIds(b, k) ==
    [i \in 1 .. k |-> IF i <= Len(fbmeta[b].ids) THEN fbmeta[b].ids[i] ELSE Block0]

KeptBlocks(off) == off \div BlockSize
ShrinkNeedsFb(off) == KeptBlocks(off) % Capacity > 0 \/ off % BlockSize > 0

\* NewFreeFileMeta under the mutex claims a second meta with the same name.
ShrinkStart(t, n, off) ==
    LET f == created_files[n]
        g == Head(free_fhs)
    IN
    /\ Start(t, "shrink") /\ Free(n) /\ MetaGuard /\ f # None
    /\ off < fmeta[f].size
    /\ free_fhs # <<>> /\ FreeMetaValid(g)
    /\ fmeta' = [fmeta EXCEPT ![g] = ClaimedMeta(@, n)]
    /\ free_fhs' = Tail(free_fhs)
    /\ loc' = [loc EXCEPT ![t].name = n, ![t].fh = f, ![t].new = g, ![t].off = off]
    /\ Goto(t, "shrink_fb")
    /\ UNCHANGED <<status, disk, fbmeta, free_fbhs, pool, created_files, item,
                   fh_mutex, crashes, failures>>

\* Without the mutex: the new meta's size, and, when blocks are kept or a
\* block is cut, a new FileBlock with the first ids of the old one.  No free
\* FileBlock ends the call with the new meta still used.
ShrinkFb(t) ==
    LET g == loc[t].new
        old == item[loc[t].fh]
        kept == KeptBlocks(loc[t].off)
    IN
    /\ At(t, "shrink_fb")
    /\ fmeta' = [fmeta EXCEPT ![g].size = kept * BlockSize]
    /\ \/ /\ ~ShrinkNeedsFb(loc[t].off)
          /\ Goto(t, "shrink_detach")
          /\ UNCHANGED <<fbmeta, free_fbhs, loc>>
       \/ /\ ShrinkNeedsFb(loc[t].off) /\ free_fbhs # <<>>
          /\ old # None
          /\ free_fbhs' = Tail(free_fbhs)
          /\ fbmeta' = [fbmeta EXCEPT ![Head(free_fbhs)] =
                          [used |-> TRUE, fh |-> g,
                           ids |-> FirstIds(old, kept)]]
          /\ loc' = [loc EXCEPT ![t].fb = Head(free_fbhs)]
          /\ Goto(t, IF loc[t].off % BlockSize > 0 THEN "shrink_copy" ELSE "shrink_detach")
       \/ /\ ShrinkNeedsFb(loc[t].off) /\ free_fbhs = <<>>
          /\ Return(t)
          /\ UNCHANGED <<fbmeta, free_fbhs>>
    /\ UNCHANGED <<status, disk, free_fhs, pool, created_files, item, fh_mutex,
                   crashes, failures>>

\* A cut inside a block: one new block, the data copied (CopyData), its id
\* appended.  No block, or a failed copy, ends the call; nothing is undone.
ShrinkCopy(t, good) ==
    LET b == loc[t].fb IN
    /\ At(t, "shrink_copy")
    /\ DeviceWrite(good)
    /\ \/ /\ pool = {} /\ good
          /\ Return(t)
          /\ UNCHANGED <<pool, fbmeta>>
       \/ \E id \in pool :
            /\ pool' = pool \ {id}
            /\ IF good
               THEN /\ fbmeta' = [fbmeta EXCEPT ![b].ids =
                                    IF Full(b) THEN @ ELSE Append(@, id)]
                    /\ Goto(t, "shrink_detach") /\ UNCHANGED loc
               ELSE Return(t) /\ UNCHANGED fbmeta
    /\ UNCHANGED <<status, fmeta, disk, free_fhs, free_fbhs, created_files, item,
                   fh_mutex, crashes>>

\* The old meta points to its child (its crc is stale from here), and
\* RemoveFileFromoDirectory takes the name out of the maps.
ShrinkDetach(t) ==
    /\ At(t, "shrink_detach") /\ MetaGuard
    /\ fmeta' = [fmeta EXCEPT ![loc[t].fh].child = loc[t].new,
                              ![loc[t].fh].ok = FALSE]
    /\ created_files' = [created_files EXCEPT ![loc[t].name] = None]
    /\ Goto(t, "shrink_attach")
    /\ UNCHANGED <<status, disk, fbmeta, free_fhs, free_fbhs, pool, item,
                   fh_mutex, loc, crashes, failures>>

\* set_meta, AddFileToDirectory, NewParentFile (which takes item_maps_ along
\* with the old meta), AddParentFile, the new FileBlock, the final size.
ShrinkAttach(t) ==
    /\ At(t, "shrink_attach") /\ MetaGuard
    /\ created_files' = [created_files EXCEPT ![loc[t].name] = loc[t].new]
    /\ item' = [item EXCEPT ![loc[t].new] = loc[t].fb]
    /\ fmeta' = [fmeta EXCEPT ![loc[t].new].size = loc[t].off]
    /\ Goto(t, "shrink_write")
    /\ UNCHANGED <<status, disk, fbmeta, free_fhs, free_fbhs, pool, fh_mutex,
                   loc, crashes, failures>>

\* WriteMeta outside the mutex: the page content is read ...
UnguardedRead(t, f) ==
    /\ fmeta' = Sealed(fmeta, f)
    /\ loc' = [loc EXCEPT ![t].page =
                 [g \in Fhs |-> IF g \in PageOf(f) THEN Sealed(fmeta, f)[g] ELSE FreshFile]]

\* ... and lands on the device at a later moment.
UnguardedLand(t, f, good) ==
    /\ DeviceWrite(good)
    /\ disk_fmeta' = IF good THEN PageWritten(loc[t].page, f) ELSE disk_fmeta

ShrinkWrite(t) ==
    /\ At(t, "shrink_write")
    /\ UnguardedRead(t, loc[t].new)
    /\ Goto(t, "shrink_land")
    /\ UNCHANGED <<status, disk, fbmeta, free_fhs, free_fbhs, pool,
                   created_files, item, fh_mutex, crashes, failures>>

ShrinkLand(t, good) ==
    /\ At(t, "shrink_land")
    /\ UnguardedLand(t, loc[t].new, good)
    /\ IF good
       THEN /\ Goto(t, IF loc[t].fb = None THEN "shrink_write_old" ELSE "shrink_write_fb")
            /\ loc' = [loc EXCEPT ![t].page = NoPage]
       ELSE Return(t)
    /\ UNCHANGED <<status, memory, disk_fbmeta, fh_mutex, crashes>>

ShrinkWriteFb(t, good) ==
    /\ At(t, "shrink_write_fb")
    /\ WriteFbMeta(fbmeta, loc[t].fb, good)
    /\ IF good THEN Goto(t, "shrink_write_old") /\ UNCHANGED loc ELSE Return(t)
    /\ UNCHANGED <<status, fmeta, disk_fmeta, free_fhs, free_fbhs, pool,
                   created_files, item, fh_mutex, crashes>>

ShrinkWriteOld(t) ==
    /\ At(t, "shrink_write_old")
    /\ UnguardedRead(t, loc[t].fh)
    /\ Goto(t, "shrink_land_old")
    /\ UNCHANGED <<status, disk, fbmeta, free_fhs, free_fbhs, pool,
                   created_files, item, fh_mutex, crashes, failures>>

ShrinkLandOld(t, good) ==
    /\ At(t, "shrink_land_old")
    /\ UnguardedLand(t, loc[t].fh, good)
    /\ IF good
       THEN /\ Goto(t, "recycle_blocks")
            /\ loc' = [loc EXCEPT ![t].page = NoPage]
       ELSE Return(t)
    /\ UNCHANGED <<status, memory, disk_fbmeta, fh_mutex, crashes>>

\* The ids of FileBlock b that a child with kept blocks did not inherit.
OneTooMany(b, kept) == {fbmeta[b].ids[i] : i \in {j \in DOMAIN fbmeta[b].ids : j >= kept}}
Uninherited(b, kept) == {fbmeta[b].ids[i] : i \in {j \in DOMAIN fbmeta[b].ids : j > kept}}

\* RemoveParentFile takes the mutex for all of ParentFile::Recycle: first the
\* blocks that the child did not inherit.  loc.fb is now the parent's FileBlock.
RecycleBlocks(t) ==
    LET old == item[loc[t].fh] IN
    /\ At(t, "recycle_blocks") /\ MetaGuard
    /\ fh_mutex' = t
    /\ pool' = IF old = None THEN pool
               ELSE pool \cup Uninherited(old, KeptBlocks(loc[t].off))
    /\ loc' = [loc EXCEPT ![t].fb = old]
    /\ Goto(t, IF old = None THEN "recycle_meta" ELSE "recycle_fb")
    /\ UNCHANGED <<status, fmeta, disk, fbmeta, free_fhs, free_fbhs,
                   created_files, item, crashes, failures>>

\* FileBlock::ReleaseMyself, whose result is ignored.
RecycleFb(t, good) ==
    LET b == loc[t].fb IN
    /\ At(t, "recycle_fb")
    /\ WriteFbMeta([fbmeta EXCEPT ![b] = FreshFb], b, good)
    /\ free_fbhs' = IF good THEN Append(free_fbhs, b) ELSE free_fbhs
    /\ item' = [item EXCEPT ![loc[t].fh] = None]
    /\ loc' = [loc EXCEPT ![t].fb = None]
    /\ Goto(t, "recycle_meta")
    /\ UNCHANGED <<status, fmeta, disk_fmeta, free_fhs, pool, created_files,
                   fh_mutex, crashes>>

RecycledChild(t) == loc[t].new
Recycled(t) == loc[t].fh

\* The old meta is cleared, persisted and put back; the mutex is released.
RecycleMeta(t, good) ==
    LET f == loc[t].fh IN
    /\ At(t, "recycle_meta")
    /\ WriteMeta([fmeta EXCEPT ![f] = ClearMeta(@)], f, good)
    /\ ReleaseMutex
    /\ IF good
       THEN /\ free_fhs' = Append(free_fhs, Recycled(t))
            /\ Goto(t, "recycle_child")
            /\ loc' = [loc EXCEPT ![t].fh = None]
       ELSE Return(t) /\ UNCHANGED free_fhs
    /\ UNCHANGED <<status, fbmeta, disk_fbmeta, free_fbhs, pool, created_files,
                   item, crashes>>

\* RecycleParentFh ends by persisting the child without its parent.
RecycleChild(t, good) ==
    /\ At(t, "recycle_child") /\ MetaGuard
    /\ WriteMeta(fmeta, loc[t].new, good)
    /\ Return(t)
    /\ UNCHANGED <<status, fbmeta, disk_fbmeta, free_fhs, free_fbhs, pool,
                   created_files, item, fh_mutex, crashes>>

-----------------------------------------------------------------------------
(* Mount, format, crash *)

UsedFhs == {f \in Fhs : disk_fmeta[f].used}
UsedFbs == {b \in Fbs : disk_fbmeta[b].used}

\* FileHandle::InitializeMeta and FileBlockHandle::InitializeMeta accept the
\* device: every crc matches, every used FileBlock names a used file, and no
\* block id is claimed twice (GetSpecificBlockId).
CrcsMatch == \A f \in Fhs : disk_fmeta[f].ok
FbsHaveFiles == \A b \in UsedFbs : disk_fbmeta[b].fh \in UsedFhs
BlocksClaimedOnce ==
    \A b, c \in UsedFbs :
        \A i \in DOMAIN disk_fbmeta[b].ids, j \in DOMAIN disk_fbmeta[c].ids :
            disk_fbmeta[b].ids[i] = disk_fbmeta[c].ids[j] => b = c /\ i = j
MountOk == CrcsMatch /\ FbsHaveFiles /\ BlocksClaimedOnce

\* Files that are entered under their name: a meta with a child is a parent.
\* (The code tests child_fh > 0, so fh 0 does not count as a child.)
NamedFhs(n) == {f \in UsedFhs : disk_fmeta[f].name = n /\ disk_fmeta[f].child <= 0}

\* The greatest and the least element of a finite set of handles.
Last(S) ==
    IF \E x \in S : \A y \in S : y <= x
    THEN CHOOSE x \in S : \A y \in S : y <= x ELSE None
First(S) ==
    IF \E x \in S : \A y \in S : x <= y
    THEN CHOOSE x \in S : \A y \in S : x <= y ELSE None

\* The metas are read in order: the last fh with a name gets it
\* (created_files_[key] = file); the first FileBlock of a file stays
\* (AddFileBlockNoLock refuses a second one).
LoadedFile(n) == Last(NamedFhs(n))
LoadedFb(f) == First({b \in UsedFbs : disk_fbmeta[b].fh = f})

\* The sequences that list a set of numbers in ascending order.
Ascending(S) ==
    {s \in [1 .. Cardinality(S) -> S] : \A i, j \in DOMAIN s : i < j => s[i] < s[j]}

Mount ==
    /\ status = "down" /\ MountOk
    /\ status' = "up"
    /\ fmeta' = disk_fmeta /\ fbmeta' = disk_fbmeta
    /\ created_files' = [n \in Names |-> LoadedFile(n)]
    /\ item' = [f \in Fhs |-> LoadedFb(f)]
    /\ free_fhs' \in Ascending(Fhs \ UsedFhs)
    /\ free_fbhs' \in Ascending(Fbs \ UsedFbs)
    /\ pool' = Blocks \ UNION {Range(disk_fbmeta[b].ids) : b \in UsedFbs}
    /\ UNCHANGED <<disk, fh_mutex, pc, loc, crashes, failures>>

\* The process ends: what the device holds stays, the rest is forgotten.
ProcessEnds ==
    /\ status' = "down"
    /\ fmeta' = [f \in Fhs |-> FreshFile]
    /\ fbmeta' = [b \in Fbs |-> FreshFb]
    /\ free_fhs' = <<>> /\ free_fbhs' = <<>> /\ pool' = {}
    /\ created_files' = [n \in Names |-> None]
    /\ item' = [f \in Fhs |-> None]
    /\ fh_mutex' = None
    /\ pc' = [t \in Threads |-> "idle"]
    /\ loc' = [t \in Threads |-> NoLoc]

\* Unmounted, killed, or with the machine, at any moment.
Crash ==
    /\ status = "up" /\ crashes < MaxCrashes
    /\ crashes' = crashes + 1
    /\ ProcessEnds
    /\ UNCHANGED <<disk, failures>>

\* ShrinkFile dereferences the FileBlock of a file that has a size but none.
ShrinkFault(t) ==
    /\ At(t, "shrink_fb") /\ ShrinkNeedsFb(loc[t].off)
    /\ free_fbhs # <<>> /\ item[loc[t].fh] = None
    /\ ProcessEnds
    /\ UNCHANGED <<disk, crashes, failures>>

\* The steps that finish what thread t has begun.
Continue(t) ==
    \/ CreateAdd(t) \/ ExtendBlocks(t) \/ UnlinkNames(t)
    \/ ShrinkFb(t) \/ ShrinkFault(t) \/ ShrinkDetach(t) \/ ShrinkAttach(t)
    \/ ShrinkWrite(t) \/ ShrinkWriteOld(t) \/ RecycleBlocks(t)
    \/ \E good \in BOOLEAN :
        \/ CreateWrite(t, good)
        \/ ExtendFb(t, good) \/ ExtendSize(t, good)
        \/ UnlinkFb(t, good) \/ UnlinkMeta(t, good)
        \/ ShrinkCopy(t, good) \/ ShrinkLand(t, good)
        \/ ShrinkWriteFb(t, good) \/ ShrinkLandOld(t, good)
        \/ RecycleFb(t, good) \/ RecycleMeta(t, good) \/ RecycleChild(t, good)

Begin(t) ==
    \/ \E n \in Names : CreateNew(t, n) \/ UnlinkStart(t, n)
    \/ \E n \in Names, off \in Offsets : ExtendStart(t, n, off) \/ ShrinkStart(t, n, off)
    \/ \E n, m \in Names, good \in BOOLEAN : RenameFile(t, n, m, good)

Next == Mount \/ Crash \/ \E t \in Threads : Begin(t) \/ Continue(t)

Spec == Init /\ [][Next]_vars

\* The scheduler runs every thread, and a mutex that is released again and
\* again is eventually given to each waiter (futex wake-ups are queued).
LiveSpec == Spec /\ WF_vars(Mount) /\ \A t \in Threads : SF_vars(Continue(t))

-----------------------------------------------------------------------------
(* Properties *)

Loc == [name : Names \cup {None}, fh : Fhs \cup {None}, new : Fhs \cup {None},
        fb : Fbs \cup {None}, new_fb : BOOLEAN, ids : Seq(Blocks), off : Nat,
        page : [Fhs -> FileMeta]]

\* Every variable has its type.
TypeOK ==
    /\ status \in {"up", "down"}
    /\ fmeta \in [Fhs -> FileMeta] /\ disk_fmeta \in [Fhs -> FileMeta]
    /\ fbmeta \in [Fbs -> FileBlockMeta] /\ disk_fbmeta \in [Fbs -> FileBlockMeta]
    /\ free_fhs \in Seq(Fhs) /\ free_fbhs \in Seq(Fbs)
    /\ pool \subseteq Blocks
    /\ created_files \in [Names -> Fhs \cup {None}]
    /\ item \in [Fhs -> Fbs \cup {None}]
    /\ fh_mutex \in Threads \cup {None}
    /\ pc \in [Threads -> Pcs] /\ loc \in [Threads -> Loc]
    /\ crashes \in Nat /\ failures \in Nat

\* The block ids of the file over fh.
FileIds(f) == IF f = None \/ item[f] = None THEN {} ELSE Range(fbmeta[item[f]].ids)

\* The files no thread is working on.
Settled == {n \in Names : Free(n) /\ created_files[n] # None}

\* No data block belongs to two settled files, is free while a settled file
\* uses it, or was handed by GetFreeBlockIdLock to one thread while another
\* file, another thread or the pool still has it.
BlockExclusive ==
    /\ \A n, m \in Settled :
        n # m => FileIds(created_files[n]) \cap FileIds(created_files[m]) = {}
    /\ \A n \in Settled : FileIds(created_files[n]) \cap pool = {}
    /\ \A t \in Threads :
        /\ Range(loc[t].ids) \cap pool = {}
        /\ \A n \in Settled : Range(loc[t].ids) \cap FileIds(created_files[n]) = {}
        /\ \A u \in Threads : t # u => Range(loc[t].ids) \cap Range(loc[u].ids) = {}

\* What free_fhs_ holds is free: no fh is listed twice, and a listed one has no
\* FileBlock and is no file's and no thread's, so that a create or a shrink
\* never takes the meta of a file that exists.
FreeFhsSound ==
    /\ IsInjective(free_fhs)
    /\ \A f \in Range(free_fhs) :
        /\ item[f] = None
        /\ \A n \in Names : created_files[n] # f
        /\ \A t \in Threads : loc[t].fh # f /\ loc[t].new # f

\* What free_fbhs_ holds is free: no FileBlock is listed twice, and a listed one
\* is empty and is attached to no file and in use by no thread.
FreeFbsSound ==
    /\ IsInjective(free_fbhs)
    /\ \A b \in Range(free_fbhs) :
        /\ fbmeta[b] = FreshFb
        /\ \A f \in Fhs : item[f] # b
        /\ \A t \in Threads : loc[t].fb # b

\* As long as every device write succeeded, no fh in the free list fails the
\* check that NewFreeFileNolock makes of its head; one that did would stay at
\* the head and no file could be created any more.
FreeMetasValid == failures = 0 => \A f \in Range(free_fhs) : FreeMetaValid(f)

\* As long as every device write succeeded and the process has not crashed, a
\* settled file has a block for every byte below its size, so ReadData and
\* WriteData find a block id.
SizeCovered ==
    crashes = 0 /\ failures = 0 => \A n \in Settled :
        LET f == created_files[n] IN
        /\ item[f] = None => fmeta[f].size = 0
        /\ item[f] # None => fmeta[f].size <= BlockSize * Len(fbmeta[item[f]].ids)

\* Where nothing is in flight, every block is in the pool or in a file, and
\* every FileBlock is free or attached: the error paths give back what they
\* took.
NothingLost ==
    status = "up" /\ crashes = 0 /\ (\A t \in Threads : pc[t] = "idle") =>
        /\ Blocks = pool \cup UNION {FileIds(created_files[n]) : n \in Names}
        /\ Fbs \subseteq Range(free_fbhs) \cup
                {item[created_files[n]] : n \in {m \in Names : created_files[m] # None}}

\* As long as the process has not crashed, the device can be mounted should
\* it crash now: the order of the metadata writes never leaves a bad crc, a
\* FileBlock without its file or a block claimed twice.
Mountable == crashes = 0 => MountOk

\* FileBlock b is on the device as it is in memory.  The exception: an extend
\* that was refused for want of room has filled b in memory only.
Persisted(b) ==
    LET m == fbmeta[b]
        d == disk_fbmeta[b]
    IN  \/ d = m
        \/ /\ Full(b) /\ d.used = m.used /\ d.fh = m.fh
           /\ Len(d.ids) <= Len(m.ids)
           /\ \A i \in 1 .. Len(d.ids) : d.ids[i] = m.ids[i]

\* What an operation that returned has done to a settled file, or to a name
\* that is free, is on the device, whatever the other threads have written to
\* the pages that hold it.
DurableWhenSettled ==
    status = "up" =>
        /\ \A n \in Settled :
            LET f == created_files[n] IN
            /\ disk_fmeta[f] = fmeta[f]
            /\ item[f] # None => Persisted(item[f])
        /\ \A n \in Names \ Settled : Free(n) => NamedFhs(n) = {}

\* Every operation returns, whatever the other threads do.
OperationsReturn == \A t \in Threads : pc[t] # "idle" ~> pc[t] = "idle"

\* What the device says about the names: the size a mount would give each.
DiskTable ==
    [n \in Names |-> IF LoadedFile(n) = None THEN None ELSE disk_fmeta[LoadedFile(n)].size]

\* Every write of the device changes at most one name's entry the way one
\* operation asks for, so a crash at any moment leaves each operation either
\* done or not done.
DurableNames == INSTANCE NameTable WITH table <- DiskTable, NoFile <- None
CrashAtomic == DurableNames!Spec
=============================================================================
