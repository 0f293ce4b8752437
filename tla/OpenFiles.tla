----------------------------- MODULE OpenFiles -----------------------------
(***************************************************************************)
(* Descriptors and open files: the pool of FdHandle, the table             *)
(* FileHandle::open_files_, the link count and the flags of a File, and    *)
(* the FUSE handlers that open, flush, lock, release and unlink            *)
(* (lib/fd_handle.h, lib/file_handle.cc, lib/file_system.cc,               *)
(* lib/bfs_fuse.cc).  A step is one critical section, or one unguarded     *)
(* access to the state of a File.                                          *)
(*                                                                         *)
(* What a file's metadata and blocks go through is FileStore's subject:    *)
(* here a File is kept or removed, and device writes succeed.              *)
(***************************************************************************)
EXTENDS Integers, Sequences, FiniteSets, Functions

CONSTANTS
    Threads,      \* worker threads of the FUSE loop
    Names,        \* paths of files
    Files,        \* File objects, one per free file handle
    Handles,      \* open file descriptions of the kernel (struct fuse_file_info)
    Streams,      \* open directory streams of the kernel
    MaxFds,       \* FdHandle::max_fd_num_
    MaxLinks,     \* bound on a link count once descriptors ran out (it leaks)
    Ops,          \* operations the kernel sends
    LateOps,      \* bound: those of them it sends once descriptors ran out
    PathLocks     \* whether the kernel and libfuse lock paths around a request

AllOps == {"open", "create", "tmpfile", "mknod", "flush", "lock", "unlink", "opendir"}

VARIABLES
    free_fd_pool,   \* FdHandle::free_fd_pool_
    open_files,     \* FileHandle::open_files_, fd -> File
    created_files,  \* FileHandle::created_files_, path -> File
    created_fhs,    \* the Files in FileHandle::created_fhs_
    file,           \* the File objects
    handle,         \* what fi->fh is, the file open() was called for and its node in
                    \* libfuse's tree of names; lost is history: see RemovalDecided
    stream,         \* BLOCKFS_DIR::fd_ of the streams in UDiskBFS::open_dirs_
    fh_mutex,       \* holder of FileHandle::mutex_ between steps
    pc, loc,        \* each thread's place in the code and its locals
    exhausted       \* history: get_fd found the pool empty

vars == <<free_fd_pool, open_files, created_files, created_fhs, file, handle,
          stream, fh_mutex, pc, loc, exhausted>>

NoFile == "no file"
NoName == "no name"
NoHandle == "no handle"
NoThread == "no thread"

ASSUME OpenAssumption ==
    /\ MaxFds \in Nat /\ MaxLinks \in Nat
    /\ Ops \subseteq AllOps /\ LateOps \subseteq Ops /\ PathLocks \in BOOLEAN
    /\ IsFiniteSet(Files) /\ IsFiniteSet(Threads)
    /\ Names \cap Files = {} /\ NoName \notin Names \cup Files /\ NoFile \notin Files
    /\ NoHandle \notin Handles /\ NoThread \notin Threads

BadFd == -1
Fds == 0 .. MaxFds - 1
Keys == Fds \cup {BadFd}

\* A temporary file is entered under a name made of its own handle.
Paths == Names \cup Files

File == [made : BOOLEAN, name : Paths \cup {NoName}, temp : BOOLEAN,
         deleted : BOOLEAN, locked : BOOLEAN, nlink : Int, kept : BOOLEAN]
Unmade == [made |-> FALSE, name |-> NoName, temp |-> FALSE, deleted |-> FALSE,
           locked |-> FALSE, nlink |-> 0, kept |-> FALSE]

Closed == [open |-> FALSE, fd |-> BadFd, file |-> NoFile, node |-> NoName, lost |-> FALSE]
Failed == [Closed EXCEPT !.open = TRUE]
OpenHandle == [open : BOOLEAN, fd : Keys, file : Files \cup {NoFile},
               node : Paths \cup {NoName}, lost : BOOLEAN]

NoLoc == [op |-> "none", name |-> NoName, file |-> NoFile, fd |-> BadFd,
          h |-> NoHandle]
Locals == [op : AllOps \cup {"none", "release"}, name : Paths \cup {NoName},
           file : Files \cup {NoFile}, fd : Keys, h : Handles \cup {NoHandle}]

Pcs == {"idle", "new_file", "create_add", "get_fd", "add_open", "inc_link",
        "close", "close_check", "close_remove", "close_end",
        "unlink_check", "unlink_mark", "unlink_blocks", "unlink_names",
        "lock_set"}

Init ==
    /\ free_fd_pool = [i \in 1 .. MaxFds |-> i - 1]
    /\ open_files = [fd \in Keys |-> NoFile]
    /\ created_files = [p \in Paths |-> NoFile]
    /\ created_fhs = {}
    /\ file = [f \in Files |-> Unmade]
    /\ handle = [h \in Handles |-> Closed]
    /\ stream = [d \in Streams |-> BadFd]
    /\ fh_mutex = NoThread
    /\ pc = [t \in Threads |-> "idle"]
    /\ loc = [t \in Threads |-> NoLoc]
    /\ exhausted = FALSE

-----------------------------------------------------------------------------
(* Helpers *)

\* libfuse holds the lock of a path shared for the first requests and exclusively for
\* unlink; the kernel holds the directory for the second ones.
PathUsers == {"open", "flush", "release", "lock"}
DirectoryUsers == {"create", "mknod", "unlink"}
MayOverlap(a, b) ==
    /\ ~({a, b} \subseteq DirectoryUsers)
    /\ a = "unlink" => b \notin PathUsers
    /\ b = "unlink" => a \notin PathUsers

\* Request op may start on path p.  A handle whose file was unlinked has no path.
Free(p, op) ==
    PathLocks /\ p # NoName =>
        \A t \in Threads : loc[t].name = p => MayOverlap(op, loc[t].op)

Start(t, op) == pc[t] = "idle" /\ op \in Ops /\ (exhausted => op \in LateOps)
At(t, l) == pc[t] = l

\* Thread t moves on to l with locals r.
Step(t, l, r) == pc' = [pc EXCEPT ![t] = l] /\ loc' = [loc EXCEPT ![t] = r]
Return(t) == Step(t, "idle", NoLoc)

MetaGuard == fh_mutex = NoThread

\* The kernel sends the release of a handle after all its other requests.
Unused(h) == \A t \in Threads : loc[t].h # h

\* libfuse forgets the name of a node when its unlink succeeds.
NodesUnlinked(p) ==
    handle' = [h \in Handles |-> [handle[h] EXCEPT !.node = IF @ = p THEN NoName ELSE @]]

-----------------------------------------------------------------------------
(* FileHandle::open, called by mfs_open and mfs_create; CreateFile, called *)
(* by it and by bfs_mknod.                                                 *)

\* open() returned -1, which the handlers store in fi->fh as a success.
OpenFails(t) ==
    /\ handle' = IF loc[t].h = NoHandle THEN handle
                 ELSE [handle EXCEPT ![loc[t].h] = Failed]
    /\ Return(t)

GetCreatedFile(n) == created_files[n]
VerifyOpenExistFileFlag(creat, excl) == ~(creat /\ excl)

\* A file that is there is opened unless O_CREAT | O_EXCL, one that is not is
\* made when O_CREAT is set.  (What O_TRUNC does to its blocks is FileStore's.)
OpenLookup(t, h, n, creat, excl) ==
    LET f == GetCreatedFile(n)
        op == IF creat THEN "create" ELSE "open"
        r == [NoLoc EXCEPT !.op = op, !.name = n, !.file = f, !.h = h]
    IN
    /\ Start(t, op) /\ MetaGuard
    /\ ~handle[h].open /\ Unused(h) /\ Free(n, op)
    /\ (excl => creat) /\ (creat => n \in Names)
    /\ \/ f # NoFile /\ VerifyOpenExistFileFlag(creat, excl) /\ Step(t, "get_fd", r) /\ UNCHANGED handle
       \/ f = NoFile /\ creat /\ Step(t, "new_file", r) /\ UNCHANGED handle
       \/ /\ IF f = NoFile THEN ~creat ELSE ~VerifyOpenExistFileFlag(creat, excl)
          /\ handle' = [handle EXCEPT ![h] = Failed]
          /\ UNCHANGED <<pc, loc>>
    /\ UNCHANGED <<free_fd_pool, open_files, created_files, created_fhs, file,
                   fh_mutex, exhausted, stream>>

\* O_TMPFILE: the path is a directory, the file has no name given by the caller.
OpenTmp(t, h) ==
    /\ Start(t, "tmpfile") /\ ~handle[h].open /\ Unused(h)
    /\ Step(t, "new_file", [NoLoc EXCEPT !.op = "tmpfile", !.h = h])
    /\ UNCHANGED <<free_fd_pool, open_files, created_files, created_fhs, file,
                   handle, fh_mutex, exhausted, stream>>

Mknod(t, n) ==
    /\ Start(t, "mknod") /\ Free(n, "mknod")
    /\ Step(t, "new_file", [NoLoc EXCEPT !.op = "mknod", !.name = n])
    /\ UNCHANGED <<free_fd_pool, open_files, created_files, created_fhs, file,
                   handle, fh_mutex, exhausted, stream>>

\* NewFile: refused when the name is taken or no meta is free.  The meta is
\* used and persisted before the file is entered in the maps.
NewFile(t) ==
    LET temp == loc[t].op = "tmpfile"
        taken == IF temp THEN FALSE ELSE created_files[loc[t].name] # NoFile
    IN
    /\ At(t, "new_file") /\ MetaGuard
    /\ \/ /\ ~taken
          /\ \E f \in Files :
                LET p == IF temp THEN f ELSE loc[t].name IN
                /\ ~file[f].made
                /\ file' = [file EXCEPT ![f].made = TRUE, ![f].name = p,
                                        ![f].temp = temp, ![f].kept = TRUE]
                /\ Step(t, "create_add", [loc[t] EXCEPT !.file = f, !.name = p])
          /\ UNCHANGED handle
       \/ /\ taken \/ \A f \in Files : file[f].made
          /\ OpenFails(t)
          /\ UNCHANGED file
    /\ UNCHANGED <<free_fd_pool, open_files, created_files, created_fhs,
                   fh_mutex, exhausted, stream>>

\* AddFileToDirectory
CreateAdd(t) ==
    LET r == loc[t] IN
    /\ At(t, "create_add") /\ MetaGuard
    /\ created_files' = [created_files EXCEPT ![r.name] = r.file]
    /\ created_fhs' = created_fhs \cup {r.file}
    /\ IF r.op = "mknod" THEN Return(t) ELSE Step(t, "get_fd", r)
    /\ UNCHANGED <<free_fd_pool, open_files, file, handle, fh_mutex, exhausted, stream>>

\* get_fd, under FdHandle's own mutex.  The -1 of an empty pool is kept in an
\* unsigned variable, so the caller's test fd < 0 lets it through.
TakeFd(t, fd) == Step(t, "add_open", [loc[t] EXCEPT !.fd = fd])

PoolPeeked(t) ==
    /\ At(t, "get_fd") /\ free_fd_pool # <<>> /\ TakeFd(t, Head(free_fd_pool))
    /\ UNCHANGED <<free_fd_pool, open_files, created_files, created_fhs, file,
                   handle, fh_mutex, exhausted, stream>>

GetFd(t) ==
    /\ At(t, "get_fd")
    /\ exhausted => file[loc[t].file].nlink < MaxLinks
    /\ \/ /\ free_fd_pool # <<>>
          /\ TakeFd(t, Head(free_fd_pool))
          /\ free_fd_pool' = Tail(free_fd_pool)
          /\ UNCHANGED exhausted
       \/ /\ free_fd_pool = <<>>
          /\ TakeFd(t, BadFd)
          /\ exhausted' = TRUE
          /\ UNCHANGED free_fd_pool
    /\ UNCHANGED <<open_files, created_files, created_fhs, file, handle, fh_mutex, stream>>

AddOpenFile(t) ==
    /\ At(t, "add_open") /\ MetaGuard
    /\ open_files' = [open_files EXCEPT ![loc[t].fd] = loc[t].file]
    /\ Step(t, "inc_link", loc[t])
    /\ UNCHANGED <<free_fd_pool, created_files, created_fhs, file, handle,
                   fh_mutex, exhausted, stream>>

\* IncLinkCount, the last thing open and dup do.  open returns the descriptor;
\* flush goes on to close the one dup gave it.

\* The file was removed, or some thread has read a link count of 0 and removes it.
RemovalDecided(f) ==
    \/ ~file[f].kept
    \/ \E t \in Threads : pc[t] \in {"close_remove", "unlink_blocks"} /\ loc[t].file = f

NotCounted(t) ==
    /\ At(t, "inc_link")
    /\ Step(t, "close", loc[t])
    /\ UNCHANGED <<free_fd_pool, open_files, created_files, created_fhs, file,
                   handle, fh_mutex, exhausted, stream>>
IncLink(t) ==
    LET r == loc[t] IN
    /\ At(t, "inc_link")
    /\ file' = [file EXCEPT ![r.file].nlink = @ + 1]
    /\ \/ /\ r.op = "flush" /\ Step(t, "close", r) /\ UNCHANGED handle
       \/ /\ r.op # "flush" /\ Return(t)
          /\ handle' = [handle EXCEPT ![r.h] =
                 [open |-> TRUE, fd |-> r.fd, file |-> r.file,
                  node |-> IF r.op = "tmpfile" THEN NoName ELSE r.name,
                  lost |-> RemovalDecided(r.file)]]
    /\ UNCHANGED <<free_fd_pool, open_files, created_files, created_fhs,
                   fh_mutex, exhausted, stream>>

-----------------------------------------------------------------------------
(* The flush handler is close(dup(fd)); bfs_release is close(fd). *)

\* dup goes on as open does once it has the file; of a descriptor that is not
\* open it gives -1, which flush then closes.
Dup(t, h, fd) ==
    LET f == open_files[fd] IN
    /\ MetaGuard
    /\ Step(t, IF f = NoFile THEN "close" ELSE "get_fd",
            [NoLoc EXCEPT !.op = "flush", !.name = handle[h].node, !.file = f, !.h = h])

Flush(t, h) ==
    LET fd == handle[h].fd IN
    /\ Start(t, "flush")
    /\ handle[h].open /\ Free(handle[h].node, "flush")
    /\ Dup(t, h, fd)
    /\ UNCHANGED <<free_fd_pool, open_files, created_files, created_fhs, file,
                   handle, fh_mutex, exhausted, stream>>

\* From here on the kernel sends nothing more for the handle.
Release(t, h) ==
    LET fd == handle[h].fd IN
    /\ pc[t] = "idle"
    /\ handle[h].open /\ Unused(h) /\ Free(handle[h].node, "release")
    /\ handle' = [handle EXCEPT ![h] = Closed]
    /\ Step(t, "close", [NoLoc EXCEPT !.op = "release", !.name = handle[h].node, !.fd = fd])
    /\ UNCHANGED <<free_fd_pool, open_files, created_files, created_fhs, file,
                   fh_mutex, exhausted, stream>>

DecLinkKeepsLock(f) == [file EXCEPT ![f].nlink = @ - 1]
DecLink(f) == [file EXCEPT ![f].nlink = @ - 1, ![f].locked = FALSE]

\* close takes the mutex for all it does: the lock flag goes and the link count
\* is lowered, or the descriptor is not open and close returns -1.
Close(t) ==
    LET f == open_files[loc[t].fd] IN
    /\ At(t, "close") /\ MetaGuard
    /\ \/ /\ f # NoFile
          /\ file' = DecLink(f)
          /\ fh_mutex' = t
          /\ Step(t, "close_check", [loc[t] EXCEPT !.file = f])
       \/ /\ f = NoFile
          /\ Return(t)
          /\ UNCHANGED <<file, fh_mutex>>
    /\ UNCHANGED <<free_fd_pool, open_files, created_files, created_fhs, handle,
                   exhausted, stream>>

\* The test of close and of UnlinkFileNolock.
LastLinkMissed(f) == file[f].temp /\ file[f].nlink = 0 /\ f \in created_fhs
LastLinkIgnored(f) == (file[f].temp \/ file[f].deleted) /\ f \in created_fhs
LastLink(f) ==
    /\ file[f].nlink = 0
    /\ file[f].temp \/ file[f].deleted
    /\ f \in created_fhs

CloseCheck(t) ==
    /\ At(t, "close_check")
    /\ Step(t, IF LastLink(loc[t].file) THEN "close_remove" ELSE "close_end", loc[t])
    /\ UNCHANGED <<free_fd_pool, open_files, created_files, created_fhs, file,
                   handle, fh_mutex, exhausted, stream>>

\* RemoveFileNoLock erases the entry of the name, whichever file it is.
NamesRemoved(f) ==
    /\ created_files' = [created_files EXCEPT ![file[f].name] = NoFile]
    /\ created_fhs' = created_fhs \ {f}

\* UnlinkFileNolock: the blocks, the meta and the names.
CloseRemove(t) ==
    LET f == loc[t].file IN
    /\ At(t, "close_remove")
    /\ file' = [file EXCEPT ![f].kept = FALSE]
    /\ NamesRemoved(f)
    /\ Step(t, "close_end", loc[t])
    /\ UNCHANGED <<free_fd_pool, open_files, handle, fh_mutex, exhausted, stream>>

PutFdOneOff(fd) == Append(free_fd_pool, fd + 1)

\* put_fd accepts every fd up to the maximum, -1 included.
PutFd(fd) == Append(free_fd_pool, fd)

\* open_files_.erase and put_fd, the end of close.
CloseEnd(t) ==
    /\ At(t, "close_end")
    /\ open_files' = [open_files EXCEPT ![loc[t].fd] = NoFile]
    /\ free_fd_pool' = PutFd(loc[t].fd)
    /\ fh_mutex' = NoThread
    /\ Return(t)
    /\ UNCHANGED <<created_files, created_fhs, file, handle, exhausted, stream>>

-----------------------------------------------------------------------------
(* FileHandle::unlink.  The link count is read and the flag is set without *)
(* a mutex.                                                                *)

Unlink(t, n) ==
    LET f == GetCreatedFile(n) IN
    /\ Start(t, "unlink") /\ MetaGuard /\ Free(n, "unlink") /\ f # NoFile
    /\ Step(t, "unlink_check", [NoLoc EXCEPT !.op = "unlink", !.name = n, !.file = f])
    /\ UNCHANGED <<free_fd_pool, open_files, created_files, created_fhs, file,
                   handle, fh_mutex, exhausted, stream>>

UnlinkCheck(t) ==
    /\ At(t, "unlink_check")
    /\ Step(t, IF file[loc[t].file].nlink > 0 THEN "unlink_mark" ELSE "unlink_blocks",
            loc[t])
    /\ UNCHANGED <<free_fd_pool, open_files, created_files, created_fhs, file,
                   handle, fh_mutex, exhausted, stream>>

\* The file keeps its name and its blocks until the last close.
UnlinkMark(t) ==
    /\ At(t, "unlink_mark")
    /\ file' = [file EXCEPT ![loc[t].file].deleted = TRUE]
    /\ NodesUnlinked(loc[t].name)
    /\ Return(t)
    /\ UNCHANGED <<free_fd_pool, open_files, created_files, created_fhs, fh_mutex,
                   exhausted, stream>>

UnlinkBlocks(t) ==
    /\ At(t, "unlink_blocks")
    /\ file' = [file EXCEPT ![loc[t].file].kept = FALSE]
    /\ Step(t, "unlink_names", loc[t])
    /\ UNCHANGED <<free_fd_pool, open_files, created_files, created_fhs, handle,
                   fh_mutex, exhausted, stream>>

UnlinkNames(t) ==
    /\ At(t, "unlink_names") /\ MetaGuard
    /\ NamesRemoved(loc[t].file)
    /\ NodesUnlinked(loc[t].name)
    /\ Return(t)
    /\ UNCHANGED <<free_fd_pool, open_files, file, fh_mutex, exhausted, stream>>

-----------------------------------------------------------------------------
(* FcntlFile: the flag is tested and set in two steps.  bfs_lock and       *)
(* bfs_flock ask for F_WRLCK whatever they are called for, so only close   *)
(* clears the flag.                                                        *)

Lock(t, h) ==
    LET f == open_files[handle[h].fd] IN
    /\ Start(t, "lock") /\ MetaGuard
    /\ handle[h].open /\ Free(handle[h].node, "lock")
    /\ f # NoFile /\ ~file[f].locked
    /\ Step(t, "lock_set", [NoLoc EXCEPT !.op = "lock", !.name = handle[h].node,
                                         !.file = f, !.h = h])
    /\ UNCHANGED <<free_fd_pool, open_files, created_files, created_fhs, file,
                   handle, fh_mutex, exhausted, stream>>

LockSet(t) ==
    /\ At(t, "lock_set")
    /\ file' = [file EXCEPT ![loc[t].file].locked = TRUE]
    /\ Return(t)
    /\ UNCHANGED <<free_fd_pool, open_files, created_files, created_fhs, handle,
                   fh_mutex, exhausted, stream>>

-----------------------------------------------------------------------------
(* Directory streams take their descriptors from the same pool.  A test of *)
(* the signed result of get_fd makes OpenDirectory fail when it is empty.  *)
(* DirTree has the link counts of directories.                             *)

\* (~exhausted is a bound: streams are opened until descriptors ran out.)
OpenDirectory(t, d) ==
    /\ Start(t, "opendir") /\ ~exhausted
    /\ stream[d] = BadFd /\ free_fd_pool # <<>>
    /\ stream' = [stream EXCEPT ![d] = Head(free_fd_pool)]
    /\ free_fd_pool' = Tail(free_fd_pool)
    /\ UNCHANGED <<open_files, created_files, created_fhs, file, handle, fh_mutex,
                   pc, loc, exhausted>>

CloseDirectory(t, d) ==
    /\ Start(t, "opendir") /\ stream[d] # BadFd
    /\ stream' = [stream EXCEPT ![d] = BadFd]
    /\ free_fd_pool' = PutFd(stream[d])
    /\ UNCHANGED <<open_files, created_files, created_fhs, file, handle, fh_mutex,
                   pc, loc, exhausted>>

-----------------------------------------------------------------------------
Call(t) ==
    \/ \E d \in Streams : OpenDirectory(t, d) \/ CloseDirectory(t, d)
    \/ \E h \in Handles, n \in Paths, creat, excl \in BOOLEAN :
          OpenLookup(t, h, n, creat, excl)
    \/ \E h \in Handles : OpenTmp(t, h) \/ Flush(t, h) \/ Release(t, h) \/ Lock(t, h)
    \/ \E n \in Names : Mknod(t, n)
    \/ \E n \in Paths : Unlink(t, n)

Continue(t) ==
    \/ NewFile(t) \/ CreateAdd(t) \/ GetFd(t) \/ AddOpenFile(t) \/ IncLink(t)
    \/ Close(t) \/ CloseCheck(t) \/ CloseRemove(t) \/ CloseEnd(t)
    \/ UnlinkCheck(t) \/ UnlinkMark(t) \/ UnlinkBlocks(t) \/ UnlinkNames(t)
    \/ LockSet(t)

Next == \E t \in Threads : Call(t) \/ Continue(t)

Spec == Init /\ [][Next]_vars

-----------------------------------------------------------------------------
(* Properties *)

\* Every variable has its type: a descriptor in the pool, in a handle or in a stream
\* is one of the pool's or the -1 of an empty pool.
TypeOK ==
    /\ free_fd_pool \in Seq(Keys)
    /\ open_files \in [Keys -> Files \cup {NoFile}]
    /\ created_files \in [Paths -> Files \cup {NoFile}]
    /\ created_fhs \subseteq Files
    /\ file \in [Files -> File]
    /\ handle \in [Handles -> OpenHandle]
    /\ stream \in [Streams -> Keys]
    /\ fh_mutex \in Threads \cup {NoThread}
    /\ pc \in [Threads -> Pcs]
    /\ loc \in [Threads -> Locals]
    /\ exhausted \in BOOLEAN

\* The descriptor the kernel was given stands for the file it was opened on
\* until its release, and the one of a directory stream for no file, whatever
\* flushes, closes and opens run in between: no descriptor is handed out twice
\* and no close closes another one's.  Only the -1 of an exhausted pool is shared
\* (fd_handle.h:28, file_handle.cc:673, dir_handle.cc:606).
HandleOwnFile ==
    /\ \A h \in Handles : handle[h].fd # BadFd => open_files[handle[h].fd] = handle[h].file
    /\ \A d \in Streams : stream[d] # BadFd => open_files[stream[d]] = NoFile

Opening(f) == {t \in Threads : pc[t] = "inc_link" /\ loc[t].file = f}
Closing(f) == {t \in Threads : pc[t] \in {"close_check", "close_remove", "close_end"}
                               /\ loc[t].file = f}

\* The link count, which decides whether unlink and close remove a file, is the
\* number of its descriptors, up to the threads between the change of the table
\* and of the count (file_handle.cc:681, :690, :706, :718).
LinkCountExact ==
    ~exhausted => \A f \in Files :
        file[f].nlink + Cardinality(Opening(f)) =
            Cardinality({fd \in Keys : open_files[fd] = f}) - Cardinality(Closing(f))

\* A file keeps its blocks and its metadata while a descriptor is open on it, whatever
\* opens, closes and unlinks overlap.  The exception is a file that was unlinked or
\* temporary: open finds it by its name until its last close, and may count its link
\* after that close has decided to remove it (file_handle.cc:516, :690, :708).
OpenFileKept ==
    ~exhausted => \A h \in Handles : handle[h].file # NoFile =>
        LET f == handle[h].file IN
        file[f].kept \/ (handle[h].lost /\ (file[f].temp \/ file[f].deleted))

\* Once the last descriptor of a temporary or an unlinked file is closed, the
\* file is gone from the device and from the maps (file_handle.cc:707).
ReapedWhenClosed ==
    ~exhausted /\ (\A t \in Threads : pc[t] = "idle") =>
        \A f \in Files : (file[f].temp \/ file[f].deleted) /\ file[f].nlink = 0
                         => ~file[f].kept /\ f \notin created_fhs

\* No lock outlives the descriptors of its file (file_handle.cc:705,
\* file_system.cc:269).
LockNeedsOpenFile ==
    ~exhausted => \A f \in Files :
        file[f].locked => \E fd \in Keys : open_files[fd] = f
=============================================================================
