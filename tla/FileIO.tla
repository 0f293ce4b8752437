------------------------------- MODULE FileIO -------------------------------
(***************************************************************************)
(* The data path: how OpenFile::pread, pwrite, read, lseek and the changes *)
(* of size they cause move the bytes of a file between a buffer and the    *)
(* data blocks (lib/file.cc; mfs_read, write, mfs_truncate and bfs_lseek   *)
(* of lib/bfs_fuse.cc through lib/file_system.cc).                         *)
(*                                                                         *)
(* A file is its size and the ids of its FileBlock, as FileStore leaves    *)
(* them after each operation; one descriptor is open on it.  The kernel    *)
(* sends one write or truncate of a file at a time; reads overlap them and *)
(* each other.                                                             *)
(***************************************************************************)
EXTENDS Integers, Sequences, SequencesExt, FiniteSets, Functions

CONSTANTS
    Threads, Files,
    Blocks,       \* data block ids
    Block0,       \* block id 0, what an unset slot of block_id_ reads as
    BlockSize,    \* kBlockSize, in bytes of the model
    Offsets,      \* offsets of requests
    Lengths,      \* lengths of requests
    Sizes,        \* sizes of truncates
    Seeks,        \* offsets of lseek, forward and back
    MaxSize,      \* bound on a file's size
    MaxPos,       \* bound on append_pos_ when a request other than read starts
    Ops,          \* operations the clients issue
    MaxFailures   \* bound on device errors

AllOps == {"pread", "pwrite", "read", "lseek", "extend", "shrink"}

ASSUME IOAssumption ==
    /\ BlockSize \in Nat \ {0} /\ MaxSize \in Nat /\ MaxPos \in Nat
    /\ MaxFailures \in Nat
    /\ Offsets \subseteq Nat /\ Lengths \subseteq Nat /\ Sizes \subseteq Nat /\ Seeks \subseteq Nat
    /\ Ops \subseteq AllOps
    /\ Block0 \in Blocks /\ IsFiniteSet(Blocks)

VARIABLES
    disk,       \* block -> its bytes
    ids,        \* file -> the block ids of FileBlock 0
    size,       \* file -> FileMeta.size_
    pool,       \* BlockHandle::block_id_pool_
    pos,        \* append_pos_ of the file's descriptor, modulo 2^64
    pc, loc,    \* each thread's place in the code and its locals
    failures

vars == <<disk, ids, size, pool, pos, pc, loc, failures>>

\* A byte is zero, or tells which byte of which file was written there last.
Zero == <<>>
Tag(f, i) == <<f, i>>
Cells == 0 .. BlockSize - 1

NoFile == "no file"
NoLoc == [op |-> "none", f |-> NoFile, off |-> 0, n |-> 0, todo |-> <<>>,
          buf |-> <<>>, old |-> {}, cut |-> FALSE]

Init ==
    /\ disk = [b \in Blocks |-> [c \in Cells |-> Zero]]
    /\ ids = [f \in Files |-> <<>>]
    /\ size = [f \in Files |-> 0]
    /\ pool = Blocks
    /\ pos = [f \in Files |-> 0]
    /\ pc = [t \in Threads |-> "idle"]
    /\ loc = [t \in Threads |-> NoLoc]
    /\ failures = 0

-----------------------------------------------------------------------------
(* Helpers *)

Start(t, op, f) == op \in Ops /\ pc[t] = "idle" /\ (op # "read" => pos[f] <= MaxPos)
At(t, l) == pc[t] = l
Step(t, l, r) == pc' = [pc EXCEPT ![t] = l] /\ loc' = [loc EXCEPT ![t] = r]
Return(t) == Step(t, "idle", NoLoc)

\* Threads that serve a request on f.
On(f) == {t \in Threads : loc[t].f = f}
NoWriter(f) == \A t \in On(f) : loc[t].op \in {"pread", "read"}

SmallerOf(a, b) == IF a < b THEN a ELSE b

GetBlockId(bs, i) == IF i < Len(bs) THEN bs[i + 1] ELSE Block0

\* The loop that splits n bytes from offset off of a file into pieces of one
\* block each: the first may start inside its block, the rest at its start.
\* buf is the place of the piece in the caller's buffer.
FirstPieceWholeBlock(bs, off, n) ==
    LET piece[i \in Nat, c \in Nat] ==
          LET from == IF c = 0 THEN off % BlockSize ELSE 0
              len == SmallerOf(n - c, BlockSize)
              p == [id |-> GetBlockId(bs, i), off |-> from, buf |-> c, len |-> len]
          IN  IF c + len >= n THEN <<p>> ELSE <<p>> \o piece[i + 1, c + len]
    IN  piece[off \div BlockSize, 0]
Pieces(bs, off, n) ==
    LET piece[i \in Nat, c \in Nat] ==
          LET from == IF c = 0 THEN off % BlockSize ELSE 0
              len == SmallerOf(n - c, BlockSize - from)
              p == [id |-> GetBlockId(bs, i), off |-> from, buf |-> c, len |-> len]
          IN  IF c + len >= n THEN <<p>> ELSE <<p>> \o piece[i + 1, c + len]
    IN  piece[off \div BlockSize, 0]

NumBlocks(s) == (s + BlockSize - 1) \div BlockSize

-----------------------------------------------------------------------------
(* pread and read: the length is cut at the size of the file.  Reads of    *)
(* nothing return at once.                                                 *)

ReadFrom(t, op, f, off, n) ==
    /\ Start(t, op, f)
    /\ n > 0 /\ 0 <= off /\ off < size[f]
    /\ Step(t, "split", [NoLoc EXCEPT !.op = op, !.f = f, !.off = off,
                                      !.n = SmallerOf(n, size[f] - off)])
    /\ UNCHANGED <<disk, ids, size, pool, pos, failures>>

Pread(t, f, off, n) == ReadFrom(t, "pread", f, off, n)

\* read at append_pos_; a position that lseek made negative is a huge unsigned
\* number and reads nothing.
Read(t, f, n) == ReadFrom(t, "read", f, pos[f], n)

\* The position is stored as it is computed, negative or past the end.
Lseek(t, f, off, whence) ==
    LET to == CASE whence = "set" -> off
                [] whence = "cur" -> pos[f] + off
                [] whence = "end" -> size[f] + off
    IN
    /\ "lseek" \in Ops /\ pc[t] = "idle"
    /\ to \in -1 .. MaxPos
    /\ pos' = [pos EXCEPT ![f] = to]
    /\ UNCHANGED <<disk, ids, size, pool, pc, loc, failures>>

-----------------------------------------------------------------------------
(* pwrite and truncate *)

\* A write past the end first extends the file to the end of the write.
Pwrite(t, f, off, n) ==
    /\ Start(t, "pwrite", f) /\ NoWriter(f) /\ n > 0 /\ off + n <= MaxSize
    /\ Step(t, IF off + n > size[f] THEN "extend" ELSE "split",
            [NoLoc EXCEPT !.op = "pwrite", !.f = f, !.off = off, !.n = n])
    /\ UNCHANGED <<disk, ids, size, pool, pos, failures>>

Truncate(t, f, to) ==
    /\ Start(t, "extend", f) /\ NoWriter(f)
    /\ to > size[f] /\ to <= MaxSize
    /\ Step(t, "extend", [NoLoc EXCEPT !.op = "extend", !.f = f, !.off = to])
    /\ UNCHANGED <<disk, ids, size, pool, pos, failures>>

\* ExtendFile takes blocks as they are, with what was last written to them.
Extend(t) ==
    LET f == loc[t].f
        to == loc[t].off + loc[t].n
        need == NumBlocks(to) - NumBlocks(size[f])
    IN
    /\ At(t, "extend")
    /\ \/ /\ Cardinality(pool) >= need
          /\ \E s \in Injection(1 .. need, pool) :
                /\ ids' = [ids EXCEPT ![f] = @ \o s]
                /\ pool' = pool \ Range(s)
          /\ size' = [size EXCEPT ![f] = to]
          /\ IF loc[t].op = "pwrite" THEN Step(t, "split", loc[t]) ELSE Return(t)
       \/ /\ Cardinality(pool) < need
          /\ Return(t)
          /\ UNCHANGED <<ids, size, pool>>
    /\ UNCHANGED <<disk, pos, failures>>

\* ShrinkFile: a cut inside a block copies the part that stays into a new block.
CopiedAll(src, dst, n) == disk
Copied(src, dst, n) ==
    [disk EXCEPT ![dst] = [c \in Cells |-> IF c < n THEN disk[src][c] ELSE @[c]]]

Shrink(t, f, to) ==
    LET whole == to \div BlockSize
        rest == to % BlockSize
        kept == SubSeq(ids[f], 1, whole)
        Cut(new) == [NoLoc EXCEPT !.op = "shrink", !.f = f, !.off = to, !.buf = kept \o new]
    IN
    /\ Start(t, "shrink", f) /\ NoWriter(f) /\ to < size[f]
    /\ \/ /\ rest = 0
          /\ Step(t, "shrink_switch", Cut(<<>>))
          /\ UNCHANGED <<disk, pool>>
       \/ /\ rest > 0
          /\ \E b \in pool :
                /\ pool' = pool \ {b}
                /\ disk' = Copied(GetBlockId(ids[f], whole), b, rest)
                /\ Step(t, "shrink_switch", Cut(<<b>>))
    /\ UNCHANGED <<ids, size, pos, failures>>

\* The file goes over to the new meta and FileBlock ...  (cut is a history
\* variable: the file of the read was shrunk under it.)
ShrinkSwitch(t) ==
    LET f == loc[t].f IN
    /\ At(t, "shrink_switch")
    /\ ids' = [ids EXCEPT ![f] = loc[t].buf]
    /\ size' = [size EXCEPT ![f] = loc[t].off]
    /\ pc' = [pc EXCEPT ![t] = "recycle"]
    /\ loc' = [u \in Threads |->
                  IF u = t THEN [loc[t] EXCEPT !.old = Range(ids[f]) \ Range(loc[t].buf)]
                  ELSE IF loc[u].f = f THEN [loc[u] EXCEPT !.cut = TRUE] ELSE loc[u]]
    /\ UNCHANGED <<disk, pool, pos, failures>>

\* ... and the blocks it did not inherit go back into the pool.
RecycledAll(t) == pool \cup loc[t].old \cup Range(loc[t].buf)
Recycled(t) == pool \cup loc[t].old
Recycle(t) ==
    /\ At(t, "recycle")
    /\ pool' = Recycled(t)
    /\ Return(t)
    /\ UNCHANGED <<disk, ids, size, pos, failures>>

-----------------------------------------------------------------------------
(* ReadData and WriteData: first all the pieces are computed from the ids  *)
(* of the FileBlock, without a lock, then each is moved under the lock of  *)
(* its block.                                                              *)

Split(t) ==
    LET r == loc[t] IN
    /\ At(t, "split")
    /\ Step(t, "move", [r EXCEPT !.todo = Pieces(ids[r.f], r.off, r.n)])
    /\ UNCHANGED <<disk, ids, size, pool, pos, failures>>

\* The caller's buffer and the bytes of it that a piece takes.
Buffer(r) == [k \in 1 .. r.n |-> Tag(r.f, r.off + k - 1)]
Source(r, p) == SubSeq(Buffer(r), p.buf + 1, p.buf + p.len)

\* What a piece finds on the device, and the device after it was written.
ReadBlockData(p) == [k \in 1 .. p.len |-> disk[p.id][p.off + k - 1]]
WriteBlockData(p, data) ==
    [disk EXCEPT ![p.id] = [c \in Cells |-> IF c \in p.off .. p.off + p.len - 1
                                            THEN data[c - p.off + 1] ELSE @[c]]]

Move(t) ==
    LET r == loc[t]
        p == Head(r.todo)
        data == IF r.op = "pwrite" THEN Source(r, p) ELSE ReadBlockData(p)
    IN
    /\ At(t, "move") /\ r.todo # <<>>
    /\ disk' = IF r.op = "pwrite" THEN WriteBlockData(p, data) ELSE disk
    /\ Step(t, "move", [r EXCEPT !.todo = Tail(@), !.buf = @ \o data])
    /\ UNCHANGED <<ids, size, pool, pos, failures>>

\* The position moves by what was moved, for pread and pwrite too; a device
\* error ends the request with what was moved so far.
Moved(t) == pos[loc[t].f] + Len(loc[t].buf)
Done(t, ok) ==
    LET f == loc[t].f IN
    /\ At(t, "move")
    /\ IF ok THEN loc[t].todo = <<>> /\ UNCHANGED failures
       ELSE loc[t].todo # <<>> /\ failures < MaxFailures /\ failures' = failures + 1
    /\ pos' = [pos EXCEPT ![f] = Moved(t)]
    /\ Return(t)
    /\ UNCHANGED <<disk, ids, size, pool>>

-----------------------------------------------------------------------------
(* The requests: handlers of the FUSE front end, and the calls of the      *)
(* library that use the file's position.                                   *)

mfs_read(t, f) == \E off \in Offsets, n \in Lengths : Pread(t, f, off, n)
write(t, f) == \E off \in Offsets, n \in Lengths : Pwrite(t, f, off, n)
mfs_truncate(t, f) == \E to \in Sizes : Truncate(t, f, to) \/ Shrink(t, f, to)
ReadFile(t, f) == \E n \in Lengths : Read(t, f, n)
SeekFile(t, f) ==
    \E off \in Seeks, whence \in {"set", "cur", "end"} :
        Lseek(t, f, off, whence) \/ Lseek(t, f, -off, whence)

Call(t) ==
    \E f \in Files :
        mfs_read(t, f) \/ write(t, f) \/ mfs_truncate(t, f) \/ ReadFile(t, f) \/ SeekFile(t, f)

Continue(t) ==
    \/ Extend(t) \/ ShrinkSwitch(t) \/ Recycle(t) \/ Split(t) \/ Move(t)
    \/ \E ok \in BOOLEAN : Done(t, ok)

Next == \E t \in Threads : Call(t) \/ Continue(t)

Spec == Init /\ [][Next]_vars

-----------------------------------------------------------------------------
(* Properties *)

\* The bytes of f as its size and its blocks give them.
Content(f) ==
    [i \in 1 .. size[f] |->
        disk[GetBlockId(ids[f], (i - 1) \div BlockSize)][(i - 1) % BlockSize]]

\* The request a thread serves, from the moment it knows its pieces.
Request(t) ==
    IF pc[t] = "move"
    THEN [op |-> IF loc[t].op = "pwrite" THEN "write"
                 ELSE IF loc[t].cut THEN "cut" ELSE "read",
          f |-> loc[t].f, off |-> loc[t].off, n |-> loc[t].n, buf |-> loc[t].buf,
          data |-> IF loc[t].op = "pwrite" THEN Buffer(loc[t]) ELSE <<>>]
    ELSE [op |-> "none"]

Promised == INSTANCE ByteFiles WITH
    content <- [f \in Files |-> Content(f)],
    io <- [t \in Threads |-> Request(t)]

\* Files are independent byte sequences: a request moves exactly the bytes it
\* was asked for, of its own file and in order, whatever blocks other threads
\* take, give back and fill meanwhile; only a read of a file that is shrunk
\* under it may return anything (file.cc:690-850, :379-590).
FilesAreBytes == Promised!Spec

\* The comments at file.cc:878-880 (pwrite "fills any gaps with zeros") and
\* file.cc:625: the bytes between the old end of the file and the offset of the
\* write are zero once the file has grown over them.
GapsAreZero ==
    [][\A t \in Threads :
          LET f == loc[t].f IN
          At(t, "extend") /\ loc[t].op = "pwrite" /\ ~At(t, "extend")' =>
              \A i \in size[f] + 1 .. loc[t].off : i <= size'[f] => Content(f)'[i] = Zero]_vars
=============================================================================
