-------------------------- MODULE FileStoreProofs --------------------------
(***************************************************************************)
(* Theorems about FileStore, for every number of threads, names, handles   *)
(* and blocks, every page and block size, and any number of crashes and    *)
(* failed writes.                                                          *)
(***************************************************************************)
EXTENDS FileStore, FiniteSetTheorems, TLAPS

-----------------------------------------------------------------------------
(* What the helpers return *)

\* The tables are finite, so the lists that a mount makes are sequences.
LEMMA HandlesFinite ==
    /\ \A S \in SUBSET Fhs : Cardinality(S) \in Nat
    /\ \A S \in SUBSET Fbs : Cardinality(S) \in Nat
<1>1. MaxFiles - 1 \in Int /\ MaxFileBlocks - 1 \in Int
    BY StoreAssumption
<1>2. IsFiniteSet(Fhs) /\ IsFiniteSet(Fbs)
    BY <1>1, FS_Interval DEF Fhs, Fbs
<1>3. QED
    BY <1>2, FS_Subset, FS_CardinalityType

\* A function on 1 .. n is a sequence.
LEMMA FbSeq == ASSUME NEW S, NEW n \in Nat, NEW s \in [1 .. n -> S]
               PROVE  s \in Seq(S)
BY DEF Seq

\* The number of whole blocks of a size.
LEMMA DivNat == ASSUME NEW x \in Nat
                PROVE  x \div BlockSize \in Nat
BY StoreAssumption

\* ExtendFile asks for a number of blocks that is never negative.
LEMMA BlocksNeededNat == ASSUME NEW size \in Nat, NEW off \in Nat
                         PROVE  BlocksNeeded(size, off) \in Nat
<1> DEFINE left == IF size % BlockSize = 0 THEN 0 ELSE BlockSize - (size % BlockSize)
<1>1. size % BlockSize \in 0 .. BlockSize - 1
    BY StoreAssumption
<1>2. left \in Nat
    BY <1>1, StoreAssumption
<1> HIDE DEF left
<1>3. CASE off - size <= left
    BY <1>3 DEF BlocksNeeded, left
<1>4. CASE ~(off - size <= left)
    <2>1. (off - size) - left + BlockSize - 1 \in Nat
        BY <1>2, <1>4, StoreAssumption
    <2>2. NumBlocks((off - size) - left) \in Nat
        BY <2>1, DivNat DEF NumBlocks
    <2>3. QED
        BY <2>2, <1>4 DEF BlocksNeeded, left
<1>5. QED
    BY <1>3, <1>4

\* The last and the first of a set of handles is a member of it, or None.
LEMMA LastFirstType ==
    ASSUME NEW S
    PROVE  /\ Last(S) \in S \cup {None}
           /\ First(S) \in S \cup {None}
BY DEF Last, First

\* Formatted metas and the locals of an idle thread have their types.
LEMMA FreshTypes ==
    /\ FreshFile \in FileMeta /\ FreshFb \in FileBlockMeta
    /\ NoPage \in [Fhs -> FileMeta] /\ NoLoc \in Loc
BY DEF FreshFile, FileMeta, FreshFb, FileBlockMeta, NoPage, NoLoc, Loc

\* Computing a crc keeps the type of the table.
LEMMA SealedType ==
    ASSUME NEW fm \in [Fhs -> FileMeta], NEW f \in Fhs
    PROVE  Sealed(fm, f) \in [Fhs -> FileMeta]
BY DEF Sealed, FileMeta

\* So does writing a page of it to the device.
LEMMA PageWrittenType ==
    ASSUME TypeOK, NEW fm \in [Fhs -> FileMeta], NEW f \in Fhs
    PROVE  PageWritten(fm, f) \in [Fhs -> FileMeta]
BY DEF TypeOK, PageWritten

\* A write counts its failures.
LEMMA DeviceWriteType ==
    ASSUME TypeOK, NEW good \in BOOLEAN, DeviceWrite(good)
    PROVE  failures' \in Nat
<1>1. CASE good
    BY <1>1 DEF TypeOK, DeviceWrite
<1>2. CASE ~good
    BY <1>2 DEF TypeOK, DeviceWrite
<1>3. QED
    BY <1>1, <1>2

\* File::WriteMeta keeps the types of both images of the table.
LEMMA WriteMetaType ==
    ASSUME TypeOK, NEW fm \in [Fhs -> FileMeta], NEW f \in Fhs,
           NEW good \in BOOLEAN, WriteMeta(fm, f, good)
    PROVE  /\ fmeta' \in [Fhs -> FileMeta]
           /\ disk_fmeta' \in [Fhs -> FileMeta]
           /\ failures' \in Nat
<1>1. failures' \in Nat
    BY DeviceWriteType DEF WriteMeta
<1>2. fmeta' \in [Fhs -> FileMeta]
    BY SealedType DEF WriteMeta
<1>3. PageWritten(Sealed(fm, f), f) \in [Fhs -> FileMeta]
    BY SealedType, PageWrittenType
<1>4. disk_fmeta' \in [Fhs -> FileMeta]
    BY <1>3 DEF TypeOK, WriteMeta
<1>5. QED
    BY <1>1, <1>2, <1>4

\* FileBlock::WriteMeta does so for the FileBlocks.
LEMMA WriteFbMetaType ==
    ASSUME TypeOK, NEW fbm \in [Fbs -> FileBlockMeta], NEW b \in Fbs,
           NEW good \in BOOLEAN, WriteFbMeta(fbm, b, good)
    PROVE  /\ fbmeta' \in [Fbs -> FileBlockMeta]
           /\ disk_fbmeta' \in [Fbs -> FileBlockMeta]
           /\ failures' \in Nat
<1>1. failures' \in Nat
    BY DeviceWriteType DEF WriteFbMeta
<1>2. [disk_fbmeta EXCEPT ![b] = fbm[b]] \in [Fbs -> FileBlockMeta]
    BY DEF TypeOK
<1>3. QED
    BY <1>1, <1>2 DEF TypeOK, WriteFbMeta

-----------------------------------------------------------------------------
(* TypeOK is preserved together with the fact that a thread has set the    *)
(* locals that the code after its label reads.                             *)

\* The locals r hold what a thread at label l goes on to use.
Fit(l, r) ==
    /\ l # "idle" => r.name \in Names
    /\ l \notin {"idle", "recycle_child"} => r.fh \in Fhs
    /\ l \in {"extend_blocks", "extend_fb", "unlink_fb", "shrink_copy",
              "shrink_write_fb", "recycle_fb"} => r.fb \in Fbs
    /\ l \in {"shrink_fb", "shrink_copy", "shrink_detach", "shrink_attach",
              "shrink_write", "shrink_land", "shrink_write_fb",
              "shrink_write_old", "shrink_land_old", "recycle_blocks",
              "recycle_fb", "recycle_meta", "recycle_child"} => r.new \in Fhs

LocalsSet == \A t \in Threads : Fit(pc[t], loc[t])

\* The threads' own state has its type.
ThreadsOK == pc \in [Threads -> Pcs] /\ loc \in [Threads -> Loc] /\ LocalsSet

\* One thread moves to label l with locals r.
Moved(t, l, r) ==
    /\ pc' = [pc EXCEPT ![t] = l]
    /\ loc' = [loc EXCEPT ![t] = r]

\* A thread that moves to a label with locals that fit it.
LEMMA MovedType ==
    ASSUME TypeOK, LocalsSet, NEW t \in Threads, NEW l \in Pcs, NEW r \in Loc,
           Fit(l, r), Moved(t, l, r)
    PROVE  ThreadsOK'
<1>1. pc' \in [Threads -> Pcs] /\ loc' \in [Threads -> Loc]
    BY DEF TypeOK, Moved
<1>2. ASSUME NEW u \in Threads
      PROVE  Fit(pc'[u], loc'[u])
    <2>1. CASE u = t
        BY <2>1 DEF TypeOK, Moved
    <2>2. CASE u # t
        <3>1. pc'[u] = pc[u] /\ loc'[u] = loc[u]
            BY <2>2 DEF TypeOK, Moved
        <3>2. QED
            BY <3>1 DEF LocalsSet
    <2>3. QED
        BY <2>1, <2>2
<1>3. QED
    BY <1>1, <1>2 DEF LocalsSet, ThreadsOK

\* A return is a move to idle without locals ...
LEMMA ReturnMoved ==
    ASSUME NEW t, Return(t)
    PROVE  Moved(t, "idle", NoLoc)
BY DEF Return, Moved

\* ... and no locals fit idle.
LEMMA IdleFits == Fit("idle", NoLoc) /\ "idle" \in Pcs
BY DEF Fit, Pcs

\* The formatted, unmounted device.
LEMMA InitType == Init => TypeOK /\ LocalsSet
<1> SUFFICES ASSUME Init PROVE TypeOK /\ LocalsSet
    OBVIOUS
<1>1. TypeOK
    BY FreshTypes, IdleFits DEF Init, TypeOK
<1>2. LocalsSet
    BY IdleFits DEF Init, LocalsSet
<1>3. QED
    BY <1>1, <1>2

\* Taking a handle off a free list.
LEMMA TakeHead ==
    ASSUME NEW S, NEW s \in Seq(S), s # <<>>
    PROVE  Head(s) \in S /\ Tail(s) \in Seq(S)
OBVIOUS

\* Claiming a meta, setting its size and setting its child keep the table's type.
LEMMA ClaimedType ==
    ASSUME NEW m \in FileMeta, NEW n \in Names
    PROVE  ClaimedMeta(m, n) \in FileMeta
BY DEF ClaimedMeta, FileMeta

\* Setting a size keeps the table's type.
LEMMA SizeSetType ==
    ASSUME TypeOK, NEW f \in Fhs, NEW k \in Nat
    PROVE  [fmeta EXCEPT ![f].size = k] \in [Fhs -> FileMeta]
BY DEF TypeOK, FileMeta

\* Setting the child keeps the table's type.
LEMMA ChildSetType ==
    ASSUME TypeOK, NEW f \in Fhs, NEW g \in Fhs
    PROVE  [fmeta EXCEPT ![f].child = g, ![f].ok = FALSE] \in [Fhs -> FileMeta]
BY DEF TypeOK, FileMeta

\* CreateFile.
LEMMA CreateNewType ==
    ASSUME TypeOK, LocalsSet, NEW t \in Threads, NEW n \in Names, CreateNew(t, n)
    PROVE  TypeOK' /\ LocalsSet'
<1> DEFINE g == Head(free_fhs)
           r == [loc[t] EXCEPT !.name = n, !.fh = g]
<1>1. g \in Fhs /\ Tail(free_fhs) \in Seq(Fhs)
    BY TakeHead DEF CreateNew, TypeOK
<1>2. r \in Loc /\ Fit("create_write", r)
    BY <1>1 DEF TypeOK, Loc, Fit
<1>3. Moved(t, "create_write", r)
    BY DEF CreateNew, Goto, Moved, TypeOK, Loc
<1>4. fmeta' \in [Fhs -> FileMeta]
    BY <1>1, ClaimedType DEF CreateNew, TypeOK
<1>5. ThreadsOK'
    BY <1>2, <1>3, MovedType DEF Pcs
<1>6. QED
    BY <1>1, <1>4, <1>5 DEF CreateNew, TypeOK, ThreadsOK, disk

\* CreateFile persists its meta.
LEMMA CreateWriteType ==
    ASSUME TypeOK, LocalsSet, NEW t \in Threads, NEW good \in BOOLEAN, CreateWrite(t, good)
    PROVE  TypeOK' /\ LocalsSet'
<1>1. loc[t].fh \in Fhs /\ loc[t] \in Loc /\ Fit("create_add", loc[t])
    BY DEF CreateWrite, At, LocalsSet, Fit, TypeOK
<1>2. fmeta' \in [Fhs -> FileMeta] /\ disk_fmeta' \in [Fhs -> FileMeta] /\ failures' \in Nat
    BY <1>1, WriteMetaType DEF CreateWrite, TypeOK
<1>3. Moved(t, "create_add", loc[t]) \/ Moved(t, "idle", NoLoc)
    BY ReturnMoved DEF CreateWrite, Goto, Moved, TypeOK
<1>4. ThreadsOK'
    BY <1>1, <1>3, MovedType, IdleFits, FreshTypes DEF Pcs
<1>5. QED
    BY <1>2, <1>4 DEF CreateWrite, TypeOK, ThreadsOK

\* CreateFile enters the file under its name.
LEMMA CreateAddType ==
    ASSUME TypeOK, LocalsSet, NEW t \in Threads, CreateAdd(t)
    PROVE  TypeOK' /\ LocalsSet'
<1>1. loc[t].fh \in Fhs /\ loc[t].name \in Names
    BY DEF CreateAdd, At, LocalsSet, Fit, TypeOK
<1>2. ThreadsOK'
    BY ReturnMoved, MovedType, IdleFits, FreshTypes DEF CreateAdd
<1>3. QED
    BY <1>1, <1>2 DEF CreateAdd, TypeOK, ThreadsOK, disk

\* ExtendFile.
LEMMA ExtendStartType ==
    ASSUME TypeOK, LocalsSet, NEW t \in Threads, NEW n \in Names, NEW off \in Offsets,
           ExtendStart(t, n, off)
    PROVE  TypeOK' /\ LocalsSet'
<1> DEFINE f == created_files[n]
           r1 == [loc[t] EXCEPT !.name = n, !.fh = f, !.off = off,
                                !.fb = Head(free_fbhs), !.new_fb = TRUE]
           r2 == [loc[t] EXCEPT !.name = n, !.fh = f, !.off = off, !.fb = item[f]]
<1>1. f \in Fhs /\ off \in Nat /\ item[f] \in Fbs \cup {None}
    BY StoreAssumption DEF ExtendStart, TypeOK
<1>2. CASE fmeta[f].size = 0 /\ free_fbhs # <<>> /\ free_fbhs' = Tail(free_fbhs)
           /\ loc' = [loc EXCEPT ![t].name = n, ![t].fh = f, ![t].off = off,
                                 ![t].fb = Head(free_fbhs), ![t].new_fb = TRUE]
    <2>1. Head(free_fbhs) \in Fbs /\ Tail(free_fbhs) \in Seq(Fbs)
        BY <1>2, TakeHead DEF TypeOK
    <2>2. r1 \in Loc /\ Fit("extend_blocks", r1)
        BY <1>1, <2>1 DEF TypeOK, Loc, Fit
    <2>3. Moved(t, "extend_blocks", r1)
        BY <1>2 DEF ExtendStart, Goto, Moved, TypeOK, Loc
    <2>4. ThreadsOK'
        BY <2>2, <2>3, MovedType DEF Pcs
    <2>5. QED
        BY <1>2, <2>1, <2>4 DEF ExtendStart, TypeOK, ThreadsOK, disk
<1>3. CASE item[f] # None /\ UNCHANGED free_fbhs
           /\ loc' = [loc EXCEPT ![t].name = n, ![t].fh = f, ![t].off = off,
                                 ![t].fb = item[f]]
    <2>2. r2 \in Loc /\ Fit("extend_blocks", r2)
        BY <1>1, <1>3 DEF TypeOK, Loc, Fit
    <2>3. Moved(t, "extend_blocks", r2)
        BY <1>3 DEF ExtendStart, Goto, Moved, TypeOK, Loc
    <2>4. ThreadsOK'
        BY <2>2, <2>3, MovedType DEF Pcs
    <2>5. QED
        BY <1>3, <2>4 DEF ExtendStart, TypeOK, ThreadsOK, disk
<1>4. QED
    BY <1>2, <1>3 DEF ExtendStart

\* ExtendFile takes its blocks.
LEMMA ExtendBlocksType ==
    ASSUME TypeOK, LocalsSet, NEW t \in Threads, ExtendBlocks(t)
    PROVE  TypeOK' /\ LocalsSet'
<1> DEFINE need == BlocksNeeded(fmeta[loc[t].fh].size, loc[t].off)
<1>1. loc[t] \in Loc /\ Fit("extend_blocks", loc[t])
    BY DEF ExtendBlocks, At, LocalsSet, TypeOK
<1>2. loc[t].fh \in Fhs /\ loc[t].fb \in Fbs /\ loc[t].off \in Nat
    BY <1>1 DEF Fit, Loc
<1>3. need \in Nat
    BY <1>2, BlocksNeededNat DEF TypeOK, FileMeta
<1>4. CASE /\ Goto(t, IF need > 0 THEN "extend_fb" ELSE "extend_size")
           /\ UNCHANGED free_fbhs
           /\ \E s \in BlockChoices(need) :
                 pool' = pool \ Range(s) /\ loc' = [loc EXCEPT ![t].ids = s]
    <2>1. PICK s \in BlockChoices(need) :
              pool' = pool \ Range(s) /\ loc' = [loc EXCEPT ![t].ids = s]
        BY <1>4
    <2>2. s \in [1 .. need -> pool]
        BY DEF BlockChoices, Injection
    <2>3. s \in Seq(Blocks)
        BY <1>3, <2>2, FbSeq DEF TypeOK
    <2> DEFINE r == [loc[t] EXCEPT !.ids = s]
    <2>4. r \in Loc /\ Fit("extend_fb", r) /\ Fit("extend_size", r)
        BY <1>1, <2>3 DEF Loc, Fit
    <2>5. Moved(t, "extend_fb", r) \/ Moved(t, "extend_size", r)
        BY <1>4, <2>1 DEF Goto, Moved, TypeOK, Loc
    <2>6. ThreadsOK'
        BY <2>4, <2>5, MovedType DEF Pcs
    <2>7. QED
        BY <1>4, <2>1, <2>6 DEF ExtendBlocks, TypeOK, ThreadsOK, disk
<1>5. CASE free_fbhs' = PutBack(t) /\ Return(t) /\ UNCHANGED pool
    <2>1. free_fbhs' \in Seq(Fbs)
        BY <1>2, <1>5 DEF PutBack, TypeOK
    <2>2. ThreadsOK'
        BY <1>5, ReturnMoved, MovedType, IdleFits, FreshTypes
    <2>3. QED
        BY <1>5, <2>1, <2>2 DEF ExtendBlocks, TypeOK, ThreadsOK, disk
<1>6. QED
    BY <1>4, <1>5 DEF ExtendBlocks

\* The FileBlock that ExtendFile fills.
LEMMA FilledFbType ==
    ASSUME TypeOK, NEW t \in Threads, loc[t].fb \in Fbs, loc[t].fh \in Fhs
    PROVE  FilledFb(t) \in FileBlockMeta
<1> DEFINE b == loc[t].fb
           fits == IF Len(loc[t].ids) <= Room(b) THEN loc[t].ids
                   ELSE SubSeq(loc[t].ids, 1, Room(b))
<1>1. fbmeta[b] \in FileBlockMeta /\ loc[t].ids \in Seq(Blocks) /\ Capacity \in Nat
    BY StoreAssumption DEF TypeOK, Loc
<1>2. fbmeta[b].ids \in Seq(Blocks) /\ fbmeta[b].fh \in Fhs \cup {None}
    BY <1>1 DEF FileBlockMeta
<1>3. Room(b) \in Int
    BY <1>1, <1>2 DEF Room
<1>4. CASE Len(loc[t].ids) <= Room(b)
    BY <1>1, <1>2, <1>4 DEF FilledFb, FileBlockMeta
<1>5. CASE ~(Len(loc[t].ids) <= Room(b))
    <2>1. Room(b) < Len(loc[t].ids)
        BY <1>1, <1>3, <1>5
    <2>2. SubSeq(loc[t].ids, 1, Room(b)) \in Seq(Blocks)
        BY <1>1, <1>3, <2>1
    <2>3. QED
        BY <1>1, <1>2, <1>5, <2>2 DEF FilledFb, FileBlockMeta
<1>6. QED
    BY <1>4, <1>5

\* ExtendFile fills and persists its FileBlock.
LEMMA ExtendFbType ==
    ASSUME TypeOK, LocalsSet, NEW t \in Threads, NEW good \in BOOLEAN, ExtendFb(t, good)
    PROVE  TypeOK' /\ LocalsSet'
<1> DEFINE b == loc[t].fb
           fbm == [fbmeta EXCEPT ![b] = FilledFb(t)]
<1>1. loc[t] \in Loc /\ Fit("extend_fb", loc[t])
    BY DEF ExtendFb, At, LocalsSet, TypeOK
<1>2. loc[t].fh \in Fhs /\ b \in Fbs /\ Fit("extend_size", loc[t])
    BY <1>1 DEF Fit
<1>3. fbm \in [Fbs -> FileBlockMeta]
    BY <1>2, FilledFbType DEF TypeOK
<1>4. /\ fbmeta' \in [Fbs -> FileBlockMeta]
      /\ disk_fbmeta' \in [Fbs -> FileBlockMeta]
      /\ failures' \in Nat
    BY <1>2, <1>3, WriteFbMetaType DEF ExtendFb, TypeOK
<1>5. item' \in [Fhs -> Fbs \cup {None}]
    BY <1>2 DEF ExtendFb, TypeOK
<1>6. Moved(t, "extend_size", loc[t]) \/ Moved(t, "idle", NoLoc)
    BY ReturnMoved DEF ExtendFb, Goto, Moved, TypeOK
<1>7. ThreadsOK'
    BY <1>1, <1>2, <1>6, MovedType, IdleFits, FreshTypes DEF Pcs
<1>8. QED
    BY <1>4, <1>5, <1>7 DEF ExtendFb, TypeOK, ThreadsOK

\* ExtendFile sets the size.
LEMMA ExtendSizeType ==
    ASSUME TypeOK, LocalsSet, NEW t \in Threads, NEW good \in BOOLEAN, ExtendSize(t, good)
    PROVE  TypeOK' /\ LocalsSet'
<1>1. loc[t].fh \in Fhs /\ loc[t].off \in Nat
    BY DEF ExtendSize, At, LocalsSet, Fit, TypeOK, Loc
<1>2. [fmeta EXCEPT ![loc[t].fh].size = loc[t].off] \in [Fhs -> FileMeta]
    BY <1>1, SizeSetType
<1>3. fmeta' \in [Fhs -> FileMeta] /\ disk_fmeta' \in [Fhs -> FileMeta] /\ failures' \in Nat
    BY <1>1, <1>2, WriteMetaType DEF ExtendSize
<1>4. ThreadsOK'
    BY ReturnMoved, MovedType, IdleFits, FreshTypes DEF ExtendSize
<1>5. QED
    BY <1>3, <1>4 DEF ExtendSize, TypeOK, ThreadsOK

\* unlink.
LEMMA UnlinkStartType ==
    ASSUME TypeOK, LocalsSet, NEW t \in Threads, NEW n \in Names, UnlinkStart(t, n)
    PROVE  TypeOK' /\ LocalsSet'
<1> DEFINE f == created_files[n]
           r == [loc[t] EXCEPT !.name = n, !.fh = f, !.fb = item[f]]
<1>1. f \in Fhs /\ item[f] \in Fbs \cup {None}
    BY DEF UnlinkStart, TypeOK
<1>2. pool' \subseteq Blocks
    <2>1. CASE item[f] = None
        BY <2>1 DEF UnlinkStart, TypeOK
    <2>2. CASE item[f] # None
        <3>1. fbmeta[item[f]].ids \in Seq(Blocks)
            BY <1>1, <2>2 DEF TypeOK, FileBlockMeta
        <3>2. Range(fbmeta[item[f]].ids) \subseteq Blocks
            BY <3>1 DEF Range
        <3>3. QED
            BY <2>2, <3>2 DEF UnlinkStart, TypeOK
    <2>3. QED
        BY <2>1, <2>2
<1>3. r \in Loc /\ Fit("unlink_meta", r) /\ (item[f] # None => Fit("unlink_fb", r))
    BY <1>1 DEF TypeOK, Loc, Fit
<1>4. Moved(t, IF item[f] = None THEN "unlink_meta" ELSE "unlink_fb", r)
    BY DEF UnlinkStart, Goto, Moved, TypeOK, Loc
<1>5. ThreadsOK'
    BY <1>3, <1>4, MovedType DEF Pcs
<1>6. QED
    BY <1>2, <1>5 DEF UnlinkStart, TypeOK, ThreadsOK, disk

\* unlink releases the FileBlock.
LEMMA UnlinkFbType ==
    ASSUME TypeOK, LocalsSet, NEW t \in Threads, NEW good \in BOOLEAN, UnlinkFb(t, good)
    PROVE  TypeOK' /\ LocalsSet'
<1> DEFINE b == loc[t].fb
           r == [loc[t] EXCEPT !.fb = None]
<1>1. loc[t] \in Loc /\ Fit("unlink_fb", loc[t])
    BY DEF UnlinkFb, At, LocalsSet, TypeOK
<1>2. loc[t].fh \in Fhs /\ b \in Fbs
    BY <1>1 DEF Fit
<1>3. [fbmeta EXCEPT ![b] = FreshFb] \in [Fbs -> FileBlockMeta]
    BY FreshTypes DEF TypeOK
<1>4. /\ fbmeta' \in [Fbs -> FileBlockMeta]
      /\ disk_fbmeta' \in [Fbs -> FileBlockMeta]
      /\ failures' \in Nat
    BY <1>2, <1>3, WriteFbMetaType DEF UnlinkFb
<1>5. item' \in [Fhs -> Fbs \cup {None}] /\ free_fbhs' \in Seq(Fbs)
    <2>1. CASE good
        <3>1. free_fbhs' = Append(free_fbhs, b) /\ item' = [item EXCEPT ![loc[t].fh] = None]
            BY <2>1 DEF UnlinkFb
        <3>2. QED
            BY <1>2, <3>1 DEF TypeOK
    <2>2. CASE ~good
        BY <2>2 DEF UnlinkFb, TypeOK
    <2>3. QED
        BY <2>1, <2>2
<1>6. r \in Loc /\ Fit("unlink_meta", r)
    BY <1>1 DEF Loc, Fit
<1>7. Moved(t, "unlink_meta", r) \/ Moved(t, "idle", NoLoc)
    <2>1. CASE good
        BY <2>1 DEF UnlinkFb, Goto, Moved, TypeOK, Loc
    <2>2. CASE ~good
        BY <2>2, ReturnMoved DEF UnlinkFb
    <2>3. QED
        BY <2>1, <2>2
<1>8. ThreadsOK'
    BY <1>6, <1>7, MovedType, IdleFits, FreshTypes DEF Pcs
<1>9. QED
    BY <1>4, <1>5, <1>8 DEF UnlinkFb, TypeOK, ThreadsOK

\* File::ClearMeta keeps the table's type.
LEMMA ClearMetaType ==
    ASSUME TypeOK, NEW f \in Fhs
    PROVE  [fmeta EXCEPT ![f] = ClearMeta(@)] \in [Fhs -> FileMeta]
<1>1. \A m \in FileMeta : ClearMeta(m) \in FileMeta
    BY DEF ClearMeta, FileMeta
<1>2. QED
    BY <1>1 DEF TypeOK

\* unlink clears the meta.
LEMMA UnlinkMetaType ==
    ASSUME TypeOK, LocalsSet, NEW t \in Threads, NEW good \in BOOLEAN, UnlinkMeta(t, good)
    PROVE  TypeOK' /\ LocalsSet'
<1>1. loc[t] \in Loc /\ loc[t].fh \in Fhs /\ Fit("unlink_names", loc[t])
    BY DEF UnlinkMeta, At, LocalsSet, TypeOK, Fit
<1>2. fmeta' \in [Fhs -> FileMeta] /\ disk_fmeta' \in [Fhs -> FileMeta] /\ failures' \in Nat
    BY <1>1, ClearMetaType, WriteMetaType DEF UnlinkMeta
<1>3. Moved(t, "unlink_names", loc[t]) \/ Moved(t, "idle", NoLoc)
    BY ReturnMoved DEF UnlinkMeta, Goto, Moved, TypeOK
<1>4. ThreadsOK'
    BY <1>1, <1>3, MovedType, IdleFits, FreshTypes DEF Pcs
<1>5. QED
    BY <1>2, <1>4 DEF UnlinkMeta, TypeOK, ThreadsOK

\* unlink takes the name out of the maps.
LEMMA UnlinkNamesType ==
    ASSUME TypeOK, LocalsSet, NEW t \in Threads, UnlinkNames(t)
    PROVE  TypeOK' /\ LocalsSet'
<1>1. ThreadsOK'
    BY ReturnMoved, MovedType, IdleFits, FreshTypes DEF UnlinkNames
<1>2. QED
    BY <1>1 DEF UnlinkNames, TypeOK, ThreadsOK, disk

\* rename.
LEMMA RenameFileType ==
    ASSUME TypeOK, LocalsSet, NEW t \in Threads, NEW n \in Names, NEW m \in Names,
           NEW good \in BOOLEAN, RenameFile(t, n, m, good)
    PROVE  TypeOK' /\ LocalsSet'
<1> DEFINE f == created_files[n]
<1>1. f \in Fhs
    BY DEF RenameFile, TypeOK
<1>2. [fmeta EXCEPT ![f].name = m] \in [Fhs -> FileMeta]
    BY <1>1 DEF TypeOK, FileMeta
<1>3. fmeta' \in [Fhs -> FileMeta] /\ disk_fmeta' \in [Fhs -> FileMeta] /\ failures' \in Nat
    BY <1>1, <1>2, WriteMetaType DEF RenameFile
<1>4. LocalsSet'
    BY DEF RenameFile, LocalsSet
<1>5. QED
    BY <1>1, <1>3, <1>4 DEF RenameFile, TypeOK

\* ShrinkFile up to the exchange of the two files.
LEMMA ShrinkStartType ==
    ASSUME TypeOK, LocalsSet, NEW t \in Threads, NEW n \in Names, NEW off \in Offsets,
           ShrinkStart(t, n, off)
    PROVE  TypeOK' /\ LocalsSet'
<1> DEFINE f == created_files[n]
           g == Head(free_fhs)
           r == [loc[t] EXCEPT !.name = n, !.fh = f, !.new = g, !.off = off]
<1>1. f \in Fhs /\ g \in Fhs /\ Tail(free_fhs) \in Seq(Fhs) /\ off \in Nat
    BY TakeHead, StoreAssumption DEF ShrinkStart, TypeOK
<1>2. fmeta' \in [Fhs -> FileMeta]
    BY <1>1, ClaimedType DEF ShrinkStart, TypeOK
<1>3. r \in Loc /\ Fit("shrink_fb", r)
    BY <1>1 DEF TypeOK, Loc, Fit
<1>4. Moved(t, "shrink_fb", r)
    BY DEF ShrinkStart, Goto, Moved, TypeOK, Loc
<1>5. ThreadsOK'
    BY <1>3, <1>4, MovedType DEF Pcs
<1>6. QED
    BY <1>1, <1>2, <1>5 DEF ShrinkStart, TypeOK, ThreadsOK, disk

\* The ids that the new FileBlock inherits, unset slots included, are blocks.
LEMMA FirstIdsType ==
    ASSUME TypeOK, NEW b \in Fbs, NEW k \in Nat
    PROVE  FirstIds(b, k) \in Seq(Blocks)
<1>1. fbmeta[b].ids \in Seq(Blocks)
    BY DEF TypeOK, FileBlockMeta
<1>2. FirstIds(b, k) \in [1 .. k -> Blocks]
    BY <1>1, StoreAssumption DEF FirstIds
<1>3. QED
    BY <1>2, FbSeq

\* ShrinkFile makes the new FileBlock.
LEMMA ShrinkFbType ==
    ASSUME TypeOK, LocalsSet, NEW t \in Threads, ShrinkFb(t)
    PROVE  TypeOK' /\ LocalsSet'
<1> DEFINE g == loc[t].new
           old == item[loc[t].fh]
           kept == KeptBlocks(loc[t].off)
           b == Head(free_fbhs)
           r == [loc[t] EXCEPT !.fb = b]
           l == IF loc[t].off % BlockSize > 0 THEN "shrink_copy" ELSE "shrink_detach"
<1>1. loc[t] \in Loc /\ Fit("shrink_fb", loc[t])
    BY DEF ShrinkFb, At, LocalsSet, TypeOK
<1>2. loc[t].fh \in Fhs /\ g \in Fhs /\ loc[t].off \in Nat
    BY <1>1 DEF Fit, Loc
<1>3. kept \in Nat /\ kept * BlockSize \in Nat
    BY <1>2, DivNat, StoreAssumption DEF KeptBlocks
<1>4. fmeta' \in [Fhs -> FileMeta]
    BY <1>2, <1>3, SizeSetType DEF ShrinkFb
<1>5. CASE Goto(t, "shrink_detach") /\ UNCHANGED <<fbmeta, free_fbhs, loc>>
    <2>1. Moved(t, "shrink_detach", loc[t]) /\ Fit("shrink_detach", loc[t])
        BY <1>1, <1>5 DEF Goto, Moved, TypeOK, Fit
    <2>2. ThreadsOK'
        BY <1>1, <2>1, MovedType DEF Pcs
    <2>3. QED
        BY <1>4, <1>5, <2>2 DEF ShrinkFb, TypeOK, ThreadsOK, disk
<1>6. CASE /\ free_fbhs # <<>> /\ old # None
           /\ free_fbhs' = Tail(free_fbhs)
           /\ fbmeta' = [fbmeta EXCEPT ![b] = [used |-> TRUE, fh |-> g,
                                               ids |-> FirstIds(old, kept)]]
           /\ loc' = [loc EXCEPT ![t].fb = b]
           /\ Goto(t, l)
    <2>1. b \in Fbs /\ Tail(free_fbhs) \in Seq(Fbs) /\ old \in Fbs
        BY <1>2, <1>6, TakeHead DEF TypeOK
    <2>2. [used |-> TRUE, fh |-> g, ids |-> FirstIds(old, kept)] \in FileBlockMeta
        BY <1>2, <1>3, <2>1, FirstIdsType DEF FileBlockMeta
    <2>3. fbmeta' \in [Fbs -> FileBlockMeta]
        BY <1>6, <2>1, <2>2 DEF TypeOK
    <2>4. r \in Loc /\ Fit(l, r)
        BY <1>1, <2>1 DEF Loc, Fit
    <2>5. Moved(t, l, r)
        BY <1>6 DEF Goto, Moved, TypeOK, Loc
    <2>6. ThreadsOK'
        BY <2>4, <2>5, MovedType DEF Pcs
    <2>7. QED
        BY <1>4, <1>6, <2>1, <2>3, <2>6 DEF ShrinkFb, TypeOK, ThreadsOK, disk
<1>7. CASE Return(t) /\ UNCHANGED <<fbmeta, free_fbhs>>
    <2>1. ThreadsOK'
        BY <1>7, ReturnMoved, MovedType, IdleFits, FreshTypes
    <2>2. QED
        BY <1>4, <1>7, <2>1 DEF ShrinkFb, TypeOK, ThreadsOK, disk
<1>8. QED
    BY <1>5, <1>6, <1>7 DEF ShrinkFb

\* ShrinkFile copies the block that is cut.
LEMMA ShrinkCopyType ==
    ASSUME TypeOK, LocalsSet, NEW t \in Threads, NEW good \in BOOLEAN, ShrinkCopy(t, good)
    PROVE  TypeOK' /\ LocalsSet'
<1> DEFINE b == loc[t].fb
<1>1. loc[t] \in Loc /\ Fit("shrink_copy", loc[t]) /\ b \in Fbs /\ Fit("shrink_detach", loc[t])
    BY DEF ShrinkCopy, At, LocalsSet, TypeOK, Fit
<1>2. failures' \in Nat
    BY DeviceWriteType DEF ShrinkCopy
<1>3. pool' \subseteq Blocks
    BY DEF ShrinkCopy, TypeOK
<1>4. fbmeta' \in [Fbs -> FileBlockMeta]
    <2>1. CASE UNCHANGED fbmeta
        BY <2>1 DEF TypeOK
    <2>2. ASSUME NEW id \in pool,
                 fbmeta' = [fbmeta EXCEPT ![b].ids = IF Full(b) THEN @ ELSE Append(@, id)]
          PROVE  fbmeta' \in [Fbs -> FileBlockMeta]
        <3>1. fbmeta[b] \in FileBlockMeta /\ id \in Blocks
            BY <1>1 DEF TypeOK
        <3>2. fbmeta[b].ids \in Seq(Blocks)
            BY <3>1 DEF FileBlockMeta
        <3>3. (IF Full(b) THEN fbmeta[b].ids ELSE Append(fbmeta[b].ids, id)) \in Seq(Blocks)
            BY <3>1, <3>2
        <3>4. QED
            BY <1>1, <2>2, <3>3 DEF TypeOK, FileBlockMeta
    <2>3. QED
        BY <2>1, <2>2 DEF ShrinkCopy
<1>5. Moved(t, "shrink_detach", loc[t]) \/ Moved(t, "idle", NoLoc)
    BY ReturnMoved DEF ShrinkCopy, Goto, Moved, TypeOK
<1>6. ThreadsOK'
    BY <1>1, <1>5, MovedType, IdleFits, FreshTypes DEF Pcs
<1>7. QED
    BY <1>2, <1>3, <1>4, <1>6 DEF ShrinkCopy, TypeOK, ThreadsOK, disk

\* The exchange of the two files under the name.
LEMMA ShrinkDetachType ==
    ASSUME TypeOK, LocalsSet, NEW t \in Threads, ShrinkDetach(t)
    PROVE  TypeOK' /\ LocalsSet'
<1>1. loc[t] \in Loc /\ loc[t].fh \in Fhs /\ loc[t].new \in Fhs /\ Fit("shrink_attach", loc[t])
    BY DEF ShrinkDetach, At, LocalsSet, TypeOK, Fit
<1>2. fmeta' \in [Fhs -> FileMeta]
    BY <1>1, ChildSetType DEF ShrinkDetach
<1>3. Moved(t, "shrink_attach", loc[t])
    BY DEF ShrinkDetach, Goto, Moved, TypeOK
<1>4. ThreadsOK'
    BY <1>1, <1>3, MovedType DEF Pcs
<1>5. QED
    BY <1>2, <1>4 DEF ShrinkDetach, TypeOK, ThreadsOK, disk

\* The new file takes the name.
LEMMA ShrinkAttachType ==
    ASSUME TypeOK, LocalsSet, NEW t \in Threads, ShrinkAttach(t)
    PROVE  TypeOK' /\ LocalsSet'
<1>1. /\ loc[t] \in Loc /\ loc[t].new \in Fhs /\ loc[t].off \in Nat
      /\ loc[t].fb \in Fbs \cup {None} /\ Fit("shrink_write", loc[t])
    BY DEF ShrinkAttach, At, LocalsSet, TypeOK, Fit, Loc
<1>2. fmeta' \in [Fhs -> FileMeta]
    BY <1>1, SizeSetType DEF ShrinkAttach
<1>3. created_files' \in [Names -> Fhs \cup {None}] /\ item' \in [Fhs -> Fbs \cup {None}]
    BY <1>1 DEF ShrinkAttach, TypeOK
<1>4. Moved(t, "shrink_write", loc[t])
    BY DEF ShrinkAttach, Goto, Moved, TypeOK
<1>5. ThreadsOK'
    BY <1>1, <1>4, MovedType DEF Pcs
<1>6. QED
    BY <1>2, <1>3, <1>5 DEF ShrinkAttach, TypeOK, ThreadsOK, disk

\* The two halves of a WriteMeta without the mutex.
LEMMA UnguardedReadType ==
    ASSUME TypeOK, NEW t \in Threads, NEW f \in Fhs, NEW l \in Pcs, UnguardedRead(t, f),
           Goto(t, l), Fit(l, loc[t]), LocalsSet
    PROVE  fmeta' \in [Fhs -> FileMeta] /\ ThreadsOK'
<1> DEFINE p == [g \in Fhs |-> IF g \in PageOf(f) THEN Sealed(fmeta, f)[g] ELSE FreshFile]
           r == [loc[t] EXCEPT !.page = p]
<1>1. Sealed(fmeta, f) \in [Fhs -> FileMeta]
    BY SealedType DEF TypeOK
<1>2. p \in [Fhs -> FileMeta]
    BY <1>1, FreshTypes
<1>3. r \in Loc /\ Fit(l, r)
    BY <1>2 DEF TypeOK, Loc, Fit
<1>4. Moved(t, l, r)
    BY DEF UnguardedRead, Goto, Moved, TypeOK, Loc
<1>5. ThreadsOK'
    BY <1>3, <1>4, MovedType
<1>6. QED
    BY <1>1, <1>5 DEF UnguardedRead

\* The page that was read without the mutex lands.
LEMMA UnguardedLandType ==
    ASSUME TypeOK, NEW t \in Threads, NEW f \in Fhs, NEW good \in BOOLEAN,
           UnguardedLand(t, f, good)
    PROVE  disk_fmeta' \in [Fhs -> FileMeta] /\ failures' \in Nat
<1>1. loc[t].page \in [Fhs -> FileMeta]
    BY DEF TypeOK, Loc
<1>2. PageWritten(loc[t].page, f) \in [Fhs -> FileMeta]
    BY <1>1, PageWrittenType
<1>3. QED
    BY <1>2, DeviceWriteType DEF UnguardedLand, TypeOK

\* ShrinkFile from its page writes on.
LEMMA ShrinkWriteType ==
    ASSUME TypeOK, LocalsSet, NEW t \in Threads, ShrinkWrite(t)
    PROVE  TypeOK' /\ LocalsSet'
<1>1. loc[t].new \in Fhs /\ Fit("shrink_land", loc[t])
    BY DEF ShrinkWrite, At, LocalsSet, Fit
<1>2. fmeta' \in [Fhs -> FileMeta] /\ ThreadsOK'
    BY <1>1, UnguardedReadType DEF ShrinkWrite, Pcs
<1>3. QED
    BY <1>2 DEF ShrinkWrite, TypeOK, ThreadsOK, disk

\* The old meta is read without the mutex.
LEMMA ShrinkWriteOldType ==
    ASSUME TypeOK, LocalsSet, NEW t \in Threads, ShrinkWriteOld(t)
    PROVE  TypeOK' /\ LocalsSet'
<1>1. loc[t].fh \in Fhs /\ Fit("shrink_land_old", loc[t])
    BY DEF ShrinkWriteOld, At, LocalsSet, Fit
<1>2. fmeta' \in [Fhs -> FileMeta] /\ ThreadsOK'
    BY <1>1, UnguardedReadType DEF ShrinkWriteOld, Pcs
<1>3. QED
    BY <1>2 DEF ShrinkWriteOld, TypeOK, ThreadsOK, disk

\* The page of the new meta lands.
LEMMA ShrinkLandType ==
    ASSUME TypeOK, LocalsSet, NEW t \in Threads, NEW good \in BOOLEAN, ShrinkLand(t, good)
    PROVE  TypeOK' /\ LocalsSet'
<1> DEFINE l == IF loc[t].fb = None THEN "shrink_write_old" ELSE "shrink_write_fb"
           r == [loc[t] EXCEPT !.page = NoPage]
<1>1. loc[t] \in Loc /\ loc[t].new \in Fhs /\ Fit("shrink_land", loc[t])
    BY DEF ShrinkLand, At, LocalsSet, Fit, TypeOK
<1>2. disk_fmeta' \in [Fhs -> FileMeta] /\ failures' \in Nat
    BY <1>1, UnguardedLandType DEF ShrinkLand
<1>3. r \in Loc
    BY <1>1, FreshTypes DEF Loc
<1>4. Fit(l, r)
    BY <1>1 DEF Fit, Loc
<1>5. CASE good
    <2>1. Moved(t, l, r)
        BY <1>5 DEF ShrinkLand, Goto, Moved, TypeOK, Loc
    <2>2. ThreadsOK'
        BY <1>3, <1>4, <2>1, MovedType DEF Pcs
    <2>3. QED
        BY <1>2, <2>2 DEF ShrinkLand, TypeOK, ThreadsOK, memory
<1>6. CASE ~good
    <2>1. ThreadsOK'
        BY <1>6, ReturnMoved, MovedType, IdleFits, FreshTypes DEF ShrinkLand
    <2>2. QED
        BY <1>2, <2>1 DEF ShrinkLand, TypeOK, ThreadsOK, memory
<1>7. QED
    BY <1>5, <1>6

\* The page of the old meta lands.
LEMMA ShrinkLandOldType ==
    ASSUME TypeOK, LocalsSet, NEW t \in Threads, NEW good \in BOOLEAN, ShrinkLandOld(t, good)
    PROVE  TypeOK' /\ LocalsSet'
<1> DEFINE r == [loc[t] EXCEPT !.page = NoPage]
<1>1. loc[t] \in Loc /\ loc[t].fh \in Fhs /\ Fit("shrink_land_old", loc[t])
    BY DEF ShrinkLandOld, At, LocalsSet, Fit, TypeOK
<1>2. disk_fmeta' \in [Fhs -> FileMeta] /\ failures' \in Nat
    BY <1>1, UnguardedLandType DEF ShrinkLandOld
<1>3. r \in Loc /\ Fit("recycle_blocks", r)
    BY <1>1, FreshTypes DEF Loc, Fit
<1>4. CASE good
    <2>1. Moved(t, "recycle_blocks", r)
        BY <1>4 DEF ShrinkLandOld, Goto, Moved, TypeOK, Loc
    <2>2. ThreadsOK'
        BY <1>3, <2>1, MovedType DEF Pcs
    <2>3. QED
        BY <1>2, <2>2 DEF ShrinkLandOld, TypeOK, ThreadsOK, memory
<1>5. CASE ~good
    <2>1. ThreadsOK'
        BY <1>5, ReturnMoved, MovedType, IdleFits, FreshTypes DEF ShrinkLandOld
    <2>2. QED
        BY <1>2, <2>1 DEF ShrinkLandOld, TypeOK, ThreadsOK, memory
<1>6. QED
    BY <1>4, <1>5

\* ShrinkFile persists the new FileBlock.
LEMMA ShrinkWriteFbType ==
    ASSUME TypeOK, LocalsSet, NEW t \in Threads, NEW good \in BOOLEAN, ShrinkWriteFb(t, good)
    PROVE  TypeOK' /\ LocalsSet'
<1>1. loc[t] \in Loc /\ loc[t].fb \in Fbs /\ Fit("shrink_write_old", loc[t])
    BY DEF ShrinkWriteFb, At, LocalsSet, Fit, TypeOK
<1>2. /\ fbmeta' \in [Fbs -> FileBlockMeta]
      /\ disk_fbmeta' \in [Fbs -> FileBlockMeta]
      /\ failures' \in Nat
    BY <1>1, WriteFbMetaType DEF ShrinkWriteFb, TypeOK
<1>3. Moved(t, "shrink_write_old", loc[t]) \/ Moved(t, "idle", NoLoc)
    BY ReturnMoved DEF ShrinkWriteFb, Goto, Moved, TypeOK
<1>4. ThreadsOK'
    BY <1>1, <1>3, MovedType, IdleFits, FreshTypes DEF Pcs
<1>5. QED
    BY <1>2, <1>4 DEF ShrinkWriteFb, TypeOK, ThreadsOK

\* RemoveParentFile and ParentFile::Recycle.
LEMMA RecycleBlocksType ==
    ASSUME TypeOK, LocalsSet, NEW t \in Threads, RecycleBlocks(t)
    PROVE  TypeOK' /\ LocalsSet'
<1> DEFINE old == item[loc[t].fh]
           r == [loc[t] EXCEPT !.fb = old]
           l == IF old = None THEN "recycle_meta" ELSE "recycle_fb"
<1>1. loc[t] \in Loc /\ Fit("recycle_blocks", loc[t])
    BY DEF RecycleBlocks, At, LocalsSet, TypeOK
<1>2. loc[t].fh \in Fhs /\ old \in Fbs \cup {None}
    BY <1>1 DEF Fit, TypeOK
<1>3. pool' \subseteq Blocks
    <2>1. CASE old = None
        BY <2>1 DEF RecycleBlocks, TypeOK
    <2>2. CASE old # None
        <3>1. fbmeta[old].ids \in Seq(Blocks)
            BY <1>2, <2>2 DEF TypeOK, FileBlockMeta
        <3>2. Uninherited(old, KeptBlocks(loc[t].off)) \subseteq Blocks
            BY <3>1 DEF Uninherited
        <3>3. pool' = pool \cup Uninherited(old, KeptBlocks(loc[t].off))
            BY <2>2 DEF RecycleBlocks
        <3>4. QED
            BY <3>2, <3>3 DEF TypeOK
    <2>3. QED
        BY <2>1, <2>2
<1>4. r \in Loc /\ Fit(l, r)
    BY <1>1, <1>2 DEF Loc, Fit
<1>5. Moved(t, l, r)
    BY DEF RecycleBlocks, Goto, Moved, TypeOK, Loc
<1>6. ThreadsOK'
    BY <1>4, <1>5, MovedType DEF Pcs
<1>7. QED
    BY <1>3, <1>6 DEF RecycleBlocks, TypeOK, ThreadsOK, disk

\* Recycle releases the parent's FileBlock.
LEMMA RecycleFbType ==
    ASSUME TypeOK, LocalsSet, NEW t \in Threads, NEW good \in BOOLEAN, RecycleFb(t, good)
    PROVE  TypeOK' /\ LocalsSet'
<1> DEFINE b == loc[t].fb
           r == [loc[t] EXCEPT !.fb = None]
<1>1. loc[t] \in Loc /\ Fit("recycle_fb", loc[t])
    BY DEF RecycleFb, At, LocalsSet, TypeOK
<1>2. loc[t].fh \in Fhs /\ b \in Fbs
    BY <1>1 DEF Fit
<1>3. [fbmeta EXCEPT ![b] = FreshFb] \in [Fbs -> FileBlockMeta]
    BY FreshTypes DEF TypeOK
<1>4. /\ fbmeta' \in [Fbs -> FileBlockMeta]
      /\ disk_fbmeta' \in [Fbs -> FileBlockMeta]
      /\ failures' \in Nat
    BY <1>2, <1>3, WriteFbMetaType DEF RecycleFb
<1>5. item' \in [Fhs -> Fbs \cup {None}] /\ free_fbhs' \in Seq(Fbs)
    <2>1. /\ free_fbhs' = IF good THEN Append(free_fbhs, b) ELSE free_fbhs
          /\ item' = [item EXCEPT ![loc[t].fh] = None]
        BY DEF RecycleFb
    <2>2. QED
        BY <1>2, <2>1 DEF TypeOK
<1>6. r \in Loc /\ Fit("recycle_meta", r)
    BY <1>1 DEF Loc, Fit
<1>7. Moved(t, "recycle_meta", r)
    BY DEF RecycleFb, Goto, Moved, TypeOK, Loc
<1>8. ThreadsOK'
    BY <1>6, <1>7, MovedType DEF Pcs
<1>9. QED
    BY <1>4, <1>5, <1>8 DEF RecycleFb, TypeOK, ThreadsOK

\* Recycle clears the old meta and gives its handle back.
LEMMA RecycleMetaType ==
    ASSUME TypeOK, LocalsSet, NEW t \in Threads, NEW good \in BOOLEAN, RecycleMeta(t, good)
    PROVE  TypeOK' /\ LocalsSet'
<1> DEFINE f == loc[t].fh
           r == [loc[t] EXCEPT !.fh = None]
<1>1. loc[t] \in Loc /\ Fit("recycle_meta", loc[t]) /\ f \in Fhs
    BY DEF RecycleMeta, At, LocalsSet, TypeOK, Fit
<1>2. fmeta' \in [Fhs -> FileMeta] /\ disk_fmeta' \in [Fhs -> FileMeta] /\ failures' \in Nat
    BY <1>1, ClearMetaType, WriteMetaType DEF RecycleMeta
<1>3. r \in Loc /\ Fit("recycle_child", r)
    BY <1>1 DEF Loc, Fit
<1>4. CASE good
    <2>1. free_fhs' = Append(free_fhs, f)
        BY <1>4 DEF RecycleMeta, Recycled
    <2>2. free_fhs' \in Seq(Fhs)
        BY <1>1, <2>1 DEF TypeOK
    <2>3. Moved(t, "recycle_child", r)
        BY <1>4 DEF RecycleMeta, Goto, Moved, TypeOK, Loc
    <2>4. ThreadsOK'
        BY <1>3, <2>3, MovedType DEF Pcs
    <2>5. QED
        BY <1>2, <2>2, <2>4 DEF RecycleMeta, ReleaseMutex, TypeOK, ThreadsOK
<1>5. CASE ~good
    <2>1. ThreadsOK'
        BY <1>5, ReturnMoved, MovedType, IdleFits, FreshTypes DEF RecycleMeta
    <2>2. QED
        BY <1>2, <1>5, <2>1 DEF RecycleMeta, ReleaseMutex, TypeOK, ThreadsOK
<1>6. QED
    BY <1>4, <1>5

\* The end of RecycleParentFh.
LEMMA RecycleChildType ==
    ASSUME TypeOK, LocalsSet, NEW t \in Threads, NEW good \in BOOLEAN, RecycleChild(t, good)
    PROVE  TypeOK' /\ LocalsSet'
<1>1. loc[t].new \in Fhs
    BY DEF RecycleChild, At, LocalsSet, Fit
<1>2. fmeta' \in [Fhs -> FileMeta] /\ disk_fmeta' \in [Fhs -> FileMeta] /\ failures' \in Nat
    BY <1>1, WriteMetaType DEF RecycleChild, TypeOK
<1>3. ThreadsOK'
    BY ReturnMoved, MovedType, IdleFits, FreshTypes DEF RecycleChild
<1>4. QED
    BY <1>2, <1>3 DEF RecycleChild, TypeOK, ThreadsOK

\* A mount loads tables, lists and maps that have their types.
LEMMA MountType ==
    ASSUME TypeOK, LocalsSet, Mount
    PROVE  TypeOK' /\ LocalsSet'
<1>1. free_fhs' \in Seq(Fhs)
    <2>1. Fhs \ UsedFhs \in SUBSET Fhs /\ Fhs \in SUBSET Nat
        BY StoreAssumption DEF Fhs
    <2>2. free_fhs' \in [1 .. Cardinality(Fhs \ UsedFhs) -> Fhs]
        BY <2>1 DEF Mount, Ascending
    <2>3. QED
        BY <2>1, <2>2, FbSeq, HandlesFinite
<1>2. free_fbhs' \in Seq(Fbs)
    <2>1. Fbs \ UsedFbs \in SUBSET Fbs
        OBVIOUS
    <2>2. free_fbhs' \in [1 .. Cardinality(Fbs \ UsedFbs) -> Fbs]
        BY <2>1 DEF Mount, Ascending
    <2>3. QED
        BY <2>1, <2>2, FbSeq, HandlesFinite
<1>3. created_files' \in [Names -> Fhs \cup {None}]
    <2>1. \A n \in Names : LoadedFile(n) \in Fhs \cup {None}
        BY LastFirstType DEF LoadedFile, NamedFhs, UsedFhs
    <2>2. QED
        BY <2>1 DEF Mount
<1>4. item' \in [Fhs -> Fbs \cup {None}]
    <2>1. \A f \in Fhs : LoadedFb(f) \in Fbs \cup {None}
        BY LastFirstType DEF LoadedFb, UsedFbs
    <2>2. QED
        BY <2>1 DEF Mount
<1>5. LocalsSet'
    BY DEF Mount, LocalsSet
<1>6. QED
    BY <1>1, <1>2, <1>3, <1>4, <1>5 DEF Mount, TypeOK, disk

\* So does the end of the process.
LEMMA ProcessEndsType ==
    ASSUME TypeOK, ProcessEnds, UNCHANGED <<disk, failures>>, crashes' \in Nat
    PROVE  TypeOK' /\ LocalsSet'
<1>1. LocalsSet'
    BY IdleFits DEF ProcessEnds, LocalsSet
<1>2. QED
    BY <1>1, FreshTypes, IdleFits DEF ProcessEnds, TypeOK, disk

\* Every step of a thread within an operation ...
LEMMA ContinueType ==
    ASSUME TypeOK, LocalsSet, NEW t \in Threads, Continue(t)
    PROVE  TypeOK' /\ LocalsSet'
<1>1. ASSUME ShrinkFault(t) PROVE TypeOK' /\ LocalsSet'
    BY <1>1, ProcessEndsType DEF ShrinkFault, TypeOK
<1>2. ASSUME NEW good \in BOOLEAN,
             \/ CreateWrite(t, good) \/ ExtendFb(t, good) \/ ExtendSize(t, good)
             \/ UnlinkFb(t, good) \/ UnlinkMeta(t, good)
      PROVE  TypeOK' /\ LocalsSet'
    BY <1>2, CreateWriteType, ExtendFbType, ExtendSizeType, UnlinkFbType, UnlinkMetaType
<1>3. ASSUME NEW good \in BOOLEAN,
             \/ ShrinkCopy(t, good) \/ ShrinkLand(t, good)
             \/ ShrinkWriteFb(t, good) \/ ShrinkLandOld(t, good)
             \/ RecycleFb(t, good) \/ RecycleMeta(t, good) \/ RecycleChild(t, good)
      PROVE  TypeOK' /\ LocalsSet'
    BY <1>3, ShrinkCopyType, ShrinkLandType, ShrinkWriteFbType, ShrinkLandOldType,
       RecycleFbType, RecycleMetaType, RecycleChildType
<1>4. QED
    BY <1>1, <1>2, <1>3, CreateAddType, ExtendBlocksType, UnlinkNamesType, ShrinkFbType,
       ShrinkDetachType, ShrinkAttachType, ShrinkWriteType, ShrinkWriteOldType,
       RecycleBlocksType DEF Continue

\* ... every first step of one ...
LEMMA BeginType ==
    ASSUME TypeOK, LocalsSet, NEW t \in Threads, Begin(t)
    PROVE  TypeOK' /\ LocalsSet'
BY CreateNewType, UnlinkStartType, ExtendStartType, ShrinkStartType, RenameFileType DEF Begin

\* ... and every step of the system keeps the types.
LEMMA NextType ==
    ASSUME TypeOK, LocalsSet, [Next]_vars
    PROVE  TypeOK' /\ LocalsSet'
<1>1. CASE Mount
    BY <1>1, MountType
<1>2. CASE Crash
    BY <1>2, ProcessEndsType DEF Crash, TypeOK
<1>3. ASSUME NEW t \in Threads, Begin(t) \/ Continue(t)
      PROVE  TypeOK' /\ LocalsSet'
    BY <1>3, BeginType, ContinueType
<1>4. CASE UNCHANGED vars
    BY <1>4 DEF vars, memory, disk, TypeOK, LocalsSet
<1>5. QED
    BY <1>1, <1>2, <1>3, <1>4 DEF Next

\* Every variable of the metadata engine keeps its type whatever the threads
\* do, with any number of crashes, remounts and failed writes: no handle, size
\* or block id that the code stores, on the device or in memory, is outside
\* its table, and no thread uses a handle it has not got.
THEOREM TypeCorrect == Spec => [](TypeOK /\ LocalsSet)
<1>1. Init => TypeOK /\ LocalsSet
    BY InitType
<1>2. TypeOK /\ LocalsSet /\ [Next]_vars => (TypeOK /\ LocalsSet)'
    BY NextType
<1>3. QED
    BY <1>1, <1>2, PTL DEF Spec
=============================================================================
