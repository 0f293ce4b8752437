---------------------------- MODULE CrashProofs ----------------------------
(***************************************************************************)
(* What the metadata writes leave on the device, for every value of the    *)
(* constants but without ftruncate to a smaller size, whose device states  *)
(* a mount may refuse (BlocksClaimedOnce): what an operation that returned *)
(* has done is on the device, the device can be mounted at any moment, an  *)
(* operation is done or not done, and nothing is lost on the way.          *)
(***************************************************************************)
EXTENDS FileBlockProofs

\* No client shrinks a file.
NoShrink == "shrink" \notin Ops

\* One client at a time.
OneThread == \A t, u \in Threads : t = u

\* No two threads ever write a page of FileMetas in common.
PagesApart == OneThread \/ FilesPerPage = 1

\* No truncate asks for more than one FileBlock can hold.
OffsetsFit == \A off \in Offsets : off <= BlockSize * Capacity

-----------------------------------------------------------------------------
(* The steps of a system without shrink *)

ExtendPcs == {"extend_blocks", "extend_fb", "extend_size"}
UnlinkPcs == {"unlink_fb", "unlink_meta", "unlink_names"}
Creating == {"create_write", "create_add"}

\* No thread is within ShrinkFile or Recycle; an extend is to a size some client asked for.
PlainAt(l, r) ==
    /\ l \in {"idle"} \cup Creating \cup ExtendPcs \cup UnlinkPcs
    /\ r.new = None
    /\ l \in ExtendPcs => r.off \in Offsets
Plain == \A t \in Threads : PlainAt(pc[t], loc[t])

\* The steps of thread t, all their device writes succeeding.
Acts(t) ==
    \/ \E n \in Names : CreateNew(t, n)
    \/ CreateWrite(t, TRUE) \/ CreateAdd(t)
    \/ \E n \in Names, off \in Offsets : ExtendStart(t, n, off)
    \/ ExtendBlocks(t) \/ ExtendFb(t, TRUE) \/ ExtendSize(t, TRUE)
    \/ \E n \in Names : UnlinkStart(t, n)
    \/ UnlinkFb(t, TRUE) \/ UnlinkMeta(t, TRUE) \/ UnlinkNames(t)
    \/ \E n, m \in Names : RenameFile(t, n, m, TRUE)

\* One thread's move keeps every thread where it may be.
LEMMA PlainMoved ==
    ASSUME TypeOK, Plain, NEW t \in Threads, NEW l, NEW r, Moved(t, l, r), PlainAt(l, r)
    PROVE  Plain'
<1>1. SUFFICES ASSUME NEW u \in Threads PROVE PlainAt(pc'[u], loc'[u]) BY DEF Plain, PlainAt
<1>2. CASE u = t BY <1>2, OthersKept
<1>3. CASE u # t BY <1>3, OthersKept DEF Plain
<1> QED BY <1>2, <1>3

\* Where a thread stands that has returned.
LEMMA PlainIdle == PlainAt("idle", NoLoc)
BY DEF PlainAt, NoLoc, ExtendPcs

\* The steps that begin an operation other than a shrink.
LEMMA PlainBegin ==
    ASSUME NoShrink, TypeOK, HandlesOwned, Plain, NEW t \in Threads, Begin(t)
    PROVE  Plain'
<1>1. PICK c : c = loc[t] OBVIOUS
<1>2. c \in Loc BY <1>1 DEF TypeOK
<1>3. ASSUME NEW n \in Names, CreateNew(t, n) PROVE Plain'
  <2>1. PICK r : r = [c EXCEPT !.name = n, !.fh = Head(free_fhs)] OBVIOUS
  <2>2. Moved(t, "create_write", r) BY <1>1, <1>2, <1>3, <2>1 DEF CreateNew, Goto, Moved, TypeOK, Loc
  <2>3. PlainAt("create_write", r)
    BY <1>1, <1>2, <2>1 DEF PlainAt, Plain, Creating, ExtendPcs, Loc
  <2> QED BY <2>2, <2>3, PlainMoved
<1>4. ASSUME NEW n \in Names, UnlinkStart(t, n) PROVE Plain'
  <2>1. PICK r : r = [c EXCEPT !.name = n, !.fh = created_files[n], !.fb = item[created_files[n]]]
    OBVIOUS
  <2>2. PICK l \in {"unlink_meta", "unlink_fb"} : Moved(t, l, r)
    BY <1>1, <1>2, <1>4, <2>1 DEF UnlinkStart, Goto, Moved, TypeOK, Loc
  <2>3. PlainAt(l, r)
    BY <1>1, <1>2, <2>1 DEF PlainAt, Plain, UnlinkPcs, ExtendPcs, Loc
  <2> QED BY <2>2, <2>3, PlainMoved
<1>5. ASSUME NEW n \in Names, NEW off \in Offsets, ExtendStart(t, n, off) PROVE Plain'
  <2>1. PICK b, x : Moved(t, "extend_blocks", [c EXCEPT !.name = n, !.fh = created_files[n],
                                                       !.off = off, !.fb = b, !.new_fb = x])
    <3>1. CASE loc' = [loc EXCEPT ![t].name = n, ![t].fh = created_files[n], ![t].off = off,
                                  ![t].fb = Head(free_fbhs), ![t].new_fb = TRUE]
      <4>1. Moved(t, "extend_blocks", [c EXCEPT !.name = n, !.fh = created_files[n],
                                       !.off = off, !.fb = Head(free_fbhs), !.new_fb = TRUE])
        BY <1>1, <1>2, <1>5, <3>1 DEF ExtendStart, Goto, Moved, TypeOK, Loc
      <4> QED BY <4>1
    <3>2. CASE loc' = [loc EXCEPT ![t].name = n, ![t].fh = created_files[n], ![t].off = off,
                                  ![t].fb = item[created_files[n]]]
      <4>1. [c EXCEPT !.name = n, !.fh = created_files[n], !.off = off,
                      !.fb = item[created_files[n]]] =
            [c EXCEPT !.name = n, !.fh = created_files[n], !.off = off,
                      !.fb = item[created_files[n]], !.new_fb = c.new_fb]
        BY <1>2 DEF Loc
      <4>2. Moved(t, "extend_blocks", [c EXCEPT !.name = n, !.fh = created_files[n],
                                       !.off = off, !.fb = item[created_files[n]]])
        BY <1>1, <1>2, <1>5, <3>2 DEF ExtendStart, Goto, Moved, TypeOK, Loc
      <4> QED BY <4>1, <4>2
    <3> QED BY <1>5, <3>1, <3>2 DEF ExtendStart
  <2>2. PICK r : r = [c EXCEPT !.name = n, !.fh = created_files[n],
                               !.off = off, !.fb = b, !.new_fb = x] OBVIOUS
  <2>3. PlainAt("extend_blocks", r)
    BY <1>1, <1>2, <2>2 DEF PlainAt, Plain, ExtendPcs, Loc
  <2> QED BY <2>1, <2>2, <2>3, PlainMoved
<1>6. ASSUME NEW n \in Names, NEW m \in Names, NEW good \in BOOLEAN, RenameFile(t, n, m, good)
      PROVE  Plain'
  BY <1>6 DEF RenameFile, Plain, PlainAt
<1>7. ASSUME NEW n \in Names, NEW off \in Offsets, ShrinkStart(t, n, off) PROVE FALSE
  BY <1>7 DEF ShrinkStart, Start, NoShrink
<1> QED BY <1>3, <1>4, <1>5, <1>6, <1>7 DEF Begin

\* The steps within an operation other than a shrink.
LEMMA PlainContinue ==
    ASSUME TypeOK, Plain, NEW t \in Threads, Continue(t)
    PROVE  Plain'
<1>1. PICK c : c = loc[t] OBVIOUS
<1>2. c \in Loc /\ PlainAt(pc[t], c) BY <1>1 DEF TypeOK, Plain
<1>3. CASE Return(t) BY <1>3, ReturnMoved, PlainIdle, PlainMoved
<1>4. ASSUME NEW l \in Creating \cup UnlinkPcs, Goto(t, l), UNCHANGED loc PROVE Plain'
  <2>1. Moved(t, l, c) BY <1>1, <1>4 DEF Goto, Moved, TypeOK
  <2>2. PlainAt(l, c) BY <1>2, <1>4 DEF PlainAt, ExtendPcs, Creating, UnlinkPcs
  <2> QED BY <2>1, <2>2, PlainMoved
<1>5. ASSUME NEW l \in ExtendPcs, Goto(t, l), UNCHANGED loc, pc[t] \in ExtendPcs PROVE Plain'
  <2>1. Moved(t, l, c) BY <1>1, <1>5 DEF Goto, Moved, TypeOK
  <2>2. PlainAt(l, c) BY <1>2, <1>5 DEF PlainAt
  <2> QED BY <2>1, <2>2, PlainMoved
<1>6. ASSUME ExtendBlocks(t) PROVE Plain'
  <2>1. ASSUME NEW s, loc' = [loc EXCEPT ![t].ids = s], NEW l \in ExtendPcs, Goto(t, l)
        PROVE  Plain'
    <3>1. PICK r : r = [c EXCEPT !.ids = s] OBVIOUS
    <3>2. Moved(t, l, r) BY <1>1, <1>2, <2>1, <3>1 DEF Goto, Moved, TypeOK, Loc
    <3>3. PlainAt(l, r)
      BY <1>2, <1>6, <2>1, <3>1 DEF PlainAt, ExtendBlocks, At, ExtendPcs, Loc
    <3> QED BY <3>2, <3>3, PlainMoved
  <2> QED BY <1>3, <1>6, <2>1 DEF ExtendBlocks, ExtendPcs
<1>7. ASSUME NEW good \in BOOLEAN, UnlinkFb(t, good) PROVE Plain'
  <2>1. CASE Goto(t, "unlink_meta") /\ loc' = [loc EXCEPT ![t].fb = None]
    <3>1. PICK r : r = [c EXCEPT !.fb = None] OBVIOUS
    <3>2. Moved(t, "unlink_meta", r) BY <1>1, <1>2, <2>1, <3>1 DEF Goto, Moved, TypeOK, Loc
    <3>3. PlainAt("unlink_meta", r)
      BY <1>2, <3>1 DEF PlainAt, ExtendPcs, UnlinkPcs, Loc
    <3> QED BY <3>2, <3>3, PlainMoved
  <2> QED BY <1>3, <1>7, <2>1 DEF UnlinkFb
<1>8. ASSUME NEW good \in BOOLEAN,
             \/ CreateAdd(t) \/ UnlinkNames(t) \/ CreateWrite(t, good)
             \/ ExtendSize(t, good) \/ UnlinkMeta(t, good)
      PROVE  Plain'
  BY <1>3, <1>4, <1>8 DEF CreateAdd, UnlinkNames, CreateWrite, ExtendSize, UnlinkMeta,
                          Creating, UnlinkPcs
<1>9. ASSUME NEW good \in BOOLEAN, ExtendFb(t, good) PROVE Plain'
  <2>1. pc[t] \in ExtendPcs /\ "extend_size" \in ExtendPcs BY <1>9 DEF ExtendFb, At, ExtendPcs
  <2> QED BY <1>3, <1>5, <1>9, <2>1 DEF ExtendFb
<1>10. \/ CreateAdd(t) \/ UnlinkNames(t) \/ ExtendBlocks(t)
       \/ \E good \in BOOLEAN : \/ CreateWrite(t, good) \/ ExtendSize(t, good)
                                \/ UnlinkMeta(t, good) \/ UnlinkFb(t, good)
                                \/ ExtendFb(t, good)
  BY <1>1, <1>2 DEF Continue, At, PlainAt, Creating, ExtendPcs, UnlinkPcs, ShrinkFb, ShrinkFault,
     ShrinkDetach, ShrinkAttach, ShrinkWrite, ShrinkWriteOld, RecycleBlocks, ShrinkCopy,
     ShrinkLand, ShrinkWriteFb, ShrinkLandOld, RecycleFb, RecycleMeta, RecycleChild
<1> QED BY <1>6, <1>7, <1>8, <1>9, <1>10

\* Without shrink no thread ever is within one.
LEMMA PlainInvariant == ASSUME NoShrink PROVE Spec => []Plain
<1>1. Init => Plain BY DEF Init, Plain, PlainAt, NoLoc, ExtendPcs
<1>2. HandlesKnown /\ Plain /\ [Next]_vars => Plain'
  <2> SUFFICES ASSUME HandlesKnown, Plain, [Next]_vars PROVE Plain' OBVIOUS
  <2>1. TypeOK /\ HandlesOwned BY DEF HandlesKnown
  <2>2. CASE Mount BY <2>2 DEF Mount, Plain, PlainAt
  <2>3. CASE Crash BY <2>3, PlainIdle DEF Crash, ProcessEnds, Plain, PlainAt
  <2>4. CASE UNCHANGED vars BY <2>4 DEF vars, Plain, PlainAt
  <2> QED BY <2>1, <2>2, <2>3, <2>4, PlainBegin, PlainContinue DEF Next
<1> QED BY <1>1, <1>2, HandlesInvariant, PTL DEF Spec

\* What is left of Next then, as long as no device write has failed.
LEMMA PlainNext ==
    ASSUME NoShrink, TypeOK, Plain, [Next]_vars, failures' = 0
    PROVE  /\ failures = 0
           /\ Mount \/ Crash \/ UNCHANGED vars \/ \E t \in Threads : Acts(t)
<1>1. CASE Mount \/ Crash \/ UNCHANGED vars BY <1>1 DEF Mount, Crash, vars
<1>2. ASSUME NEW t \in Threads, Begin(t) PROVE failures = 0 /\ Acts(t)
  <2>1. ASSUME NEW n \in Names, CreateNew(t, n) \/ UnlinkStart(t, n) PROVE failures = 0 /\ Acts(t)
    BY <2>1 DEF CreateNew, UnlinkStart, Acts
  <2>2. ASSUME NEW n \in Names, NEW off \in Offsets, ExtendStart(t, n, off)
        PROVE  failures = 0 /\ Acts(t)
    BY <2>2 DEF ExtendStart, Acts
  <2>3. ASSUME NEW n \in Names, NEW off \in Offsets, ShrinkStart(t, n, off) PROVE FALSE
    BY <2>3 DEF ShrinkStart, Start, NoShrink
  <2>4. ASSUME NEW n \in Names, NEW m \in Names, NEW good \in BOOLEAN, RenameFile(t, n, m, good)
        PROVE  failures = 0 /\ Acts(t)
    <3>1. good = TRUE /\ failures = 0 BY <2>4, GoodWrite DEF RenameFile, WriteMeta
    <3> QED BY <2>4, <3>1 DEF Acts
  <2> QED BY <1>2, <2>1, <2>2, <2>3, <2>4 DEF Begin
<1>3. ASSUME NEW t \in Threads, Continue(t) PROVE failures = 0 /\ Acts(t)
  <2>1. PlainAt(pc[t], loc[t]) BY DEF Plain
  <2>2. \/ CreateAdd(t) \/ UnlinkNames(t) \/ ExtendBlocks(t)
        \/ \E good \in BOOLEAN : \/ CreateWrite(t, good) \/ ExtendSize(t, good)
                                 \/ UnlinkMeta(t, good) \/ UnlinkFb(t, good)
                                 \/ ExtendFb(t, good)
    BY <1>3, <2>1 DEF Continue, At, PlainAt, Creating, ExtendPcs, UnlinkPcs, ShrinkFb, ShrinkFault,
       ShrinkDetach, ShrinkAttach, ShrinkWrite, ShrinkWriteOld, RecycleBlocks, ShrinkCopy,
       ShrinkLand, ShrinkWriteFb, ShrinkLandOld, RecycleFb, RecycleMeta, RecycleChild
  <2>3. CASE CreateAdd(t) \/ UnlinkNames(t) \/ ExtendBlocks(t)
    BY <2>3 DEF CreateAdd, UnlinkNames, ExtendBlocks, Acts
  <2>4. ASSUME NEW good \in BOOLEAN,
               \/ CreateWrite(t, good) \/ ExtendSize(t, good)
               \/ UnlinkMeta(t, good) \/ UnlinkFb(t, good) \/ ExtendFb(t, good)
        PROVE  failures = 0 /\ Acts(t)
    <3>1. DeviceWrite(good) \/ (good /\ UNCHANGED failures)
      BY <2>4 DEF CreateWrite, ExtendSize, UnlinkMeta, UnlinkFb, ExtendFb, WriteMeta, WriteFbMeta
    <3>2. good = TRUE /\ failures = 0 BY <3>1, GoodWrite
    <3> QED BY <2>4, <3>2 DEF Acts
  <2> QED BY <2>2, <2>3, <2>4
<1> QED BY <1>1, <1>2, <1>3 DEF Next

-----------------------------------------------------------------------------
(* The FileMetas on the device and the names *)

\* f is being created; its meta has not been written by its creator.
Makes(f) == \E t \in Threads : pc[t] \in Creating /\ loc[t].fh = f
Unwritten(f) == \E t \in Threads : pc[t] = "create_write" /\ loc[t].fh = f

\* Without shrink no meta has a child.
NoChildren == \A f \in Fhs : fmeta[f].child = None /\ disk_fmeta[f].child = None

\* A meta is on the device as in memory but for the create that is about to write it, which
\* a neighbour's page write may have anticipated.
MetasWritten ==
    \A f \in Fhs : disk_fmeta[f] = fmeta[f] \/ (Unwritten(f) /\ ~disk_fmeta[f].used)

\* created_files_ and the metas agree on the names; a used meta has its name there or is
\* being created.
NamesAt(l, r) ==
    /\ l \in Creating => /\ fmeta[r.fh].name = r.name /\ fmeta[r.fh].size = 0
                         /\ created_files[r.name] = None
    /\ l \in ExtendPcs \cup UnlinkPcs => created_files[r.name] = r.fh
    /\ l = "unlink_names" => ~fmeta[r.fh].used
NamesKnown ==
    /\ \A n \in Names : created_files[n] # None => fmeta[created_files[n]].name = n
    /\ \A f \in Fhs : fmeta[f].used => Makes(f) \/ \E n \in Names : created_files[n] = f
    /\ \A t \in Threads : NamesAt(pc[t], loc[t])

\* No name is on the device twice.
DiskNamed ==
    \A f \in UsedFhs :
        /\ disk_fmeta[f].name \in Names
        /\ \A g \in UsedFhs : disk_fmeta[f].name = disk_fmeta[g].name => f = g

Synced ==
    /\ NoChildren
    /\ status = "up" => MetasWritten /\ NamesKnown
    /\ status = "down" => DiskNamed

\* A step of thread t on file f keeps what other files and threads have.
LEMMA SyncStep ==
    ASSUME HandlesKnown, Synced, status = "up", status' = "up",
           NEW t \in Threads, NEW l, NEW r, Moved(t, l, r), NEW f \in Fhs,
           \A g \in Fhs : g # f => /\ fmeta'[g] = fmeta[g]
                                   /\ disk_fmeta'[g] \in {disk_fmeta[g], fmeta[g]},
           \A u \in Threads : u # t => loc[u].fh # f,
           pc[t] = "idle" \/ loc[t].fh = f,
           \/ disk_fmeta'[f] = fmeta'[f]
           \/ l = "create_write" /\ r.fh = f /\ ~disk_fmeta'[f].used,
           fmeta'[f].child = None, disk_fmeta'[f].child = None,
           \A n \in Names : \/ created_files'[n] = created_files[n] /\ created_files[n] # f
                            \/ created_files'[n] = None /\ created_files[n] \in {f, None}
                            \/ /\ created_files'[n] = f /\ created_files[n] \in {f, None}
                               /\ fmeta'[f].name = n,
           fmeta'[f].used => \/ l \in Creating /\ r.fh = f
                             \/ \E n \in Names : created_files'[n] = f,
           \A u \in Threads : u # t /\ pc[u] # "idle" =>
                created_files'[loc[u].name] = created_files[loc[u].name],
           NamesAt(l, r)'
    PROVE  Synced'
<1>1. TypeOK /\ LocalsSet BY DEF HandlesKnown
<1>2. /\ pc'[t] = l /\ loc'[t] = r
      /\ \A u \in Threads : u # t => pc'[u] = pc[u] /\ loc'[u] = loc[u]
  BY <1>1, OthersKept
<1>3. NoChildren /\ MetasWritten /\ NamesKnown BY DEF Synced
<1>4. NoChildren'
  <2> SUFFICES ASSUME NEW g \in Fhs PROVE fmeta'[g].child = None /\ disk_fmeta'[g].child = None
    BY DEF NoChildren
  <2>1. CASE g = f BY <2>1
  <2>2. CASE g # f BY <1>3, <2>2 DEF NoChildren
  <2> QED BY <2>1, <2>2
<1>5. \A g \in Fhs : g # f => (Makes(g) => Makes(g)') /\ (Unwritten(g) => Unwritten(g)')
  <2> SUFFICES ASSUME NEW g \in Fhs, g # f, NEW u \in Threads, pc[u] \in Creating, loc[u].fh = g
               PROVE  pc'[u] = pc[u] /\ loc'[u].fh = g
    BY DEF Makes, Unwritten, Creating
  <2>1. pc[u] # "idle" BY DEF Creating
  <2> QED BY <1>2, <2>1
<1>6. MetasWritten'
  <2> SUFFICES ASSUME NEW g \in Fhs
               PROVE  disk_fmeta'[g] = fmeta'[g] \/ (Unwritten(g)' /\ ~disk_fmeta'[g].used)
    BY DEF MetasWritten
  <2>1. CASE g = f BY <1>2, <2>1 DEF Unwritten
  <2>2. CASE g # f BY <1>3, <1>5, <2>2 DEF MetasWritten
  <2> QED BY <2>1, <2>2
<1>7. \A n \in Names : created_files'[n] # None => fmeta'[created_files'[n]].name = n
  <2> SUFFICES ASSUME NEW n \in Names, created_files'[n] # None
               PROVE  fmeta'[created_files'[n]].name = n OBVIOUS
  <2>1. CASE created_files'[n] = created_files[n] /\ created_files[n] # f
    <3>1. created_files[n] \in Fhs BY <1>1, <2>1 DEF TypeOK
    <3> QED BY <1>3, <2>1, <3>1 DEF NamesKnown
  <2> QED BY <2>1
<1>8. \A g \in Fhs : fmeta'[g].used => Makes(g)' \/ \E n \in Names : created_files'[n] = g
  <2> SUFFICES ASSUME NEW g \in Fhs, fmeta'[g].used
               PROVE  Makes(g)' \/ \E n \in Names : created_files'[n] = g OBVIOUS
  <2>1. CASE g = f BY <1>2, <2>1 DEF Makes
  <2>2. CASE g # f
    <3>1. CASE Makes(g) BY <1>5, <2>2, <3>1
    <3>2. ASSUME NEW n \in Names, created_files[n] = g PROVE created_files'[n] = g
      BY <2>2, <3>2, HandleNotNone
    <3> QED BY <1>3, <2>2, <3>1, <3>2 DEF NamesKnown
  <2> QED BY <2>1, <2>2
<1>9. ASSUME NEW u \in Threads PROVE NamesAt(pc[u], loc[u])'
  <2>1. CASE u = t BY <1>2, <2>1 DEF NamesAt
  <2>2. CASE u # t /\ pc[u] = "idle"
    BY <1>2, <2>2 DEF NamesAt, Creating, ExtendPcs, UnlinkPcs
  <2>3. CASE u # t /\ pc[u] # "idle"
    <3>1. PICK k, q : k = pc[u] /\ q = loc[u] OBVIOUS
    <3>2. k = pc'[u] /\ q = loc'[u] BY <1>2, <2>3, <3>1
    <3>3. q.fh # f /\ created_files'[q.name] = created_files[q.name] BY <2>3, <3>1
    <3>4. NamesAt(k, q) BY <1>3, <3>1 DEF NamesKnown
    <3>5. k \in Creating \cup {"unlink_names"} => q.fh \in Fhs
      BY <1>1, <3>1 DEF LocalsSet, Fit, Creating
    <3>6. k \in Creating \cup {"unlink_names"} => fmeta'[q.fh] = fmeta[q.fh] BY <3>3, <3>5
    <3> QED BY <3>2, <3>3, <3>4, <3>6 DEF NamesAt
  <2> QED BY <2>1, <2>2, <2>3
<1>10. NamesKnown' BY <1>7, <1>8, <1>9 DEF NamesKnown
<1> QED BY <1>4, <1>6, <1>10 DEF Synced

\* What a page write does to the two images of the table.
LEMMA Written ==
    ASSUME TypeOK, NEW fm \in [Fhs -> FileMeta], NEW f \in Fhs, WriteMeta(fm, f, TRUE)
    PROVE  /\ fmeta'[f] = [fm[f] EXCEPT !.ok = TRUE] /\ disk_fmeta'[f] = fmeta'[f]
           /\ \A g \in Fhs : g # f => fmeta'[g] = fm[g] /\ disk_fmeta'[g] \in {disk_fmeta[g], fm[g]}
           /\ \A g \in Fhs : g \notin PageOf(f) => disk_fmeta'[g] = disk_fmeta[g]
<1>1. fmeta' = Sealed(fm, f) /\ disk_fmeta' = PageWritten(Sealed(fm, f), f) BY DEF WriteMeta
<1>2. Sealed(fm, f)[f] = [fm[f] EXCEPT !.ok = TRUE]
  BY DEF Sealed, FileMeta
<1>3. \A g \in Fhs : g # f => Sealed(fm, f)[g] = fm[g] BY DEF Sealed
<1>4. f \in PageOf(f) BY DEF PageOf
<1> QED BY <1>1, <1>2, <1>3, <1>4 DEF PageWritten

\* The file and the name of a busy thread are no other thread's.
LEMMA Alone ==
    ASSUME HandlesKnown, NEW t \in Threads, pc[t] # "idle", Plain
    PROVE  /\ loc[t].fh \in Fhs /\ loc[t].name \in Names /\ loc[t] \in Loc
           /\ \A u \in Threads : u # t => loc[u].fh # loc[t].fh /\ loc[u].name # loc[t].name
           /\ \A n \in Names : created_files[n] = loc[t].fh => n = loc[t].name
           /\ status = "up"
<1>1. Fit(pc[t], loc[t]) /\ PlainAt(pc[t], loc[t]) /\ loc[t] \in Loc
  BY DEF HandlesKnown, TypeOK, LocalsSet, Plain
<1>2. loc[t].fh \in Fhs /\ loc[t].name \in Names
  BY <1>1 DEF Fit, PlainAt, Creating, ExtendPcs, UnlinkPcs
<1>3. loc[t].fh # None /\ loc[t].name # None BY <1>2, HandleNotNone, StoreAssumption
<1>4. \A u \in Threads : u # t => loc[u].fh # loc[t].fh /\ loc[u].name # loc[t].name
  BY <1>3 DEF HandlesKnown, HandlesOwned, HeldApart, Held
<1>5. \A n \in Names : created_files[n] = loc[t].fh => n = loc[t].name
  BY <1>3 DEF HandlesKnown, HandlesOwned, NamedOnce, Held
<1>6. status = "up"
  BY DEF HandlesKnown, TypeOK, HandlesOwned, IdleHoldsNothing
<1> QED BY <1>1, <1>2, <1>4, <1>5, <1>6

\* A meta that no thread is creating is on the device, and has a name if it is used.
LEMMA OnDevice ==
    ASSUME Synced, status = "up", NEW f \in Fhs,
           \A u \in Threads : pc[u] \in Creating => loc[u].fh # f
    PROVE  /\ disk_fmeta[f] = fmeta[f] /\ ~Makes(f)
           /\ fmeta[f].used => \E n \in Names : created_files[n] = f
<1>1. ~Makes(f) /\ ~Unwritten(f) BY DEF Makes, Unwritten, Creating
<1> QED BY <1>1 DEF Synced, MetasWritten, NamesKnown

\* CreateFile claims a meta.
LEMMA CreateNewSynced ==
    ASSUME HandlesKnown, Synced, Plain, NEW t \in Threads, NEW n \in Names, CreateNew(t, n)
    PROVE  Synced'
<1>1. PICK f : f = Head(free_fhs) OBVIOUS
<1>2. PICK r : r = [loc[t] EXCEPT !.name = n, !.fh = f] OBVIOUS
<1>3. TypeOK /\ HandlesOwned /\ free_fhs # <<>> BY DEF HandlesKnown, CreateNew
<1>4. /\ f \in Fhs /\ \A m \in Names : created_files[m] # f
      /\ \A u \in Threads : loc[u].fh # f
  BY <1>1, <1>3, HeadFree
<1>5. Moved(t, "create_write", r) /\ r.name = n /\ r.fh = f
  BY <1>1, <1>2, <1>3 DEF CreateNew, Goto, Moved, TypeOK, Loc
<1>6. status = "up" /\ status' = "up" /\ pc[t] = "idle" /\ created_files[n] = None
      /\ UNCHANGED <<disk_fmeta, created_files>> /\ Free(n)
      /\ ~fmeta[f].used /\ fmeta[f].size = 0
  BY <1>1 DEF CreateNew, Start, FreeMetaValid, disk
<1>7. disk_fmeta[f] = fmeta[f] BY <1>4, <1>6, OnDevice
<1>8. /\ fmeta'[f] = ClaimedMeta(fmeta[f], n) /\ fmeta[f] \in FileMeta
      /\ \A g \in Fhs : g # f => fmeta'[g] = fmeta[g]
  BY <1>1, <1>3, <1>4 DEF CreateNew, TypeOK
<1>9. fmeta'[f].name = n /\ fmeta'[f].size = 0 /\ fmeta'[f].child = fmeta[f].child
  BY <1>6, <1>8 DEF ClaimedMeta, FileMeta
<1>10. fmeta[f].child = None /\ disk_fmeta[f].child = None BY <1>4 DEF Synced, NoChildren
<1>11. NamesAt("create_write", r)'
  BY <1>5, <1>6, <1>9 DEF NamesAt, ExtendPcs, UnlinkPcs
<1>12. "create_write" \in Creating BY DEF Creating
<1> QED BY <1>4, <1>5, <1>6, <1>7, <1>8, <1>9, <1>10, <1>11, <1>12, SyncStep

\* CreateFile persists it.
LEMMA CreateWriteSynced ==
    ASSUME HandlesKnown, Synced, Plain, NEW t \in Threads, CreateWrite(t, TRUE)
    PROVE  Synced'
<1>1. PICK c : c = loc[t] OBVIOUS
<1>2. PICK f : f = c.fh OBVIOUS
<1>3. TypeOK /\ pc[t] = "create_write" BY DEF HandlesKnown, CreateWrite, At
<1>4. /\ f \in Fhs /\ status = "up" /\ \A u \in Threads : u # t => loc[u].fh # f
      /\ \A n \in Names : created_files[n] = f => n = c.name
  BY <1>1, <1>2, <1>3, Alone
<1>5. Moved(t, "create_add", c) BY <1>1, <1>3 DEF CreateWrite, Goto, Moved, TypeOK
<1>6. WriteMeta(fmeta, f, TRUE) /\ UNCHANGED <<status, created_files>>
  BY <1>1, <1>2 DEF CreateWrite
<1>7. fmeta \in [Fhs -> FileMeta] /\ fmeta[f] \in FileMeta BY <1>3, <1>4 DEF TypeOK
<1>8. /\ fmeta'[f] = [fmeta[f] EXCEPT !.ok = TRUE] /\ disk_fmeta'[f] = fmeta'[f]
      /\ \A g \in Fhs : g # f => /\ fmeta'[g] = fmeta[g]
                                 /\ disk_fmeta'[g] \in {disk_fmeta[g], fmeta[g]}
  BY <1>3, <1>4, <1>6, <1>7, Written
<1>9. /\ fmeta'[f].child = fmeta[f].child /\ fmeta'[f].name = fmeta[f].name
      /\ fmeta'[f].size = fmeta[f].size
  BY <1>7, <1>8 DEF FileMeta
<1>10. fmeta[f].child = None BY <1>4 DEF Synced, NoChildren
<1>11. NamesAt("create_write", c) BY <1>1, <1>3, <1>4 DEF Synced, NamesKnown
<1>12. \A n \in Names : created_files[n] # f
  BY <1>4, <1>11, HandleNotNone DEF NamesAt, Creating
<1>13. NamesAt("create_add", c)'
  BY <1>2, <1>6, <1>9, <1>11 DEF NamesAt, ExtendPcs, UnlinkPcs, Creating
<1>14. "create_add" \in Creating BY DEF Creating
<1>15. /\ fmeta'[f].child = None /\ disk_fmeta'[f].child = None /\ loc[t].fh = f /\ c.fh = f
       /\ \A n \in Names : created_files'[n] = created_files[n] /\ created_files[n] # f
       /\ \A u \in Threads : u # t /\ pc[u] # "idle" =>
            created_files'[loc[u].name] = created_files[loc[u].name]
       /\ status' = "up"
  BY <1>1, <1>2, <1>4, <1>6, <1>8, <1>9, <1>10, <1>12
<1>16. \A g \in Fhs : g # f => /\ fmeta'[g] = fmeta[g]
                               /\ disk_fmeta'[g] \in {disk_fmeta[g], fmeta[g]}
  BY <1>8
<1>17. disk_fmeta'[f] = fmeta'[f] /\ f \in Fhs /\ status = "up" BY <1>4, <1>8
<1>18. \A u \in Threads : u # t => loc[u].fh # f BY <1>4
<1> QED BY <1>5, <1>13, <1>14, <1>15, <1>16, <1>17, <1>18, SyncStep

\* CreateFile enters it under its name.
LEMMA CreateAddSynced ==
    ASSUME HandlesKnown, Synced, Plain, NEW t \in Threads, CreateAdd(t)
    PROVE  Synced'
<1>1. PICK c : c = loc[t] OBVIOUS
<1>2. PICK f : f = c.fh OBVIOUS
<1>3. TypeOK /\ pc[t] = "create_add" BY DEF HandlesKnown, CreateAdd, At
<1>4. /\ f \in Fhs /\ status = "up" /\ c.name \in Names
      /\ \A u \in Threads : u # t => loc[u].fh # f /\ loc[u].name # c.name
  BY <1>1, <1>2, <1>3, Alone
<1>5. Moved(t, "idle", NoLoc) BY ReturnMoved DEF CreateAdd
<1>6. /\ UNCHANGED <<status, fmeta, disk_fmeta>>
      /\ created_files' = [created_files EXCEPT ![c.name] = f]
  BY <1>1, <1>2 DEF CreateAdd, disk
<1>7. NamesAt("create_add", c) BY <1>1, <1>3, <1>4 DEF Synced, NamesKnown
<1>8. created_files[c.name] = None /\ fmeta[f].name = c.name
  BY <1>2, <1>7 DEF NamesAt, Creating
<1>9. created_files'[c.name] = f /\ \A n \in Names : n # c.name => created_files'[n] = created_files[n]
  BY <1>3, <1>4, <1>6 DEF TypeOK
<1>10. \A n \in Names : created_files[n] # f
  <2>1. \A n \in Names : created_files[n] = f => n = c.name BY <1>1, <1>2, <1>3, Alone
  <2> QED BY <1>4, <1>8, <2>1, HandleNotNone
<1>11. disk_fmeta[f] = fmeta[f]
  BY <1>3, <1>4 DEF Synced, MetasWritten, Unwritten
<1>12. fmeta[f].child = None /\ disk_fmeta[f].child = None BY <1>4 DEF Synced, NoChildren
<1>13. NamesAt("idle", NoLoc)' BY DEF NamesAt, Creating, ExtendPcs, UnlinkPcs
<1>14. \A u \in Threads : u # t /\ pc[u] # "idle" =>
           created_files'[loc[u].name] = created_files[loc[u].name]
  <2>1. \A u \in Threads : pc[u] # "idle" => loc[u].name \in Names BY Alone
  <2> QED BY <1>4, <1>9, <2>1
<1>15. \A n \in Names : \/ created_files'[n] = created_files[n] /\ created_files[n] # f
                        \/ /\ created_files'[n] = f /\ created_files[n] \in {f, None}
                           /\ fmeta'[f].name = n
  BY <1>6, <1>8, <1>9, <1>10
<1> QED BY <1>1, <1>2, <1>4, <1>5, <1>6, <1>9, <1>11, <1>12, <1>13, <1>14, <1>15, SyncStep

\* A thread that has a file by its name is creating none, and no other thread is at work on it.
LEMMA HasFile ==
    ASSUME HandlesKnown, Synced, Plain, NEW t \in Threads, pc[t] \in ExtendPcs \cup UnlinkPcs
    PROVE  /\ loc[t].fh \in Fhs /\ loc[t].name \in Names /\ status = "up" /\ TypeOK
           /\ fmeta[loc[t].fh] \in FileMeta
           /\ \A u \in Threads : u # t => loc[u].fh # loc[t].fh /\ loc[u].name # loc[t].name
           /\ created_files[loc[t].name] = loc[t].fh /\ fmeta[loc[t].fh].name = loc[t].name
           /\ \A n \in Names : created_files[n] = loc[t].fh => n = loc[t].name
           /\ disk_fmeta[loc[t].fh] = fmeta[loc[t].fh] /\ fmeta[loc[t].fh].child = None
<1>1. PICK c : c = loc[t] OBVIOUS
<1>2. PICK f : f = c.fh OBVIOUS
<1>3. pc[t] # "idle" /\ pc[t] \notin Creating BY DEF ExtendPcs, UnlinkPcs, Creating
<1>4. /\ f \in Fhs /\ c.name \in Names /\ status = "up"
      /\ \A u \in Threads : u # t => loc[u].fh # f /\ loc[u].name # c.name
      /\ \A n \in Names : created_files[n] = f => n = c.name
  BY <1>1, <1>2, <1>3, Alone
<1>5. TypeOK /\ fmeta[f] \in FileMeta BY <1>4 DEF HandlesKnown, TypeOK
<1>6. NamesAt(pc[t], c) BY <1>1, <1>4 DEF Synced, NamesKnown
<1>7. created_files[c.name] = f BY <1>2, <1>6 DEF NamesAt
<1>8. fmeta[f].name = c.name BY <1>4, <1>7, HandleNotNone DEF Synced, NamesKnown
<1>9. \A u \in Threads : pc[u] \in Creating => loc[u].fh # f BY <1>3, <1>4
<1>10. disk_fmeta[f] = fmeta[f] BY <1>4, <1>9, OnDevice
<1>11. fmeta[f].child = None BY <1>4 DEF Synced, NoChildren
<1> QED BY <1>1, <1>2, <1>4, <1>5, <1>7, <1>8, <1>10, <1>11

\* A file that no thread works on.
LEMMA SettledSynced ==
    ASSUME HandlesKnown, Synced, status = "up", NEW n \in Names, Free(n), created_files[n] # None
    PROVE  /\ created_files[n] \in Fhs /\ fmeta[created_files[n]] \in FileMeta
           /\ disk_fmeta[created_files[n]] = fmeta[created_files[n]]
           /\ fmeta[created_files[n]].name = n /\ fmeta[created_files[n]].child = None
           /\ \A u \in Threads : loc[u].fh # created_files[n]
           /\ \A m \in Names : created_files[m] = created_files[n] => m = n
<1>1. PICK f : f = created_files[n] OBVIOUS
<1>2. /\ f \in Fhs /\ \A u \in Threads : loc[u].fh # f
      /\ \A m \in Names : created_files[m] = f => m = n
  BY <1>1, SettledFree DEF HandlesKnown
<1>3. fmeta[f] \in FileMeta BY <1>2 DEF HandlesKnown, TypeOK
<1>4. disk_fmeta[f] = fmeta[f] BY <1>2, OnDevice
<1>5. fmeta[f].child = None BY <1>2 DEF Synced, NoChildren
<1>6. fmeta[f].name = n BY <1>1 DEF Synced, NamesKnown
<1> QED BY <1>1, <1>2, <1>3, <1>4, <1>5, <1>6

\* What an idle thread knows.
LEMMA IdleNames == NamesAt("idle", NoLoc)'
BY DEF NamesAt, Creating, ExtendPcs, UnlinkPcs

\* ExtendFile persists the size.
LEMMA ExtendSizeSynced ==
    ASSUME HandlesKnown, Synced, Plain, NEW t \in Threads, ExtendSize(t, TRUE)
    PROVE  Synced'
<1>1. PICK c : c = loc[t] OBVIOUS
<1>2. PICK f : f = c.fh OBVIOUS
<1>3. pc[t] = "extend_size" /\ pc[t] \in ExtendPcs BY DEF ExtendSize, At, ExtendPcs
<1>4. /\ f \in Fhs /\ status = "up" /\ TypeOK /\ fmeta[f] \in FileMeta /\ c.name \in Names
      /\ created_files[c.name] = f /\ fmeta[f].name = c.name /\ fmeta[f].child = None
  BY <1>1, <1>2, <1>3, HasFile
<1>5. \A u \in Threads : u # t => loc[u].fh # f BY <1>1, <1>2, <1>3, HasFile
<1>6. \A n \in Names : created_files[n] = f => n = c.name BY <1>1, <1>2, <1>3, HasFile
<1>7. PICK fm : fm = [fmeta EXCEPT ![f].size = c.off] OBVIOUS
<1>8. /\ WriteMeta(fm, f, TRUE) /\ Moved(t, "idle", NoLoc) /\ UNCHANGED <<status, created_files>>
  BY <1>1, <1>2, <1>7, ReturnMoved DEF ExtendSize
<1>9. c.off \in Nat BY <1>1, <1>4 DEF TypeOK, Loc
<1>10. fm \in [Fhs -> FileMeta] BY <1>4, <1>7, <1>9, SizeSetType
<1>11. /\ fm[f] = [fmeta[f] EXCEPT !.size = c.off] /\ \A g \in Fhs : g # f => fm[g] = fmeta[g]
  BY <1>4, <1>7 DEF TypeOK
<1>12. /\ fmeta'[f] = [fm[f] EXCEPT !.ok = TRUE] /\ disk_fmeta'[f] = fmeta'[f]
       /\ \A g \in Fhs : g # f => fmeta'[g] = fm[g] /\ disk_fmeta'[g] \in {disk_fmeta[g], fm[g]}
  BY <1>4, <1>8, <1>10, Written
<1>13. fmeta'[f].child = None /\ fmeta'[f].name = c.name /\ disk_fmeta'[f].child = None
  BY <1>4, <1>11, <1>12 DEF FileMeta
<1>14. \A g \in Fhs : g # f => fmeta'[g] = fmeta[g] /\ disk_fmeta'[g] \in {disk_fmeta[g], fmeta[g]}
  BY <1>11, <1>12
<1>15. /\ \A u \in Threads : u # t /\ pc[u] # "idle" =>
             created_files'[loc[u].name] = created_files[loc[u].name]
       /\ \E n \in Names : created_files'[n] = f
       /\ status' = "up" /\ loc[t].fh = f
  BY <1>1, <1>2, <1>4, <1>8
<1>16. \A n \in Names : \/ created_files'[n] = created_files[n] /\ created_files[n] # f
                        \/ /\ created_files'[n] = f /\ created_files[n] \in {f, None}
                           /\ fmeta'[f].name = n
  BY <1>6, <1>8, <1>13
<1>17. disk_fmeta'[f] = fmeta'[f] /\ f \in Fhs /\ status = "up" BY <1>4, <1>12
<1>18. Moved(t, "idle", NoLoc) BY <1>8
<1> QED BY <1>5, <1>13, <1>14, <1>15, <1>16, <1>17, <1>18, IdleNames, SyncStep

\* unlink clears the meta.
LEMMA UnlinkMetaSynced ==
    ASSUME HandlesKnown, Synced, Plain, NEW t \in Threads, UnlinkMeta(t, TRUE)
    PROVE  Synced'
<1>1. PICK c : c = loc[t] OBVIOUS
<1>2. PICK f : f = c.fh OBVIOUS
<1>3. pc[t] = "unlink_meta" /\ pc[t] \in UnlinkPcs BY DEF UnlinkMeta, At, UnlinkPcs
<1>4. /\ f \in Fhs /\ status = "up" /\ TypeOK /\ fmeta[f] \in FileMeta /\ c.name \in Names
      /\ created_files[c.name] = f /\ fmeta[f].name = c.name /\ fmeta[f].child = None
  BY <1>1, <1>2, <1>3, HasFile
<1>5. \A u \in Threads : u # t => loc[u].fh # f BY <1>1, <1>2, <1>3, HasFile
<1>6. \A n \in Names : created_files[n] = f => n = c.name BY <1>1, <1>2, <1>3, HasFile
<1>7. PICK fm : fm = [fmeta EXCEPT ![f] = ClearMeta(@)] OBVIOUS
<1>8. /\ WriteMeta(fm, f, TRUE) /\ UNCHANGED <<status, created_files>>
      /\ Moved(t, "unlink_names", c)
  BY <1>1, <1>2, <1>4, <1>7 DEF UnlinkMeta, Goto, Moved, TypeOK
<1>9. fm \in [Fhs -> FileMeta] BY <1>4, <1>7, ClearMetaType
<1>10. fm[f] = ClearMeta(fmeta[f]) /\ \A g \in Fhs : g # f => fm[g] = fmeta[g]
  BY <1>4, <1>7 DEF TypeOK
<1>11. /\ fmeta'[f] = [fm[f] EXCEPT !.ok = TRUE] /\ disk_fmeta'[f] = fmeta'[f]
       /\ \A g \in Fhs : g # f => fmeta'[g] = fm[g] /\ disk_fmeta'[g] \in {disk_fmeta[g], fm[g]}
  BY <1>4, <1>8, <1>9, Written
<1>12. /\ fmeta'[f].child = None /\ fmeta'[f].name = c.name /\ disk_fmeta'[f].child = None
       /\ ~fmeta'[f].used
  BY <1>4, <1>10, <1>11 DEF FileMeta, ClearMeta
<1>13. \A g \in Fhs : g # f => fmeta'[g] = fmeta[g] /\ disk_fmeta'[g] \in {disk_fmeta[g], fmeta[g]}
  BY <1>10, <1>11
<1>14. /\ \A u \in Threads : u # t /\ pc[u] # "idle" =>
             created_files'[loc[u].name] = created_files[loc[u].name]
       /\ status' = "up" /\ loc[t].fh = f
  BY <1>1, <1>2, <1>4, <1>8
<1>15. \A n \in Names : \/ created_files'[n] = created_files[n] /\ created_files[n] # f
                        \/ /\ created_files'[n] = f /\ created_files[n] \in {f, None}
                           /\ fmeta'[f].name = n
  BY <1>6, <1>8, <1>12
<1>16. disk_fmeta'[f] = fmeta'[f] /\ f \in Fhs /\ status = "up" BY <1>4, <1>11
<1>17. Moved(t, "unlink_names", c) BY <1>8
<1>18. NamesAt("unlink_names", c)'
  BY <1>2, <1>4, <1>8, <1>12 DEF NamesAt, Creating, ExtendPcs, UnlinkPcs
<1> QED BY <1>5, <1>12, <1>13, <1>14, <1>15, <1>16, <1>17, <1>18, SyncStep

\* unlink takes the name out of the maps.
LEMMA UnlinkNamesSynced ==
    ASSUME HandlesKnown, Synced, Plain, NEW t \in Threads, UnlinkNames(t)
    PROVE  Synced'
<1>1. PICK c : c = loc[t] OBVIOUS
<1>2. PICK f : f = c.fh OBVIOUS
<1>3. pc[t] = "unlink_names" /\ pc[t] \in UnlinkPcs BY DEF UnlinkNames, At, UnlinkPcs
<1>4. /\ f \in Fhs /\ status = "up" /\ TypeOK /\ c.name \in Names
      /\ created_files[c.name] = f /\ fmeta[f].child = None /\ disk_fmeta[f] = fmeta[f]
  BY <1>1, <1>2, <1>3, HasFile
<1>5. \A u \in Threads : u # t => loc[u].fh # f /\ loc[u].name # c.name
  BY <1>1, <1>2, <1>3, HasFile
<1>6. \A n \in Names : created_files[n] = f => n = c.name BY <1>1, <1>2, <1>3, HasFile
<1>7. /\ UNCHANGED <<status, fmeta, disk_fmeta>> /\ Moved(t, "idle", NoLoc)
      /\ created_files' = [created_files EXCEPT ![c.name] = None]
  BY <1>1, ReturnMoved DEF UnlinkNames, disk
<1>8. /\ created_files'[c.name] = None
      /\ \A n \in Names : n # c.name => created_files'[n] = created_files[n]
  BY <1>4, <1>7 DEF TypeOK
<1>9. ~fmeta[f].used BY <1>1, <1>2, <1>3, <1>4 DEF Synced, NamesKnown, NamesAt
<1>10. \A u \in Threads : u # t /\ pc[u] # "idle" =>
           created_files'[loc[u].name] = created_files[loc[u].name]
  <2>1. \A u \in Threads : pc[u] # "idle" => loc[u].name \in Names BY Alone
  <2> QED BY <1>5, <1>8, <2>1
<1>11. \A n \in Names : \/ created_files'[n] = created_files[n] /\ created_files[n] # f
                        \/ created_files'[n] = None /\ created_files[n] \in {f, None}
  BY <1>4, <1>6, <1>8
<1>12. \A g \in Fhs : g # f => fmeta'[g] = fmeta[g] /\ disk_fmeta'[g] \in {disk_fmeta[g], fmeta[g]}
  BY <1>7
<1>13. /\ disk_fmeta'[f] = fmeta'[f] /\ fmeta'[f].child = None /\ disk_fmeta'[f].child = None
       /\ ~fmeta'[f].used /\ status = "up" /\ status' = "up" /\ loc[t].fh = f /\ f \in Fhs
  BY <1>1, <1>2, <1>4, <1>7, <1>9
<1>14. Moved(t, "idle", NoLoc) BY <1>7
<1>15. \A u \in Threads : u # t => loc[u].fh # f BY <1>5
<1> QED BY <1>10, <1>11, <1>12, <1>13, <1>14, <1>15, IdleNames, SyncStep

\* A thread that stays idle has not moved.
LEMMA StaysIdle ==
    ASSUME HandlesKnown, NEW t \in Threads, pc[t] = "idle", UNCHANGED <<pc, loc>>
    PROVE  Moved(t, "idle", NoLoc)
<1>1. loc[t] = NoLoc BY DEF HandlesKnown, HandlesOwned, IdleHoldsNothing
<1> QED BY <1>1 DEF HandlesKnown, TypeOK, Moved

\* rename moves the file to the other name.
LEMMA RenameSynced ==
    ASSUME HandlesKnown, Synced, Plain, NEW t \in Threads, NEW n \in Names, NEW m \in Names,
           RenameFile(t, n, m, TRUE)
    PROVE  Synced'
<1>1. PICK f : f = created_files[n] OBVIOUS
<1>2. /\ status = "up" /\ Free(n) /\ Free(m) /\ f # None /\ created_files[m] = None
      /\ pc[t] = "idle" /\ UNCHANGED <<status, pc, loc>> /\ n # m
  BY <1>1 DEF RenameFile, Start
<1>3. /\ f \in Fhs /\ fmeta[f] \in FileMeta /\ fmeta[f].child = None
      /\ \A u \in Threads : loc[u].fh # f
      /\ \A k \in Names : created_files[k] = f => k = n
  BY <1>1, <1>2, SettledSynced
<1>4. TypeOK BY DEF HandlesKnown
<1>5. PICK fm : fm = [fmeta EXCEPT ![f].name = m] OBVIOUS
<1>6. /\ WriteMeta(fm, f, TRUE)
      /\ created_files' = [created_files EXCEPT ![n] = None, ![m] = f]
  BY <1>1, <1>5 DEF RenameFile
<1>7. fm \in [Fhs -> FileMeta] BY <1>3, <1>4, <1>5 DEF TypeOK, FileMeta
<1>8. fm[f] = [fmeta[f] EXCEPT !.name = m] /\ \A g \in Fhs : g # f => fm[g] = fmeta[g]
  BY <1>3, <1>4, <1>5 DEF TypeOK
<1>9. /\ fmeta'[f] = [fm[f] EXCEPT !.ok = TRUE] /\ disk_fmeta'[f] = fmeta'[f]
      /\ \A g \in Fhs : g # f => fmeta'[g] = fm[g] /\ disk_fmeta'[g] \in {disk_fmeta[g], fm[g]}
  BY <1>3, <1>4, <1>6, <1>7, Written
<1>10. fmeta'[f].child = None /\ fmeta'[f].name = m /\ disk_fmeta'[f].child = None
  BY <1>3, <1>8, <1>9 DEF FileMeta
<1>11. \A g \in Fhs : g # f => fmeta'[g] = fmeta[g] /\ disk_fmeta'[g] \in {disk_fmeta[g], fmeta[g]}
  BY <1>8, <1>9
<1>12. /\ created_files'[n] = None /\ created_files'[m] = f
       /\ \A k \in Names : k # n /\ k # m => created_files'[k] = created_files[k]
  BY <1>2, <1>4, <1>6 DEF TypeOK
<1>13. \A u \in Threads : u # t /\ pc[u] # "idle" =>
           created_files'[loc[u].name] = created_files[loc[u].name]
  <2>1. \A u \in Threads : pc[u] # "idle" => loc[u].name \in Names BY Alone
  <2> QED BY <1>2, <1>12, <2>1 DEF Free
<1>14. \A k \in Names : \/ created_files'[k] = created_files[k] /\ created_files[k] # f
                        \/ created_files'[k] = None /\ created_files[k] \in {f, None}
                        \/ /\ created_files'[k] = f /\ created_files[k] \in {f, None}
                           /\ fmeta'[f].name = k
  BY <1>1, <1>2, <1>3, <1>10, <1>12
<1>15. Moved(t, "idle", NoLoc) BY <1>2, StaysIdle
<1>16. /\ disk_fmeta'[f] = fmeta'[f] /\ f \in Fhs /\ status = "up" /\ status' = "up"
       /\ \E k \in Names : created_files'[k] = f
  BY <1>2, <1>3, <1>9, <1>12
<1>17. \A u \in Threads : u # t => loc[u].fh # f BY <1>3
<1>18. pc[t] = "idle" BY <1>2
<1> QED BY <1>10, <1>11, <1>13, <1>14, <1>15, <1>16, <1>17, <1>18, IdleNames, SyncStep

\* A thread that leaves the metas and the names alone.
LEMMA QuietSynced ==
    ASSUME HandlesKnown, Synced, NEW t \in Threads, NEW l, NEW r, Moved(t, l, r),
           UNCHANGED <<status, fmeta, disk_fmeta, created_files>>, status = "up",
           pc[t] \notin Creating,
           \/ l = "idle"
           \/ /\ l \in (ExtendPcs \cup UnlinkPcs) \ {"unlink_names"}
              /\ created_files[r.name] = r.fh
    PROVE  Synced'
<1>1. TypeOK BY DEF HandlesKnown
<1>2. /\ pc'[t] = l /\ loc'[t] = r
      /\ \A u \in Threads : u # t => pc'[u] = pc[u] /\ loc'[u] = loc[u]
  BY <1>1, OthersKept
<1>3. NoChildren /\ MetasWritten /\ NamesKnown BY DEF Synced
<1>4. NoChildren' BY <1>3 DEF NoChildren
<1>5. \A f \in Fhs : (Makes(f) => Makes(f)') /\ (Unwritten(f) => Unwritten(f)')
  BY <1>2 DEF Makes, Unwritten, Creating
<1>6. MetasWritten' BY <1>3, <1>5 DEF MetasWritten
<1>7. ASSUME NEW u \in Threads PROVE NamesAt(pc[u], loc[u])'
  <2>1. CASE u = t BY <1>2, <2>1 DEF NamesAt, Creating, ExtendPcs, UnlinkPcs
  <2>2. CASE u # t
    <3>1. PICK k, q : k = pc[u] /\ q = loc[u] OBVIOUS
    <3>2. k = pc'[u] /\ q = loc'[u] BY <1>2, <2>2, <3>1
    <3>3. NamesAt(k, q) BY <1>3, <3>1 DEF NamesKnown
    <3> QED BY <3>2, <3>3 DEF NamesAt
  <2> QED BY <2>1, <2>2
<1>8. NamesKnown' BY <1>3, <1>5, <1>7 DEF NamesKnown
<1> QED BY <1>4, <1>6, <1>8 DEF Synced

\* ExtendFile and unlink, up to their writes of the FileMeta.
LEMMA OthersSynced ==
    ASSUME HandlesKnown, Synced, Plain, NEW t \in Threads,
           \/ \E n \in Names, off \in Offsets : ExtendStart(t, n, off)
           \/ ExtendBlocks(t) \/ ExtendFb(t, TRUE)
           \/ \E n \in Names : UnlinkStart(t, n)
           \/ UnlinkFb(t, TRUE)
    PROVE  Synced'
<1>1. PICK c : c = loc[t] OBVIOUS
<1>2. TypeOK /\ c \in Loc BY <1>1 DEF HandlesKnown, TypeOK
<1>3. UNCHANGED <<status, fmeta, disk_fmeta, created_files>>
  BY DEF ExtendStart, ExtendBlocks, ExtendFb, UnlinkStart, UnlinkFb, disk
<1>4. CASE pc[t] = "idle"
  <2>1. PICK n \in Names : UnlinkStart(t, n) \/ \E off \in Offsets : ExtendStart(t, n, off)
    BY <1>4 DEF ExtendBlocks, ExtendFb, UnlinkFb, At
  <2>2. PICK l, r : /\ l \in {"extend_blocks", "unlink_meta", "unlink_fb"}
                   /\ Moved(t, l, r) /\ r.name = n /\ r.fh = created_files[n]
    <3>1. CASE UnlinkStart(t, n)
      <4>1. PICK r : r = [c EXCEPT !.name = n, !.fh = created_files[n],
                                   !.fb = item[created_files[n]]] OBVIOUS
      <4>2. PICK l \in {"unlink_meta", "unlink_fb"} : Moved(t, l, r)
        BY <1>1, <1>2, <3>1, <4>1 DEF UnlinkStart, Goto, Moved, TypeOK, Loc
      <4>3. r.name = n /\ r.fh = created_files[n] BY <1>2, <4>1 DEF Loc
      <4> QED BY <4>2, <4>3
    <3>2. ASSUME NEW off \in Offsets, ExtendStart(t, n, off)
          PROVE  \E r : Moved(t, "extend_blocks", r) /\ r.name = n /\ r.fh = created_files[n]
      <4>1. CASE loc' = [loc EXCEPT ![t].name = n, ![t].fh = created_files[n], ![t].off = off,
                                    ![t].fb = Head(free_fbhs), ![t].new_fb = TRUE]
        <5>1. PICK r : r = [c EXCEPT !.name = n, !.fh = created_files[n],
                                     !.off = off, !.fb = Head(free_fbhs), !.new_fb = TRUE] OBVIOUS
        <5>2. Moved(t, "extend_blocks", r)
          BY <1>1, <1>2, <3>2, <4>1, <5>1 DEF ExtendStart, Goto, Moved, TypeOK, Loc
        <5>3. r.name = n /\ r.fh = created_files[n] BY <1>2, <5>1 DEF Loc
        <5> QED BY <5>2, <5>3
      <4>2. CASE loc' = [loc EXCEPT ![t].name = n, ![t].fh = created_files[n], ![t].off = off,
                                    ![t].fb = item[created_files[n]]]
        <5>1. PICK r : r = [c EXCEPT !.name = n, !.fh = created_files[n],
                                     !.off = off, !.fb = item[created_files[n]]] OBVIOUS
        <5>2. Moved(t, "extend_blocks", r)
          BY <1>1, <1>2, <3>2, <4>2, <5>1 DEF ExtendStart, Goto, Moved, TypeOK, Loc
        <5>3. r.name = n /\ r.fh = created_files[n] BY <1>2, <5>1 DEF Loc
        <5> QED BY <5>2, <5>3
      <4> QED BY <3>2, <4>1, <4>2 DEF ExtendStart
    <3> QED BY <2>1, <3>1, <3>2
  <2>3. status = "up" BY <2>1 DEF UnlinkStart, ExtendStart, Start
  <2>4. pc[t] \notin Creating BY <1>4 DEF Creating
  <2>5. l \in (ExtendPcs \cup UnlinkPcs) \ {"unlink_names"} BY <2>2 DEF ExtendPcs, UnlinkPcs
  <2> QED BY <1>3, <2>2, <2>3, <2>4, <2>5, QuietSynced
<1>5. CASE pc[t] # "idle"
  <2>1. pc[t] \in (ExtendPcs \cup UnlinkPcs) \ {"unlink_names"}
    BY <1>5 DEF ExtendStart, ExtendBlocks, ExtendFb, UnlinkStart, UnlinkFb, Start, At,
                ExtendPcs, UnlinkPcs
  <2>2. created_files[c.name] = c.fh /\ status = "up" BY <1>1, <2>1, HasFile
  <2>3. pc[t] \notin Creating BY <2>1 DEF Creating, ExtendPcs, UnlinkPcs
  <2>4. \/ Moved(t, "idle", NoLoc)
        \/ \E l \in (ExtendPcs \cup UnlinkPcs) \ {"unlink_names"} : \E r :
              Moved(t, l, r) /\ r.name = c.name /\ r.fh = c.fh
    <3>1. CASE Return(t) BY <3>1, ReturnMoved
    <3>2. CASE ExtendBlocks(t)
      <4>1. ASSUME NEW s, loc' = [loc EXCEPT ![t].ids = s], NEW l \in ExtendPcs, Goto(t, l)
            PROVE  Moved(t, l, [c EXCEPT !.ids = s])
        BY <1>1, <1>2, <4>1 DEF Goto, Moved, TypeOK, Loc
      <4>2. \A s : [c EXCEPT !.ids = s].name = c.name /\ [c EXCEPT !.ids = s].fh = c.fh
        BY <1>2 DEF Loc
      <4>3. \A l \in ExtendPcs : l \in (ExtendPcs \cup UnlinkPcs) \ {"unlink_names"}
        BY DEF ExtendPcs
      <4> QED BY <3>1, <3>2, <4>1, <4>2, <4>3 DEF ExtendBlocks, ExtendPcs
    <3>3. CASE ExtendFb(t, TRUE)
      BY <1>1, <1>2, <3>1, <3>3 DEF ExtendFb, Goto, Moved, TypeOK, ExtendPcs
    <3>4. CASE UnlinkFb(t, TRUE)
      <4>1. Moved(t, "unlink_meta", [c EXCEPT !.fb = None])
        BY <1>1, <1>2, <3>4 DEF UnlinkFb, Goto, Moved, TypeOK, Loc
      <4>2. [c EXCEPT !.fb = None].name = c.name /\ [c EXCEPT !.fb = None].fh = c.fh
        BY <1>2 DEF Loc
      <4>3. "unlink_meta" \in (ExtendPcs \cup UnlinkPcs) \ {"unlink_names"} BY DEF UnlinkPcs
      <4> QED BY <4>1, <4>2, <4>3
    <3> QED BY <1>5, <3>2, <3>3, <3>4 DEF ExtendStart, UnlinkStart, Start
  <2> QED BY <1>3, <2>2, <2>3, <2>4, QuietSynced
<1> QED BY <1>4, <1>5

\* A meta that is used on the device is so in memory; it has its name there or a creator.
LEMMA UsedOnDevice ==
    ASSUME HandlesKnown, Synced, Plain, status = "up", NEW f \in UsedFhs
    PROVE  /\ f \in Fhs /\ disk_fmeta[f] = fmeta[f] /\ fmeta[f].name \in Names
           /\ \/ created_files[fmeta[f].name] = f
              \/ \E t \in Threads : /\ pc[t] \in Creating /\ loc[t].fh = f
                                    /\ loc[t].name = fmeta[f].name
                                    /\ created_files[fmeta[f].name] = None
<1>1. f \in Fhs /\ disk_fmeta[f].used BY DEF UsedFhs
<1>2. disk_fmeta[f] = fmeta[f] BY <1>1 DEF Synced, MetasWritten
<1>3. Makes(f) \/ \E n \in Names : created_files[n] = f BY <1>1, <1>2 DEF Synced, NamesKnown
<1>4. ASSUME NEW n \in Names, created_files[n] = f PROVE fmeta[f].name = n
  BY <1>1, <1>4, HandleNotNone DEF Synced, NamesKnown
<1>5. ASSUME NEW t \in Threads, pc[t] \in Creating, loc[t].fh = f
      PROVE  /\ loc[t].name = fmeta[f].name /\ loc[t].name \in Names
             /\ created_files[fmeta[f].name] = None
  <2>1. NamesAt(pc[t], loc[t]) BY DEF Synced, NamesKnown
  <2>2. pc[t] # "idle" BY <1>5 DEF Creating
  <2> QED BY <1>5, <2>1, <2>2, Alone DEF NamesAt
<1> QED BY <1>1, <1>2, <1>3, <1>4, <1>5 DEF Makes

\* So no name is on the device twice while the file system is mounted either.
LEMMA AlwaysNamed == ASSUME HandlesKnown, Synced, Plain PROVE DiskNamed
<1>1. CASE status = "down" BY <1>1 DEF Synced
<1>2. CASE status = "up"
  <2> SUFFICES ASSUME NEW f \in UsedFhs, NEW g \in UsedFhs
               PROVE  /\ disk_fmeta[f].name \in Names
                      /\ disk_fmeta[f].name = disk_fmeta[g].name => f = g
    BY DEF DiskNamed
  <2>1. disk_fmeta[f].name \in Names BY <1>2, UsedOnDevice
  <2> SUFFICES ASSUME disk_fmeta[f].name = disk_fmeta[g].name PROVE f = g BY <2>1
  <2>2. PICK n \in Names : n = fmeta[f].name /\ n = fmeta[g].name BY <1>2, UsedOnDevice
  <2>3. f \in Fhs /\ g \in Fhs /\ f # None /\ g # None BY HandleNotNone DEF UsedFhs
  <2>4. CASE created_files[n] = f \/ created_files[n] = g
    BY <1>2, <2>2, <2>3, <2>4, UsedOnDevice
  <2>5. CASE created_files[n] # f /\ created_files[n] # g
    <3>1. PICK t \in Threads : pc[t] \in Creating /\ loc[t].fh = f /\ loc[t].name = n
      BY <1>2, <2>2, <2>5, UsedOnDevice
    <3>2. PICK u \in Threads : pc[u] \in Creating /\ loc[u].fh = g /\ loc[u].name = n
      BY <1>2, <2>2, <2>5, UsedOnDevice
    <3>3. pc[t] # "idle" BY <3>1 DEF Creating
    <3>4. u = t BY <3>1, <3>2, <3>3, Alone
    <3> QED BY <3>1, <3>2, <3>4
  <2> QED BY <2>4, <2>5
<1> QED BY <1>1, <1>2 DEF HandlesKnown, TypeOK

\* The greatest of one handle.
LEMMA LastOfOne == ASSUME NEW f \in Fhs PROVE Last({f}) = f
<1>1. f \in Int /\ f <= f BY DEF Fhs
<1>2. \E x \in {f} : \A y \in {f} : y <= x BY <1>1
<1>3. (CHOOSE x \in {f} : \A y \in {f} : y <= x) \in {f} BY <1>2
<1> QED BY <1>2, <1>3 DEF Last

\* A mount finds the one file with the name, if there is one.
LEMMA LoadedOne ==
    ASSUME NoChildren, DiskNamed, NEW n \in Names, NEW f \in UsedFhs, disk_fmeta[f].name = n
    PROVE  NamedFhs(n) = {f} /\ LoadedFile(n) = f
<1>1. f \in Fhs BY DEF UsedFhs
<1>2. \A g \in UsedFhs : disk_fmeta[g].name = n => g = f BY DEF DiskNamed
<1>3. disk_fmeta[f].child <= 0 BY <1>1 DEF NoChildren, None
<1>4. NamedFhs(n) = {f} BY <1>2, <1>3 DEF NamedFhs
<1> QED BY <1>1, <1>4, LastOfOne DEF LoadedFile

\* ... and none otherwise.
LEMMA LoadedNone ==
    ASSUME NEW n \in Names, \A f \in UsedFhs : disk_fmeta[f].name # n
    PROVE  NamedFhs(n) = {} /\ LoadedFile(n) = None
<1>1. NamedFhs(n) = {} BY DEF NamedFhs
<1>2. Last({}) = None BY DEF Last
<1> QED BY <1>1, <1>2 DEF LoadedFile

\* What a mount loads.
LEMMA MountSynced ==
    ASSUME HandlesKnown, Synced, Plain, Mount
    PROVE  Synced'
<1>1. status = "down" /\ status' = "up" /\ NoChildren /\ DiskNamed BY DEF Mount, Synced
<1>2. /\ fmeta' = disk_fmeta /\ UNCHANGED <<disk_fmeta, pc, loc>>
      /\ created_files' = [n \in Names |-> LoadedFile(n)]
  BY DEF Mount, disk
<1>3. \A t \in Threads : pc[t] = "idle"
  BY <1>1 DEF HandlesKnown, HandlesOwned, IdleHoldsNothing
<1>4. NoChildren' BY <1>1, <1>2 DEF NoChildren
<1>5. MetasWritten' BY <1>2 DEF MetasWritten
<1>6. \A n \in Names : created_files'[n] # None => fmeta'[created_files'[n]].name = n
  <2> SUFFICES ASSUME NEW n \in Names, LoadedFile(n) # None
               PROVE  disk_fmeta[LoadedFile(n)].name = n
    BY <1>2
  <2>1. LoadedFile(n) \in NamedFhs(n) BY LastFirstType DEF LoadedFile
  <2> QED BY <2>1 DEF NamedFhs
<1>7. \A f \in Fhs : fmeta'[f].used => \E n \in Names : created_files'[n] = f
  <2> SUFFICES ASSUME NEW f \in Fhs, disk_fmeta[f].used
               PROVE  \E n \in Names : LoadedFile(n) = f
    BY <1>2
  <2>1. f \in UsedFhs BY DEF UsedFhs
  <2>2. disk_fmeta[f].name \in Names BY <1>1, <2>1 DEF DiskNamed
  <2> QED BY <1>1, <2>1, <2>2, LoadedOne
<1>8. \A t \in Threads : NamesAt(pc[t], loc[t])'
  BY <1>2, <1>3 DEF NamesAt, Creating, ExtendPcs, UnlinkPcs
<1>9. NamesKnown' BY <1>6, <1>7, <1>8 DEF NamesKnown
<1> QED BY <1>1, <1>4, <1>5, <1>9 DEF Synced

\* What a crash leaves.
LEMMA CrashSynced ==
    ASSUME HandlesKnown, Synced, Plain, Crash
    PROVE  Synced'
<1>1. /\ status' = "down" /\ UNCHANGED disk_fmeta /\ fmeta' = [f \in Fhs |-> FreshFile]
  BY DEF Crash, ProcessEnds, disk
<1>2. DiskNamed BY AlwaysNamed
<1>3. DiskNamed' BY <1>1, <1>2 DEF DiskNamed, UsedFhs
<1>4. NoChildren' BY <1>1 DEF Synced, NoChildren, FreshFile
<1> QED BY <1>1, <1>3, <1>4 DEF Synced

\* Every step keeps the metas on the device and the names.
LEMMA NextSynced ==
    ASSUME NoShrink, HandlesKnown, Plain, Synced, [Next]_vars, failures' = 0
    PROVE  Synced'
<1>1. TypeOK BY DEF HandlesKnown
<1>2. Mount \/ Crash \/ UNCHANGED vars \/ \E t \in Threads : Acts(t) BY <1>1, PlainNext
<1>3. CASE UNCHANGED vars
  <2>1. UNCHANGED <<status, fmeta, disk_fmeta, created_files, pc, loc>>
    BY <1>3 DEF vars, memory, disk
  <2> QED BY <2>1 DEF Synced, NoChildren, MetasWritten, Unwritten, NamesKnown, Makes, NamesAt,
                      DiskNamed, UsedFhs
<1>4. ASSUME NEW t \in Threads, Acts(t) PROVE Synced'
  BY <1>4, CreateNewSynced, CreateWriteSynced, CreateAddSynced, ExtendSizeSynced,
     UnlinkMetaSynced, UnlinkNamesSynced, RenameSynced, OthersSynced DEF Acts
<1> QED BY <1>2, <1>3, <1>4, MountSynced, CrashSynced

\* As long as no device write fails, metas and names agree with the device in every state.
LEMMA SyncedInvariant ==
    ASSUME NoShrink PROVE Spec => [](failures = 0 => Synced)
<1> DEFINE Inv == failures = 0 => Synced
<1>1. Init => Inv
  <2> SUFFICES ASSUME Init PROVE Synced OBVIOUS
  <2>1. UsedFhs = {} BY DEF Init, UsedFhs, FreshFile
  <2> QED BY <2>1 DEF Init, Synced, NoChildren, FreshFile, DiskNamed
<1>2. HandlesKnown /\ Plain /\ Inv /\ [Next]_vars => Inv'
  <2> SUFFICES ASSUME HandlesKnown, Plain, Inv, [Next]_vars, failures' = 0 PROVE Synced'
    OBVIOUS
  <2>1. failures = 0 BY PlainNext DEF HandlesKnown
  <2> QED BY <2>1, NextSynced
<1> HIDE DEF Inv
<1>3. Spec => []Inv BY <1>1, <1>2, HandlesInvariant, PlainInvariant, PTL DEF Spec
<1> QED BY <1>3 DEF Inv

-----------------------------------------------------------------------------
(* The FileBlocks on the device *)

\* No FileBlock has more ids than it can hold, and one that a file has is on the device.
FbsWritten ==
    /\ \A b \in Fbs : Len(fbmeta[b].ids) <= Capacity /\ Len(disk_fbmeta[b].ids) <= Capacity
    /\ \A f \in Fhs : item[f] # None => Persisted(item[f]) /\ fbmeta[item[f]].used

\* What ExtendFile makes of its FileBlock: the ids it had, then as many as fit.
LEMMA FilledTo ==
    ASSUME TypeOK, NEW t \in Threads, loc[t].fb \in Fbs, Len(fbmeta[loc[t].fb].ids) <= Capacity
    PROVE  /\ FilledFb(t).used
           /\ FilledFb(t).fh = IF loc[t].new_fb THEN loc[t].fh ELSE fbmeta[loc[t].fb].fh
           /\ Len(FilledFb(t).ids) <= Capacity
           /\ Len(fbmeta[loc[t].fb].ids) <= Len(FilledFb(t).ids)
           /\ \A i \in 1 .. Len(fbmeta[loc[t].fb].ids) :
                FilledFb(t).ids[i] = fbmeta[loc[t].fb].ids[i]
           /\ Len(loc[t].ids) > Room(loc[t].fb) => Len(FilledFb(t).ids) = Capacity
           /\ Len(loc[t].ids) <= Room(loc[t].fb) =>
                FilledFb(t).ids = fbmeta[loc[t].fb].ids \o loc[t].ids
<1>1. PICK c, b, old, room : /\ c = loc[t] /\ b = c.fb /\ old = fbmeta[b].ids
                             /\ room = Capacity - Len(old)
  OBVIOUS
<1>2. b \in Fbs /\ c \in Loc BY <1>1 DEF TypeOK
<1>3. old \in Seq(Blocks) /\ c.ids \in Seq(Blocks) /\ Len(old) <= Capacity
  BY <1>1, <1>2 DEF TypeOK, FileBlockMeta, Loc
<1>4. Len(old) \in Nat /\ Len(c.ids) \in Nat BY <1>3
<1>5. room \in Nat /\ Len(old) + room = Capacity
  <2>1. Capacity \in Nat BY StoreAssumption
  <2>2. room = Capacity - Len(old) BY <1>1
  <2> QED BY <1>3, <1>4, <2>1, <2>2
<1>6. Room(b) = room BY <1>1 DEF Room
<1>7. PICK fits : fits = IF Len(c.ids) <= room THEN c.ids ELSE SubSeq(c.ids, 1, room) OBVIOUS
<1>8. fits \in Seq(Blocks) /\ Len(fits) \in Nat /\ Len(fits) <= room
      /\ (Len(c.ids) > room => Len(fits) = room)
  BY <1>3, <1>4, <1>5, <1>7
<1>9. /\ FilledFb(t).used /\ FilledFb(t).fh = IF c.new_fb THEN c.fh ELSE fbmeta[b].fh
      /\ FilledFb(t).ids = old \o fits
  BY <1>1, <1>6, <1>7 DEF FilledFb
<1>10. Len(old \o fits) = Len(old) + Len(fits) /\ \A i \in 1 .. Len(old) : (old \o fits)[i] = old[i]
  BY <1>3, <1>8
<1>11. /\ Len(old \o fits) <= Capacity /\ Len(old) <= Len(old \o fits)
       /\ Len(c.ids) > room => Len(old \o fits) = Capacity
  BY <1>4, <1>5, <1>8, <1>10
<1>12. Len(c.ids) <= room => fits = c.ids BY <1>7
<1> QED BY <1>1, <1>6, <1>9, <1>10, <1>11, <1>12

\* A FileBlock that a step leaves alone.
LEMMA PersistedKept ==
    ASSUME NEW b, Persisted(b), fbmeta'[b] = fbmeta[b], disk_fbmeta'[b] = disk_fbmeta[b]
    PROVE  Persisted(b)'
BY DEF Persisted, Full

\* A FileBlock that was just written.
LEMMA PersistedWritten ==
    ASSUME NEW b, disk_fbmeta'[b] = fbmeta'[b]
    PROVE  Persisted(b)'
BY DEF Persisted

\* A step that changes FileBlock b and what f has.
LEMMA WrittenStep ==
    ASSUME TypeOK, TypeOK', FbsWritten, NEW b \in Fbs, NEW f \in Fhs,
           \A c \in Fbs : c # b => fbmeta'[c] = fbmeta[c] /\ disk_fbmeta'[c] = disk_fbmeta[c],
           Len(fbmeta'[b].ids) <= Capacity, Len(disk_fbmeta'[b].ids) <= Capacity,
           \A g \in Fhs : item'[g] = item[g] \/ (g = f /\ item'[g] \in {b, None}),
           \A g \in Fhs : item'[g] = b => Persisted(b)' /\ fbmeta'[b].used
    PROVE  FbsWritten'
<1>1. \A c \in Fbs : Len(fbmeta'[c].ids) <= Capacity /\ Len(disk_fbmeta'[c].ids) <= Capacity
  BY DEF FbsWritten
<1>2. ASSUME NEW g \in Fhs, item'[g] # None
      PROVE  Persisted(item[g])' /\ fbmeta'[item'[g]].used
  <2>1. CASE item'[g] = b
    <3>1. PICK c : c = item'[g] OBVIOUS
    <3> QED BY <2>1, <3>1 DEF Persisted, Full
  <2>2. CASE item'[g] # b
    <3>1. PICK c : c = item[g] OBVIOUS
    <3>2. c = item'[g] /\ c \in Fbs /\ c # b BY <1>2, <2>2, <3>1 DEF TypeOK
    <3>3. Persisted(c) /\ fbmeta[c].used BY <1>2, <3>1, <3>2 DEF FbsWritten
    <3>4. fbmeta'[c] = fbmeta[c] /\ disk_fbmeta'[c] = disk_fbmeta[c] BY <3>2
    <3>5. Persisted(c)' BY <3>3, <3>4, PersistedKept
    <3> QED BY <3>2, <3>3, <3>4, <3>5 DEF Persisted, Full
  <2> QED BY <2>1, <2>2
<1> QED BY <1>1, <1>2 DEF FbsWritten

\* ExtendFile fills a FileBlock and writes it, or fills it in memory only.
LEMMA ExtendFbWritten ==
    ASSUME FbsKnown, TypeOK', FbsWritten, NEW t \in Threads, ExtendFb(t, TRUE)
    PROVE  FbsWritten'
<1>1. PICK c, b, f : c = loc[t] /\ b = c.fb /\ f = c.fh OBVIOUS
<1>2. /\ TypeOK /\ b \in Fbs /\ f \in Fhs /\ pc[t] = "extend_fb"
      /\ FbAt("extend_fb", c)
  BY <1>1 DEF FbsKnown, HandlesKnown, FbsOwned, FbsPlaced, ExtendFb, At, LocalsSet, Fit
<1>3. /\ fbmeta' = [fbmeta EXCEPT ![b] = FilledFb(t)]
      /\ \/ /\ disk_fbmeta' = [disk_fbmeta EXCEPT ![b] = fbmeta'[b]]
            /\ item' = IF c.new_fb /\ item[f] = None THEN [item EXCEPT ![f] = b] ELSE item
         \/ Len(c.ids) > Room(b) /\ UNCHANGED <<disk_fbmeta, item>>
  BY <1>1, <1>2 DEF ExtendFb, WriteFbMeta
<1>4. /\ fbmeta'[b] = FilledFb(t)
      /\ \A d \in Fbs : d # b => fbmeta'[d] = fbmeta[d]
  BY <1>2, <1>3 DEF TypeOK
<1>5. Len(fbmeta[b].ids) <= Capacity /\ Len(disk_fbmeta[b].ids) <= Capacity
  BY <1>2 DEF FbsWritten
<1>6. /\ fbmeta'[b].used /\ Len(fbmeta'[b].ids) <= Capacity
      /\ ~c.new_fb => fbmeta'[b].fh = fbmeta[b].fh
      /\ Len(fbmeta[b].ids) <= Len(fbmeta'[b].ids)
      /\ \A i \in 1 .. Len(fbmeta[b].ids) : fbmeta'[b].ids[i] = fbmeta[b].ids[i]
      /\ Len(c.ids) > Room(b) => Len(fbmeta'[b].ids) = Capacity
  BY <1>1, <1>2, <1>4, <1>5, FilledTo
<1>7. CASE /\ disk_fbmeta' = [disk_fbmeta EXCEPT ![b] = fbmeta'[b]]
           /\ item' = IF c.new_fb /\ item[f] = None THEN [item EXCEPT ![f] = b] ELSE item
  <2>1. /\ disk_fbmeta'[b] = fbmeta'[b]
        /\ \A d \in Fbs : d # b => disk_fbmeta'[d] = disk_fbmeta[d]
    BY <1>2, <1>7 DEF TypeOK
  <2>2. \A g \in Fhs : item'[g] = item[g] \/ (g = f /\ item'[g] \in {b, None})
    BY <1>2, <1>7 DEF TypeOK
  <2>3. Persisted(b)' BY <2>1, PersistedWritten
  <2> QED BY <1>2, <1>4, <1>6, <2>1, <2>2, <2>3, WrittenStep
<1>8. CASE Len(c.ids) > Room(b) /\ UNCHANGED <<disk_fbmeta, item>>
  <2>1. ASSUME NEW g \in Fhs, item'[g] = b PROVE Persisted(b)'
    <3>1. item[g] = b /\ b # None BY <1>2, <1>8, <2>1, FbNotNone
    <3>2. Persisted(b) /\ fbmeta[b].used BY <3>1 DEF FbsWritten
    <3>3. ~c.new_fb BY <1>1, <1>2, <3>1 DEF FbAt, Unattached
    <3>4. PICK d, m, m1 : d = disk_fbmeta[b] /\ m = fbmeta[b] /\ m1 = fbmeta'[b] OBVIOUS
    <3>5. d.used = m.used /\ d.fh = m.fh /\ Len(d.ids) <= Len(m.ids)
          /\ \A i \in 1 .. Len(d.ids) : d.ids[i] = m.ids[i]
      <4>1. CASE d = m
        <5>1. m.ids \in Seq(Blocks) BY <1>2, <3>4 DEF TypeOK, FileBlockMeta
        <5>2. Len(m.ids) \in Nat BY <5>1
        <5> QED BY <4>1, <5>2
      <4> QED BY <3>2, <3>4, <4>1 DEF Persisted
    <3>6. Len(d.ids) \in Nat /\ Len(m.ids) \in Nat /\ Len(m1.ids) \in Nat
      <4>1. d.ids \in Seq(Blocks) /\ m.ids \in Seq(Blocks) /\ m1.ids \in Seq(Blocks)
        BY <1>2, <3>4 DEF TypeOK, FileBlockMeta
      <4> QED BY <4>1
    <3>7. m1.used = m.used /\ m1.fh = m.fh /\ Len(m1.ids) = Capacity /\ Len(m.ids) <= Len(m1.ids)
          /\ \A i \in 1 .. Len(m.ids) : m1.ids[i] = m.ids[i]
      <4>1. m1 \in FileBlockMeta /\ m \in FileBlockMeta BY <1>2, <3>4 DEF TypeOK
      <4>2. m1.used = m.used BY <1>6, <3>2, <3>4, <4>1 DEF FileBlockMeta
      <4> QED BY <1>6, <1>8, <3>3, <3>4, <4>2
    <3>8. Len(d.ids) <= Len(m1.ids) /\ \A i \in 1 .. Len(d.ids) : d.ids[i] = m1.ids[i]
      BY <3>5, <3>6, <3>7
    <3>9. d = disk_fbmeta'[b] BY <1>8, <3>4
    <3> QED BY <3>4, <3>5, <3>7, <3>8, <3>9 DEF Persisted, Full
  <2> QED BY <1>2, <1>4, <1>5, <1>6, <1>8, <2>1, WrittenStep
<1> QED BY <1>3, <1>7, <1>8

\* unlink clears a FileBlock, which no file has any more then.
LEMMA UnlinkFbWritten ==
    ASSUME FbsKnown, TypeOK', FbsWritten, NEW t \in Threads, UnlinkFb(t, TRUE)
    PROVE  FbsWritten'
<1>1. PICK c, b, f : c = loc[t] /\ b = c.fb /\ f = c.fh OBVIOUS
<1>2. /\ TypeOK /\ b \in Fbs /\ f \in Fhs /\ pc[t] = "unlink_fb"
      /\ FbAt("unlink_fb", c) /\ ItemOnce
  BY <1>1 DEF FbsKnown, HandlesKnown, FbsOwned, FbsPlaced, UnlinkFb, At, LocalsSet, Fit
<1>3. item[f] = b /\ b # None BY <1>1, <1>2, FbNotNone DEF FbAt
<1>4. /\ fbmeta' = [fbmeta EXCEPT ![b] = FreshFb]
      /\ disk_fbmeta' = [disk_fbmeta EXCEPT ![b] = fbmeta'[b]]
      /\ item' = [item EXCEPT ![f] = None]
  BY <1>1 DEF UnlinkFb, WriteFbMeta
<1>5. /\ fbmeta'[b] = FreshFb /\ disk_fbmeta'[b] = FreshFb
      /\ \A d \in Fbs : d # b => fbmeta'[d] = fbmeta[d] /\ disk_fbmeta'[d] = disk_fbmeta[d]
  BY <1>2, <1>4 DEF TypeOK
<1>6. item'[f] = None /\ \A g \in Fhs : g # f => item'[g] = item[g] BY <1>2, <1>4 DEF TypeOK
<1>7. \A g \in Fhs : item'[g] # b BY <1>2, <1>3, <1>6 DEF ItemOnce
<1>8. Len(FreshFb.ids) <= Capacity BY StoreAssumption DEF FreshFb
<1>9. \A g \in Fhs : item'[g] = item[g] \/ (g = f /\ item'[g] \in {b, None}) BY <1>6
<1> QED BY <1>2, <1>5, <1>7, <1>8, <1>9, WrittenStep

\* A step that changes no FileBlock and no file's.
LEMMA QuietWritten ==
    ASSUME FbsWritten, UNCHANGED <<fbmeta, disk_fbmeta, item>>
    PROVE  FbsWritten'
BY DEF FbsWritten, Persisted, Full

\* A mount loads the FileBlocks as they are.
LEMMA MountWritten ==
    ASSUME TypeOK, FbsWritten, Mount
    PROVE  FbsWritten'
<1>1. /\ fbmeta' = disk_fbmeta /\ UNCHANGED disk_fbmeta
      /\ item' = [f \in Fhs |-> LoadedFb(f)]
  BY DEF Mount, disk
<1>2. \A b \in Fbs : Len(fbmeta'[b].ids) <= Capacity /\ Len(disk_fbmeta'[b].ids) <= Capacity
  BY <1>1 DEF FbsWritten
<1>3. ASSUME NEW f \in Fhs, item'[f] # None PROVE Persisted(item[f])' /\ fbmeta'[item'[f]].used
  <2>1. item'[f] = LoadedFb(f) BY <1>1
  <2>2. LoadedFb(f) \in {b \in UsedFbs : disk_fbmeta[b].fh = f}
    BY <1>3, <2>1, LastFirstType DEF LoadedFb
  <2>3. item'[f] \in UsedFbs BY <2>1, <2>2
  <2>4. disk_fbmeta[item'[f]].used BY <2>3 DEF UsedFbs
  <2> QED BY <1>1, <2>4 DEF Persisted
<1> QED BY <1>2, <1>3 DEF FbsWritten

\* After a crash no file has one.
LEMMA CrashWritten ==
    ASSUME FbsWritten, Crash
    PROVE  FbsWritten'
<1>1. /\ fbmeta' = [b \in Fbs |-> FreshFb] /\ UNCHANGED disk_fbmeta
      /\ item' = [f \in Fhs |-> None]
  BY DEF Crash, ProcessEnds, disk
<1>2. Len(FreshFb.ids) <= Capacity BY StoreAssumption DEF FreshFb
<1> QED BY <1>1, <1>2 DEF FbsWritten

\* The FileBlocks on the device, in every state.
LEMMA WrittenInvariant ==
    ASSUME NoShrink PROVE Spec => [](failures = 0 => FbsWritten)
<1> DEFINE Inv == failures = 0 => FbsWritten
<1>1. Init => Inv
  <2>1. Len(FreshFb.ids) <= Capacity BY StoreAssumption DEF FreshFb
  <2> QED BY <2>1 DEF Init, FbsWritten
<1>2. HandlesKnown /\ FbsOwned /\ HandlesKnown' /\ Plain /\ Inv /\ [Next]_vars => Inv'
  <2> SUFFICES ASSUME HandlesKnown, FbsOwned, HandlesKnown', Plain, Inv, [Next]_vars, failures' = 0
               PROVE  FbsWritten'
    OBVIOUS
  <2>1. TypeOK /\ TypeOK' /\ FbsKnown BY DEF HandlesKnown, FbsKnown
  <2>2. failures = 0 /\ (Mount \/ Crash \/ UNCHANGED vars \/ \E t \in Threads : Acts(t))
    BY <2>1, PlainNext
  <2>3. FbsWritten BY <2>2
  <2>4. CASE UNCHANGED vars BY <2>3, <2>4, QuietWritten DEF vars, memory, disk
  <2>5. ASSUME NEW t \in Threads, Acts(t) PROVE FbsWritten'
    <3>1. CASE ExtendFb(t, TRUE) BY <2>1, <2>3, <3>1, ExtendFbWritten
    <3>2. CASE UnlinkFb(t, TRUE) BY <2>1, <2>3, <3>2, UnlinkFbWritten
    <3>3. CASE \/ \E n \in Names : CreateNew(t, n) \/ UnlinkStart(t, n)
               \/ CreateWrite(t, TRUE) \/ CreateAdd(t)
               \/ \E n \in Names, off \in Offsets : ExtendStart(t, n, off)
               \/ ExtendBlocks(t) \/ ExtendSize(t, TRUE)
               \/ UnlinkMeta(t, TRUE) \/ UnlinkNames(t)
               \/ \E n, m \in Names : RenameFile(t, n, m, TRUE)
      <4>1. UNCHANGED <<fbmeta, disk_fbmeta, item>>
        BY <3>3 DEF CreateNew, UnlinkStart, CreateWrite, CreateAdd, ExtendStart, ExtendBlocks,
                    ExtendSize, UnlinkMeta, UnlinkNames, RenameFile, disk
      <4> QED BY <2>3, <4>1, QuietWritten
    <3> QED BY <2>5, <3>1, <3>2, <3>3 DEF Acts
  <2> QED BY <2>1, <2>2, <2>3, <2>4, <2>5, MountWritten, CrashWritten
<1> HIDE DEF Inv
<1>3. Spec => []Inv BY <1>1, <1>2, FbsInvariant, PlainInvariant, PTL DEF Spec
<1> QED BY <1>3 DEF Inv

\* As long as no device write fails and no client shrinks a file, with any number of threads,
\* crashes and mounts: what an operation that returned has done to a file is on the device,
\* whatever other threads have written to its page since, and a name that is free is on the
\* device with no file.
THEOREM ReturnedIsDurable ==
    ASSUME NoShrink PROVE Spec => [](failures = 0 => DurableWhenSettled)
<1> DEFINE Durable == failures = 0 => DurableWhenSettled
<1>1. HandlesKnown /\ Plain /\ (failures = 0 => Synced) /\ (failures = 0 => FbsWritten) => Durable
  <2> SUFFICES ASSUME HandlesKnown, Plain, Synced, FbsWritten, status = "up"
               PROVE  /\ \A n \in Settled :
                           /\ disk_fmeta[created_files[n]] = fmeta[created_files[n]]
                           /\ item[created_files[n]] # None => Persisted(item[created_files[n]])
                      /\ \A n \in Names \ Settled : Free(n) => NamedFhs(n) = {}
    BY DEF DurableWhenSettled
  <2>1. ASSUME NEW n \in Settled
        PROVE  /\ disk_fmeta[created_files[n]] = fmeta[created_files[n]]
               /\ item[created_files[n]] # None => Persisted(item[created_files[n]])
    <3>1. n \in Names /\ Free(n) /\ created_files[n] # None BY DEF Settled
    <3>2. created_files[n] \in Fhs /\ disk_fmeta[created_files[n]] = fmeta[created_files[n]]
      BY <3>1, SettledSynced
    <3> QED BY <3>2 DEF FbsWritten
  <2>2. ASSUME NEW n \in Names, n \notin Settled, Free(n) PROVE NamedFhs(n) = {}
    <3>1. created_files[n] = None BY <2>2 DEF Settled
    <3>2. ASSUME NEW f \in UsedFhs, disk_fmeta[f].name = n PROVE FALSE
      <4>1. f \in Fhs /\ f # None BY HandleNotNone DEF UsedFhs
      <4>2. \E t \in Threads : loc[t].name = n BY <3>1, <3>2, <4>1, UsedOnDevice
      <4> QED BY <2>2, <4>2 DEF Free
    <3> QED BY <3>2, LoadedNone
  <2> QED BY <2>1, <2>2
<1> HIDE DEF Durable
<1>2. Spec => []Durable
  BY <1>1, HandlesInvariant, PlainInvariant, SyncedInvariant, WrittenInvariant, PTL
<1> QED BY <1>2 DEF Durable

-----------------------------------------------------------------------------
(* One FileMeta at a time *)

\* The crcs match, but for that of a meta that its creator has not written; no page write of
\* another thread has put that meta on the device.
Intact ==
    /\ \A f \in Fhs : disk_fmeta[f].ok /\ (fmeta[f].ok \/ Unwritten(f))
    /\ \A t \in Threads : pc[t] = "create_write" => ~disk_fmeta[loc[t].fh].used

\* A page write changes no other meta on the device.
LEMMA PageAlone ==
    ASSUME PagesApart, TypeOK, Synced, status = "up",
           NEW t \in Threads, NEW f \in Fhs, NEW fm \in [Fhs -> FileMeta],
           \A g \in Fhs : g # f => fm[g] = fmeta[g],
           pc[t] = "create_write" => loc[t].fh = f, WriteMeta(fm, f, TRUE)
    PROVE  /\ fmeta'[f] = [fm[f] EXCEPT !.ok = TRUE] /\ disk_fmeta'[f] = fmeta'[f]
           /\ \A g \in Fhs : g # f => fmeta'[g] = fmeta[g] /\ disk_fmeta'[g] = disk_fmeta[g]
<1>1. /\ fmeta'[f] = [fm[f] EXCEPT !.ok = TRUE] /\ disk_fmeta'[f] = fmeta'[f]
      /\ \A g \in Fhs : g # f => fmeta'[g] = fm[g] /\ disk_fmeta'[g] \in {disk_fmeta[g], fm[g]}
      /\ \A g \in Fhs : g \notin PageOf(f) => disk_fmeta'[g] = disk_fmeta[g]
  BY Written
<1>2. ASSUME NEW g \in Fhs, g # f PROVE disk_fmeta'[g] = disk_fmeta[g]
  <2>1. CASE OneThread
    <3>1. ~Unwritten(g) BY <1>2, <2>1 DEF OneThread, Unwritten
    <3>2. disk_fmeta[g] = fmeta[g] BY <3>1 DEF Synced, MetasWritten
    <3> QED BY <1>1, <1>2, <3>2
  <2>2. CASE FilesPerPage = 1
    <3>1. f \in Int /\ g \in Int BY DEF Fhs
    <3>2. f \div 1 = f /\ g \div 1 = g BY <3>1
    <3>3. g \notin PageOf(f) BY <1>2, <2>2, <3>2 DEF PageOf
    <3> QED BY <1>1, <3>3
  <2> QED BY <2>1, <2>2 DEF PagesApart
<1> QED BY <1>1, <1>2

\* A step of thread t on file f.
LEMMA IntactStep ==
    ASSUME HandlesKnown, Intact, NEW t \in Threads, NEW l, NEW r, Moved(t, l, r), NEW f \in Fhs,
           \A g \in Fhs : g # f => fmeta'[g] = fmeta[g] /\ disk_fmeta'[g] = disk_fmeta[g],
           \A u \in Threads : u # t => loc[u].fh # f,
           pc[t] = "create_write" => loc[t].fh = f,
           disk_fmeta'[f].ok, fmeta'[f].ok \/ (l = "create_write" /\ r.fh = f),
           l = "create_write" => r.fh = f /\ ~disk_fmeta'[f].used
    PROVE  Intact'
<1>1. TypeOK /\ LocalsSet BY DEF HandlesKnown
<1>2. /\ pc'[t] = l /\ loc'[t] = r
      /\ \A u \in Threads : u # t => pc'[u] = pc[u] /\ loc'[u] = loc[u]
  BY <1>1, OthersKept
<1>3. ASSUME NEW g \in Fhs PROVE disk_fmeta'[g].ok /\ (fmeta'[g].ok \/ Unwritten(g)')
  <2>1. CASE g = f BY <1>2, <2>1 DEF Unwritten
  <2>2. CASE g # f
    <3>1. Unwritten(g) => Unwritten(g)' BY <1>2, <2>2 DEF Unwritten
    <3> QED BY <2>2, <3>1 DEF Intact
  <2> QED BY <2>1, <2>2
<1>4. ASSUME NEW u \in Threads, pc'[u] = "create_write" PROVE ~disk_fmeta'[loc'[u].fh].used
  <2>1. CASE u = t BY <1>2, <1>4, <2>1
  <2>2. CASE u # t
    <3>1. pc[u] = "create_write" /\ loc'[u] = loc[u] BY <1>2, <1>4, <2>2
    <3>2. loc[u].fh \in Fhs BY <1>1, <3>1 DEF LocalsSet, Fit
    <3> QED BY <2>2, <3>1, <3>2 DEF Intact
  <2> QED BY <2>1, <2>2
<1> QED BY <1>3, <1>4 DEF Intact

\* A page write of file f by thread t, which is not about to write another.
LEMMA IntactWrite ==
    ASSUME HandlesKnown, Intact, NEW t \in Threads, NEW l, NEW r, Moved(t, l, r), NEW f \in Fhs,
           \A g \in Fhs : g # f => fmeta'[g] = fmeta[g] /\ disk_fmeta'[g] = disk_fmeta[g],
           \A u \in Threads : u # t => loc[u].fh # f, pc[t] = "idle" \/ loc[t].fh = f,
           fmeta'[f].ok, disk_fmeta'[f] = fmeta'[f], l # "create_write"
    PROVE  Intact'
<1>1. pc[t] = "create_write" => loc[t].fh = f OBVIOUS
<1>2. disk_fmeta'[f].ok OBVIOUS
<1> QED BY <1>1, <1>2, IntactStep

\* CreateFile claims a meta, in memory only.
LEMMA CreateNewIntact ==
    ASSUME HandlesKnown, Synced, Intact, NEW t \in Threads, NEW n \in Names, CreateNew(t, n)
    PROVE  Intact'
<1>1. PICK f : f = Head(free_fhs) OBVIOUS
<1>2. PICK r : r = [loc[t] EXCEPT !.name = n, !.fh = f] OBVIOUS
<1>3. TypeOK /\ HandlesOwned /\ free_fhs # <<>> BY DEF HandlesKnown, CreateNew
<1>4. f \in Fhs /\ \A u \in Threads : loc[u].fh # f BY <1>1, <1>3, HeadFree
<1>5. Moved(t, "create_write", r) /\ r.fh = f
  BY <1>1, <1>2, <1>3 DEF CreateNew, Goto, Moved, TypeOK, Loc
<1>6. /\ status = "up" /\ pc[t] = "idle" /\ UNCHANGED disk_fmeta /\ ~fmeta[f].used
  BY <1>1 DEF CreateNew, Start, FreeMetaValid, disk
<1>7. disk_fmeta[f] = fmeta[f] BY <1>4, <1>6, OnDevice
<1>8. \A g \in Fhs : g # f => fmeta'[g] = fmeta[g]
  BY <1>1, <1>3, <1>4 DEF CreateNew, TypeOK
<1>9. disk_fmeta'[f].ok BY <1>4, <1>6 DEF Intact
<1> QED BY <1>4, <1>5, <1>6, <1>7, <1>8, <1>9, IntactStep

\* What a page write of file f by thread t leaves on the device.
Wrote(t, f) ==
    /\ f \in Fhs /\ \A g \in Fhs : g # f => disk_fmeta'[g] = disk_fmeta[g]
    /\ Intact'

\* CreateFile persists it.
LEMMA CreateWrites ==
    ASSUME PagesApart, HandlesKnown, Synced, Plain, MetasUsed, Intact,
           NEW t \in Threads, CreateWrite(t, TRUE)
    PROVE  /\ Wrote(t, loc[t].fh) /\ loc[t].name \in Names
           /\ ~disk_fmeta[loc[t].fh].used /\ disk_fmeta'[loc[t].fh].used
           /\ disk_fmeta'[loc[t].fh].name = loc[t].name /\ disk_fmeta'[loc[t].fh].size = 0
<1>1. PICK c : c = loc[t] OBVIOUS
<1>2. PICK f : f = c.fh OBVIOUS
<1>3. TypeOK /\ pc[t] = "create_write" BY DEF HandlesKnown, CreateWrite, At
<1>4. /\ f \in Fhs /\ status = "up" /\ c.name \in Names
      /\ \A u \in Threads : u # t => loc[u].fh # f
  BY <1>1, <1>2, <1>3, Alone
<1>5. Moved(t, "create_add", c) BY <1>1, <1>3 DEF CreateWrite, Goto, Moved, TypeOK
<1>6. WriteMeta(fmeta, f, TRUE) BY <1>1, <1>2 DEF CreateWrite
<1>7. fmeta \in [Fhs -> FileMeta] /\ fmeta[f] \in FileMeta BY <1>3, <1>4 DEF TypeOK
<1>8. /\ fmeta'[f] = [fmeta[f] EXCEPT !.ok = TRUE] /\ disk_fmeta'[f] = fmeta'[f]
      /\ \A g \in Fhs : g # f => fmeta'[g] = fmeta[g] /\ disk_fmeta'[g] = disk_fmeta[g]
  BY <1>1, <1>2, <1>3, <1>4, <1>6, <1>7, PageAlone
<1>9. /\ fmeta'[f].ok /\ fmeta'[f].name = fmeta[f].name /\ fmeta'[f].size = fmeta[f].size
      /\ fmeta'[f].used = fmeta[f].used
  BY <1>7, <1>8 DEF FileMeta
<1>10. NamesAt("create_write", c) /\ UsedAt("create_write", c)
  BY <1>1, <1>3, <1>4 DEF Synced, NamesKnown, MetasUsed, HeldUsed
<1>11. fmeta[f].name = c.name /\ fmeta[f].size = 0 /\ fmeta[f].used
  BY <1>2, <1>10 DEF NamesAt, Creating, UsedAt, Cleared
<1>12. ~disk_fmeta[f].used BY <1>1, <1>2, <1>3 DEF Intact
<1>13. Intact'
  <2>1. f \in Fhs /\ loc[t].fh = f /\ fmeta'[f].ok /\ disk_fmeta'[f] = fmeta'[f]
    BY <1>1, <1>2, <1>4, <1>8, <1>9
  <2>2. \A g \in Fhs : g # f => fmeta'[g] = fmeta[g] /\ disk_fmeta'[g] = disk_fmeta[g] BY <1>8
  <2>3. \A u \in Threads : u # t => loc[u].fh # f BY <1>4
  <2>4. "create_add" # "create_write" OBVIOUS
  <2> QED BY <1>5, <2>1, <2>2, <2>3, <2>4, IntactWrite
<1> QED BY <1>1, <1>2, <1>4, <1>8, <1>9, <1>11, <1>12, <1>13 DEF Wrote

\* ExtendFile persists the size.
LEMMA ExtendWrites ==
    ASSUME PagesApart, HandlesKnown, Synced, Plain, MetasUsed, Intact,
           NEW t \in Threads, ExtendSize(t, TRUE)
    PROVE  /\ Wrote(t, loc[t].fh) /\ loc[t].name \in Names /\ loc[t].off \in Offsets
           /\ disk_fmeta[loc[t].fh].used /\ disk_fmeta'[loc[t].fh].used
           /\ disk_fmeta[loc[t].fh].name = loc[t].name /\ disk_fmeta'[loc[t].fh].name = loc[t].name
           /\ disk_fmeta'[loc[t].fh].size = loc[t].off
<1>1. PICK c : c = loc[t] OBVIOUS
<1>2. PICK f : f = c.fh OBVIOUS
<1>3. pc[t] = "extend_size" /\ pc[t] \in ExtendPcs BY DEF ExtendSize, At, ExtendPcs
<1>4. /\ f \in Fhs /\ status = "up" /\ TypeOK /\ fmeta[f] \in FileMeta /\ c.name \in Names
      /\ fmeta[f].name = c.name /\ disk_fmeta[f] = fmeta[f]
      /\ \A u \in Threads : u # t => loc[u].fh # f
  BY <1>1, <1>2, <1>3, HasFile
<1>5. PICK fm : fm = [fmeta EXCEPT ![f].size = c.off] OBVIOUS
<1>6. WriteMeta(fm, f, TRUE) /\ Moved(t, "idle", NoLoc)
  BY <1>1, <1>2, <1>5, ReturnMoved DEF ExtendSize
<1>7. c.off \in Nat /\ c.off \in Offsets
  BY <1>1, <1>3, <1>4 DEF TypeOK, Loc, Plain, PlainAt
<1>8. fm \in [Fhs -> FileMeta] BY <1>4, <1>5, <1>7, SizeSetType
<1>9. /\ fm[f] = [fmeta[f] EXCEPT !.size = c.off] /\ \A g \in Fhs : g # f => fm[g] = fmeta[g]
  BY <1>4, <1>5 DEF TypeOK
<1>10. /\ fmeta'[f] = [fm[f] EXCEPT !.ok = TRUE] /\ disk_fmeta'[f] = fmeta'[f]
       /\ \A g \in Fhs : g # f => fmeta'[g] = fmeta[g] /\ disk_fmeta'[g] = disk_fmeta[g]
  <2>1. pc[t] # "create_write" /\ f \in Fhs /\ status = "up" /\ TypeOK BY <1>3, <1>4
  <2>2. \A g \in Fhs : g # f => fm[g] = fmeta[g] BY <1>9
  <2>3. WriteMeta(fm, f, TRUE) BY <1>6
  <2> QED BY <1>8, <2>1, <2>2, <2>3, PageAlone
<1>11. /\ fmeta'[f].ok /\ fmeta'[f].name = c.name /\ fmeta'[f].size = c.off
       /\ fmeta'[f].used = fmeta[f].used
  BY <1>4, <1>9, <1>10 DEF FileMeta
<1>12. fmeta[f].used
  <2>1. UsedAt("extend_size", c) BY <1>1, <1>3 DEF MetasUsed, HeldUsed
  <2> QED BY <1>2, <2>1 DEF UsedAt, Cleared
<1>13. Intact'
  <2>1. f \in Fhs /\ loc[t].fh = f /\ fmeta'[f].ok /\ disk_fmeta'[f] = fmeta'[f]
    BY <1>1, <1>2, <1>4, <1>10, <1>11
  <2>2. \A g \in Fhs : g # f => fmeta'[g] = fmeta[g] /\ disk_fmeta'[g] = disk_fmeta[g] BY <1>10
  <2>3. \A u \in Threads : u # t => loc[u].fh # f BY <1>4
  <2>4. Moved(t, "idle", NoLoc) /\ "idle" # "create_write" BY <1>6
  <2> QED BY <2>1, <2>2, <2>3, <2>4, IntactWrite
<1> QED BY <1>1, <1>2, <1>4, <1>7, <1>10, <1>11, <1>12, <1>13 DEF Wrote

\* unlink clears the meta.
LEMMA UnlinkWrites ==
    ASSUME PagesApart, HandlesKnown, Synced, Plain, MetasUsed, Intact,
           NEW t \in Threads, UnlinkMeta(t, TRUE)
    PROVE  /\ Wrote(t, loc[t].fh) /\ loc[t].name \in Names
           /\ disk_fmeta[loc[t].fh].used /\ ~disk_fmeta'[loc[t].fh].used
           /\ disk_fmeta[loc[t].fh].name = loc[t].name
<1>1. PICK c : c = loc[t] OBVIOUS
<1>2. PICK f : f = c.fh OBVIOUS
<1>3. pc[t] = "unlink_meta" /\ pc[t] \in UnlinkPcs BY DEF UnlinkMeta, At, UnlinkPcs
<1>4. /\ f \in Fhs /\ status = "up" /\ TypeOK /\ fmeta[f] \in FileMeta /\ c.name \in Names
      /\ fmeta[f].name = c.name /\ disk_fmeta[f] = fmeta[f]
      /\ \A u \in Threads : u # t => loc[u].fh # f
  BY <1>1, <1>2, <1>3, HasFile
<1>5. PICK fm : fm = [fmeta EXCEPT ![f] = ClearMeta(@)] OBVIOUS
<1>6. WriteMeta(fm, f, TRUE) /\ Moved(t, "unlink_names", c)
  BY <1>1, <1>2, <1>4, <1>5 DEF UnlinkMeta, Goto, Moved, TypeOK
<1>7. fm \in [Fhs -> FileMeta] BY <1>4, <1>5, ClearMetaType
<1>8. fm[f] = ClearMeta(fmeta[f]) /\ \A g \in Fhs : g # f => fm[g] = fmeta[g]
  BY <1>4, <1>5 DEF TypeOK
<1>9. /\ fmeta'[f] = [fm[f] EXCEPT !.ok = TRUE] /\ disk_fmeta'[f] = fmeta'[f]
      /\ \A g \in Fhs : g # f => fmeta'[g] = fmeta[g] /\ disk_fmeta'[g] = disk_fmeta[g]
  <2>1. pc[t] # "create_write" /\ f \in Fhs /\ status = "up" /\ TypeOK BY <1>3, <1>4
  <2>2. \A g \in Fhs : g # f => fm[g] = fmeta[g] BY <1>8
  <2>3. WriteMeta(fm, f, TRUE) BY <1>6
  <2> QED BY <1>7, <2>1, <2>2, <2>3, PageAlone
<1>10. fmeta'[f].ok /\ ~fmeta'[f].used BY <1>4, <1>8, <1>9 DEF FileMeta, ClearMeta
<1>11. fmeta[f].used
  <2>1. UsedAt("unlink_meta", c) BY <1>1, <1>3 DEF MetasUsed, HeldUsed
  <2> QED BY <1>2, <2>1 DEF UsedAt, Cleared
<1>12. Intact'
  <2>1. f \in Fhs /\ loc[t].fh = f /\ fmeta'[f].ok /\ disk_fmeta'[f] = fmeta'[f]
    BY <1>1, <1>2, <1>4, <1>9, <1>10
  <2>2. \A g \in Fhs : g # f => fmeta'[g] = fmeta[g] /\ disk_fmeta'[g] = disk_fmeta[g] BY <1>9
  <2>3. \A u \in Threads : u # t => loc[u].fh # f BY <1>4
  <2>4. Moved(t, "unlink_names", c) /\ "unlink_names" # "create_write" BY <1>6
  <2> QED BY <2>1, <2>2, <2>3, <2>4, IntactWrite
<1> QED BY <1>1, <1>2, <1>4, <1>9, <1>10, <1>11, <1>12 DEF Wrote

\* rename persists the name.
LEMMA RenameWrites ==
    ASSUME PagesApart, HandlesKnown, Synced, Plain, MetasUsed, Intact,
           NEW t \in Threads, NEW n \in Names, NEW m \in Names, RenameFile(t, n, m, TRUE)
    PROVE  /\ Wrote(t, created_files[n]) /\ n # m
           /\ disk_fmeta[created_files[n]].used /\ disk_fmeta'[created_files[n]].used
           /\ disk_fmeta[created_files[n]].name = n /\ disk_fmeta'[created_files[n]].name = m
           /\ disk_fmeta'[created_files[n]].size = disk_fmeta[created_files[n]].size
<1>1. PICK f : f = created_files[n] OBVIOUS
<1>2. /\ status = "up" /\ Free(n) /\ f # None /\ created_files[m] = None
      /\ pc[t] = "idle" /\ UNCHANGED <<pc, loc>> /\ n # m
  BY <1>1 DEF RenameFile, Start
<1>3. /\ f \in Fhs /\ fmeta[f] \in FileMeta /\ fmeta[f].name = n /\ disk_fmeta[f] = fmeta[f]
      /\ \A u \in Threads : loc[u].fh # f
  BY <1>1, <1>2, SettledSynced
<1>4. TypeOK BY DEF HandlesKnown
<1>5. PICK fm : fm = [fmeta EXCEPT ![f].name = m] OBVIOUS
<1>6. WriteMeta(fm, f, TRUE) BY <1>1, <1>5 DEF RenameFile
<1>7. fm \in [Fhs -> FileMeta] BY <1>3, <1>4, <1>5 DEF TypeOK, FileMeta
<1>8. fm[f] = [fmeta[f] EXCEPT !.name = m] /\ \A g \in Fhs : g # f => fm[g] = fmeta[g]
  BY <1>3, <1>4, <1>5 DEF TypeOK
<1>9. /\ fmeta'[f] = [fm[f] EXCEPT !.ok = TRUE] /\ disk_fmeta'[f] = fmeta'[f]
      /\ \A g \in Fhs : g # f => fmeta'[g] = fmeta[g] /\ disk_fmeta'[g] = disk_fmeta[g]
  <2>1. pc[t] # "create_write" /\ f \in Fhs /\ status = "up" BY <1>2, <1>3
  <2>2. \A g \in Fhs : g # f => fm[g] = fmeta[g] BY <1>8
  <2> QED BY <1>4, <1>6, <1>7, <2>1, <2>2, PageAlone
<1>10. /\ fmeta'[f].ok /\ fmeta'[f].name = m /\ fmeta'[f].size = fmeta[f].size
       /\ fmeta'[f].used = fmeta[f].used
  BY <1>3, <1>8, <1>9 DEF FileMeta
<1>11. fmeta[f].used BY <1>1, <1>2, SettledUsed
<1>12. Moved(t, "idle", NoLoc) BY <1>2, StaysIdle
<1>13. Intact'
  <2>1. f \in Fhs /\ pc[t] = "idle" /\ fmeta'[f].ok /\ disk_fmeta'[f] = fmeta'[f]
    BY <1>2, <1>3, <1>9, <1>10
  <2>2. \A g \in Fhs : g # f => fmeta'[g] = fmeta[g] /\ disk_fmeta'[g] = disk_fmeta[g] BY <1>9
  <2>3. \A u \in Threads : u # t => loc[u].fh # f BY <1>3
  <2>4. "idle" # "create_write" OBVIOUS
  <2> QED BY <1>12, <2>1, <2>2, <2>3, <2>4, IntactWrite
<1> QED BY <1>1, <1>2, <1>3, <1>9, <1>10, <1>11, <1>13 DEF Wrote

\* A step that writes no FileMeta.
MetasQuiet(t) ==
    \/ CreateAdd(t) \/ UnlinkNames(t) \/ ExtendBlocks(t) \/ ExtendFb(t, TRUE) \/ UnlinkFb(t, TRUE)
    \/ \E n \in Names : UnlinkStart(t, n)
    \/ \E n \in Names, off \in Offsets : ExtendStart(t, n, off)

\* Such a step.
LEMMA QuietIntact ==
    ASSUME TypeOK, Intact, NEW t \in Threads, MetasQuiet(t)
    PROVE  Intact' /\ UNCHANGED disk_fmeta
<1>1. UNCHANGED <<fmeta, disk_fmeta>>
  BY DEF MetasQuiet, CreateAdd, UnlinkNames, ExtendBlocks, ExtendFb, UnlinkFb, UnlinkStart,
         ExtendStart, disk
<1>2. pc[t] # "create_write" /\ pc'[t] # "create_write"
      /\ \A u \in Threads : u # t => pc'[u] = pc[u]
  BY DEF TypeOK, MetasQuiet, CreateAdd, UnlinkNames, ExtendBlocks, ExtendFb, UnlinkFb,
         UnlinkStart, ExtendStart, Start, At, Goto, Return
<1>3. \A u \in Threads : u # t => loc'[u] = loc[u]
  BY DEF TypeOK, MetasQuiet, CreateAdd, UnlinkNames, ExtendBlocks, ExtendFb, UnlinkFb,
         UnlinkStart, ExtendStart, Return
<1>4. \A f \in Fhs : Unwritten(f) => Unwritten(f)' BY <1>2, <1>3 DEF Unwritten
<1>5. \A f \in Fhs : disk_fmeta'[f].ok /\ (fmeta'[f].ok \/ Unwritten(f)')
  BY <1>1, <1>4 DEF Intact
<1>6. \A u \in Threads : pc'[u] = "create_write" => ~disk_fmeta'[loc'[u].fh].used
  BY <1>1, <1>2, <1>3 DEF Intact
<1> QED BY <1>1, <1>5, <1>6 DEF Intact

\* A mount and a crash.
LEMMA RestartIntact ==
    ASSUME HandlesKnown, Intact, Mount \/ Crash
    PROVE  Intact' /\ UNCHANGED disk_fmeta
<1>1. UNCHANGED disk_fmeta BY DEF Mount, Crash, disk
<1>2. \A f \in Fhs : fmeta'[f].ok
  BY DEF Mount, Crash, ProcessEnds, Intact, FreshFile
<1>3. \A t \in Threads : pc'[t] = "idle"
  BY DEF Mount, Crash, ProcessEnds, HandlesKnown, HandlesOwned, IdleHoldsNothing
<1> QED BY <1>1, <1>2, <1>3 DEF Intact

\* The steps of a thread that write no FileMeta to the device, and those that do.
LEMMA ActsSplit ==
    ASSUME NEW t \in Threads, Acts(t)
    PROVE  \/ MetasQuiet(t) \/ \E n \in Names : CreateNew(t, n)
           \/ CreateWrite(t, TRUE) \/ ExtendSize(t, TRUE) \/ UnlinkMeta(t, TRUE)
           \/ \E n, m \in Names : RenameFile(t, n, m, TRUE)
BY DEF Acts, MetasQuiet

\* The metas stay intact in every state.
LEMMA IntactInvariant ==
    ASSUME NoShrink, PagesApart PROVE Spec => [](failures = 0 => Intact)
<1> DEFINE Inv == failures = 0 => Intact
<1> DEFINE Sync == failures = 0 => Synced
<1> DEFINE Used == failures = 0 => MetasUsed
<1>1. Init => Inv BY DEF Init, Intact, FreshFile
<1>2. HandlesKnown /\ Used /\ Plain /\ Sync /\ Inv /\ [Next]_vars => Inv'
  <2> SUFFICES ASSUME HandlesKnown, Used, Plain, Sync, Inv, [Next]_vars, failures' = 0
               PROVE  Intact'
    OBVIOUS
  <2>1. TypeOK BY DEF HandlesKnown
  <2>2. failures = 0 /\ (Mount \/ Crash \/ UNCHANGED vars \/ \E t \in Threads : Acts(t))
    BY <2>1, PlainNext
  <2>3. Intact /\ Synced /\ MetasUsed BY <2>2
  <2>4. CASE UNCHANGED vars
    <3>1. UNCHANGED <<fmeta, disk_fmeta, pc, loc>> BY <2>4 DEF vars, memory, disk
    <3> QED BY <2>3, <3>1 DEF Intact, Unwritten
  <2>5. ASSUME NEW t \in Threads, Acts(t) PROVE Intact'
    <3>1. CASE CreateWrite(t, TRUE) BY <2>3, <3>1, CreateWrites DEF Wrote
    <3>2. CASE ExtendSize(t, TRUE) BY <2>3, <3>2, ExtendWrites DEF Wrote
    <3>3. CASE UnlinkMeta(t, TRUE) BY <2>3, <3>3, UnlinkWrites DEF Wrote
    <3>4. CASE \E n, m \in Names : RenameFile(t, n, m, TRUE)
      BY <2>3, <3>4, RenameWrites DEF Wrote
    <3>5. CASE \E n \in Names : CreateNew(t, n) BY <2>3, <3>5, CreateNewIntact
    <3>6. CASE MetasQuiet(t) BY <2>1, <2>3, <3>6, QuietIntact
    <3> QED BY <2>5, <3>1, <3>2, <3>3, <3>4, <3>5, <3>6, ActsSplit
  <2>6. CASE Mount \/ Crash BY <2>3, <2>6, RestartIntact
  <2> QED BY <2>2, <2>4, <2>5, <2>6
<1> HIDE DEF Inv, Sync, Used
<1>3. Spec => []Sync BY SyncedInvariant DEF Sync
<1>4. Spec => []Used
  <2>1. HandlesKnown /\ (failures = 0 => MetasUsed) => Used BY DEF Used
  <2> QED BY <2>1, MetasInvariant, PTL
<1>5. Spec => []Inv BY <1>1, <1>2, <1>3, <1>4, HandlesInvariant, PlainInvariant, PTL DEF Spec
<1> QED BY <1>5 DEF Inv

-----------------------------------------------------------------------------
(* Operations are atomic on the device *)

\* What the device says of the names: the size of the one file with the name.
TableKnown ==
    /\ DiskNamed
    /\ \A f \in UsedFhs : DiskTable[disk_fmeta[f].name] = disk_fmeta[f].size
    /\ \A n \in Names : (\A f \in UsedFhs : disk_fmeta[f].name # n) => DiskTable[n] = None

\* That follows from the names and the metas.
LEMMA TableFound ==
    ASSUME HandlesKnown, Synced, Plain
    PROVE  TableKnown
<1>1. DiskNamed /\ NoChildren BY AlwaysNamed DEF Synced
<1>2. ASSUME NEW f \in UsedFhs PROVE DiskTable[disk_fmeta[f].name] = disk_fmeta[f].size
  <2>1. f \in Fhs /\ f # None BY HandleNotNone DEF UsedFhs
  <2>2. PICK n \in Names : n = disk_fmeta[f].name BY <1>1 DEF DiskNamed
  <2>3. LoadedFile(n) = f BY <1>1, <2>2, LoadedOne
  <2> QED BY <2>1, <2>2, <2>3 DEF DiskTable
<1>3. ASSUME NEW n \in Names, \A f \in UsedFhs : disk_fmeta[f].name # n PROVE DiskTable[n] = None
  <2>1. LoadedFile(n) = None BY <1>3, LoadedNone
  <2> QED BY <2>1 DEF DiskTable
<1> QED BY <1>1, <1>2, <1>3 DEF TableKnown

\* A step that changes one meta on the device changes the entries of its names only, and takes
\* no name that another file has.
LEMMA TableStep ==
    ASSUME TableKnown, TableKnown', NEW f \in Fhs,
           \A g \in Fhs : g # f => disk_fmeta'[g] = disk_fmeta[g]
    PROVE  /\ \A n \in Names : /\ disk_fmeta[f].used => disk_fmeta[f].name # n
                               /\ disk_fmeta'[f].used => disk_fmeta'[f].name # n
                               => DiskTable'[n] = DiskTable[n]
           /\ disk_fmeta[f].used => DiskTable[disk_fmeta[f].name] = disk_fmeta[f].size
           /\ disk_fmeta'[f].used => DiskTable'[disk_fmeta'[f].name] = disk_fmeta'[f].size
           /\ disk_fmeta[f].used /\ (disk_fmeta'[f].used => disk_fmeta'[f].name # disk_fmeta[f].name)
                => DiskTable'[disk_fmeta[f].name] = None
           /\ disk_fmeta'[f].used /\ (disk_fmeta[f].used => disk_fmeta'[f].name # disk_fmeta[f].name)
                => DiskTable[disk_fmeta'[f].name] = None
<1>1. \A g \in Fhs : (g \in UsedFhs <=> disk_fmeta[g].used) /\ (g \in UsedFhs' <=> disk_fmeta'[g].used)
  BY DEF UsedFhs
<1>2. UsedFhs \subseteq Fhs /\ UsedFhs' \subseteq Fhs BY DEF UsedFhs
<1>3. /\ \A g \in UsedFhs : g # f => g \in UsedFhs' /\ disk_fmeta'[g] = disk_fmeta[g]
      /\ \A g \in UsedFhs' : g # f => g \in UsedFhs /\ disk_fmeta'[g] = disk_fmeta[g]
  BY <1>1, <1>2
<1>4. ASSUME NEW n \in Names, disk_fmeta[f].used => disk_fmeta[f].name # n,
             disk_fmeta'[f].used => disk_fmeta'[f].name # n
      PROVE  DiskTable'[n] = DiskTable[n]
  <2>1. CASE \E g \in UsedFhs : disk_fmeta[g].name = n
    <3>1. PICK g \in UsedFhs : disk_fmeta[g].name = n BY <2>1
    <3>2. g # f /\ g \in UsedFhs' /\ disk_fmeta'[g] = disk_fmeta[g] BY <1>1, <1>2, <1>3, <1>4, <3>1
    <3>3. DiskTable[n] = disk_fmeta[g].size BY <3>1 DEF TableKnown
    <3>4. DiskTable'[disk_fmeta'[g].name] = disk_fmeta'[g].size BY <3>2 DEF TableKnown
    <3> QED BY <3>1, <3>2, <3>3, <3>4
  <2>2. CASE \A g \in UsedFhs : disk_fmeta[g].name # n
    <3>1. \A g \in UsedFhs' : disk_fmeta'[g].name # n BY <1>1, <1>2, <1>3, <1>4, <2>2
    <3>2. DiskTable[n] = None BY <2>2 DEF TableKnown
    <3>3. DiskTable'[n] = None BY <3>1 DEF TableKnown
    <3> QED BY <3>2, <3>3
  <2> QED BY <2>1, <2>2
<1>5. disk_fmeta[f].used => DiskTable[disk_fmeta[f].name] = disk_fmeta[f].size
  BY <1>1 DEF TableKnown
<1>6. disk_fmeta'[f].used => DiskTable'[disk_fmeta'[f].name] = disk_fmeta'[f].size
  BY <1>1 DEF TableKnown
<1>7. ASSUME disk_fmeta[f].used, disk_fmeta'[f].used => disk_fmeta'[f].name # disk_fmeta[f].name
      PROVE  DiskTable'[disk_fmeta[f].name] = None
  <2>1. PICK n \in Names : n = disk_fmeta[f].name BY <1>1, <1>7 DEF TableKnown, DiskNamed
  <2>2. \A g \in UsedFhs : g # f => disk_fmeta[g].name # n
    BY <1>1, <1>7, <2>1 DEF TableKnown, DiskNamed
  <2>3. \A g \in UsedFhs' : disk_fmeta'[g].name # n BY <1>1, <1>3, <1>7, <2>1, <2>2
  <2> QED BY <2>1, <2>3 DEF TableKnown
<1>8. ASSUME disk_fmeta'[f].used, disk_fmeta[f].used => disk_fmeta'[f].name # disk_fmeta[f].name
      PROVE  DiskTable[disk_fmeta'[f].name] = None
  <2>1. PICK n \in Names : n = disk_fmeta'[f].name BY <1>1, <1>8 DEF TableKnown, DiskNamed
  <2>2. \A g \in UsedFhs' : g # f => disk_fmeta'[g].name # n
    BY <1>1, <1>8, <2>1 DEF TableKnown, DiskNamed
  <2>3. \A g \in UsedFhs : disk_fmeta[g].name # n BY <1>1, <1>3, <1>8, <2>1, <2>2
  <2> QED BY <2>1, <2>3 DEF TableKnown
<1> QED BY <1>4, <1>5, <1>6, <1>7, <1>8

\* The table has an entry for every name.
LEMMA TableType == DiskTable = [n \in Names |-> DiskTable[n]]
                   /\ DiskTable' = [n \in Names |-> DiskTable'[n]]
BY DEF DiskTable

\* A meta that becomes used on the device: the name had no file, and has an empty one now.
LEMMA CreateAtomic ==
    ASSUME TableKnown, TableKnown', NEW f \in Fhs, NEW n \in Names,
           \A g \in Fhs : g # f => disk_fmeta'[g] = disk_fmeta[g],
           ~disk_fmeta[f].used, disk_fmeta'[f].used, disk_fmeta'[f].name = n,
           disk_fmeta'[f].size = 0
    PROVE  DurableNames!Create(n)
<1>1. DiskTable[n] = None /\ DiskTable'[n] = 0 /\ \A m \in Names : m # n => DiskTable'[m] = DiskTable[m]
  BY TableStep
<1>2. DiskTable' = [DiskTable EXCEPT ![n] = 0] BY <1>1, TableType
<1> QED BY <1>1, <1>2 DEF DurableNames!Create

\* A meta that changes its size.
LEMMA TruncateAtomic ==
    ASSUME TableKnown, TableKnown', NEW f \in Fhs, NEW n \in Names, NEW off \in Offsets,
           \A g \in Fhs : g # f => disk_fmeta'[g] = disk_fmeta[g],
           disk_fmeta[f].used, disk_fmeta'[f].used, disk_fmeta[f].size \in Nat,
           disk_fmeta[f].name = n, disk_fmeta'[f].name = n, disk_fmeta'[f].size = off
    PROVE  DurableNames!Truncate(n, off)
<1>1. DiskTable[n] = disk_fmeta[f].size /\ DiskTable'[n] = off
      /\ \A m \in Names : m # n => DiskTable'[m] = DiskTable[m]
  BY TableStep
<1>2. DiskTable[n] # None BY <1>1 DEF None
<1>3. DiskTable' = [DiskTable EXCEPT ![n] = off] BY <1>1, TableType
<1> QED BY <1>2, <1>3 DEF DurableNames!Truncate

\* A meta that is not used any more.
LEMMA UnlinkAtomic ==
    ASSUME TableKnown, TableKnown', NEW f \in Fhs, NEW n \in Names,
           \A g \in Fhs : g # f => disk_fmeta'[g] = disk_fmeta[g],
           disk_fmeta[f].used, ~disk_fmeta'[f].used, disk_fmeta[f].size \in Nat,
           disk_fmeta[f].name = n
    PROVE  DurableNames!Unlink(n)
<1>1. DiskTable[n] = disk_fmeta[f].size /\ DiskTable'[n] = None
      /\ \A m \in Names : m # n => DiskTable'[m] = DiskTable[m]
  BY TableStep
<1>2. DiskTable[n] # None BY <1>1 DEF None
<1>3. DiskTable' = [DiskTable EXCEPT ![n] = None] BY <1>1, TableType
<1> QED BY <1>2, <1>3 DEF DurableNames!Unlink

\* A meta that changes its name.
LEMMA RenameAtomic ==
    ASSUME TableKnown, TableKnown', NEW f \in Fhs, NEW n \in Names, NEW m \in Names, n # m,
           \A g \in Fhs : g # f => disk_fmeta'[g] = disk_fmeta[g],
           disk_fmeta[f].used, disk_fmeta'[f].used, disk_fmeta[f].size \in Nat,
           disk_fmeta[f].name = n, disk_fmeta'[f].name = m,
           disk_fmeta'[f].size = disk_fmeta[f].size
    PROVE  DurableNames!Rename(n, m)
<1>1. DiskTable[n] = disk_fmeta[f].size /\ DiskTable'[m] = disk_fmeta[f].size
      /\ DiskTable'[n] = None /\ DiskTable[m] = None
      /\ \A k \in Names : k # n /\ k # m => DiskTable'[k] = DiskTable[k]
  BY TableStep
<1>2. DiskTable[n] # None BY <1>1 DEF None
<1>3. DiskTable' = [DiskTable EXCEPT ![n] = None, ![m] = DiskTable[n]] BY <1>1, TableType
<1> QED BY <1>1, <1>2, <1>3 DEF DurableNames!Rename

\* A step that leaves the FileMetas on the device alone.
LEMMA QuietAtomic ==
    ASSUME UNCHANGED disk_fmeta PROVE UNCHANGED DiskTable
BY DEF DiskTable, LoadedFile, Last, NamedFhs, UsedFhs

\* Every step is one operation on the table, or none.
LEMMA AtomicStep ==
    ASSUME NoShrink, PagesApart, HandlesKnown, Plain, Synced, MetasUsed, Intact,
           TableKnown, TableKnown', [Next]_vars, failures' = 0
    PROVE  [DurableNames!Next]_DiskTable
<1>1. TypeOK BY DEF HandlesKnown
<1>2. Mount \/ Crash \/ UNCHANGED vars \/ \E t \in Threads : Acts(t) BY <1>1, PlainNext
<1>3. \A f \in Fhs : disk_fmeta[f].size \in Nat BY <1>1 DEF TypeOK, FileMeta
<1>4. CASE UNCHANGED disk_fmeta BY <1>4, QuietAtomic
<1>5. ASSUME NEW t \in Threads, CreateWrite(t, TRUE) PROVE DurableNames!Next
  <2>1. PICK f, n : f = loc[t].fh /\ n = loc[t].name OBVIOUS
  <2>2. /\ f \in Fhs /\ n \in Names /\ \A g \in Fhs : g # f => disk_fmeta'[g] = disk_fmeta[g]
        /\ ~disk_fmeta[f].used /\ disk_fmeta'[f].used /\ disk_fmeta'[f].name = n
        /\ disk_fmeta'[f].size = 0
    BY <1>5, <2>1, CreateWrites DEF Wrote
  <2>3. DurableNames!Create(n) BY <2>2, CreateAtomic
  <2> QED BY <2>2, <2>3 DEF DurableNames!Next
<1>6. ASSUME NEW t \in Threads, ExtendSize(t, TRUE) PROVE DurableNames!Next
  <2>1. PICK f, n, off : f = loc[t].fh /\ n = loc[t].name /\ off = loc[t].off OBVIOUS
  <2>2. /\ f \in Fhs /\ n \in Names /\ off \in Offsets
        /\ \A g \in Fhs : g # f => disk_fmeta'[g] = disk_fmeta[g]
        /\ disk_fmeta[f].used /\ disk_fmeta'[f].used /\ disk_fmeta[f].name = n
        /\ disk_fmeta'[f].name = n /\ disk_fmeta'[f].size = off
    BY <1>6, <2>1, ExtendWrites DEF Wrote
  <2>3. DurableNames!Truncate(n, off) BY <1>3, <2>2, TruncateAtomic
  <2> QED BY <2>2, <2>3 DEF DurableNames!Next
<1>7. ASSUME NEW t \in Threads, UnlinkMeta(t, TRUE) PROVE DurableNames!Next
  <2>1. PICK f, n : f = loc[t].fh /\ n = loc[t].name OBVIOUS
  <2>2. /\ f \in Fhs /\ n \in Names /\ \A g \in Fhs : g # f => disk_fmeta'[g] = disk_fmeta[g]
        /\ disk_fmeta[f].used /\ ~disk_fmeta'[f].used /\ disk_fmeta[f].name = n
    BY <1>7, <2>1, UnlinkWrites DEF Wrote
  <2>3. DurableNames!Unlink(n) BY <1>3, <2>2, UnlinkAtomic
  <2> QED BY <2>2, <2>3 DEF DurableNames!Next
<1>8. ASSUME NEW t \in Threads, NEW n \in Names, NEW m \in Names, RenameFile(t, n, m, TRUE)
      PROVE  DurableNames!Next
  <2>1. PICK f : f = created_files[n] OBVIOUS
  <2>2. /\ f \in Fhs /\ n # m /\ \A g \in Fhs : g # f => disk_fmeta'[g] = disk_fmeta[g]
        /\ disk_fmeta[f].used /\ disk_fmeta'[f].used /\ disk_fmeta[f].name = n
        /\ disk_fmeta'[f].name = m /\ disk_fmeta'[f].size = disk_fmeta[f].size
    BY <1>8, <2>1, RenameWrites DEF Wrote
  <2>3. DurableNames!Rename(n, m) BY <1>3, <2>2, RenameAtomic
  <2> QED BY <2>3 DEF DurableNames!Next
<1>9. ASSUME NEW t \in Threads, MetasQuiet(t) PROVE UNCHANGED disk_fmeta
  BY <1>1, <1>9, QuietIntact
<1>10. ASSUME NEW t \in Threads, NEW n \in Names, CreateNew(t, n) PROVE UNCHANGED disk_fmeta
  BY <1>10 DEF CreateNew, disk
<1>11. Mount \/ Crash \/ UNCHANGED vars => UNCHANGED disk_fmeta
  BY DEF Mount, Crash, vars, disk
<1> QED BY <1>2, <1>4, <1>5, <1>6, <1>7, <1>8, <1>9, <1>10, <1>11, ActsSplit

\* As long as no device write fails, no client shrinks a file, and no two threads write a page
\* of FileMetas in common: create, truncate, unlink and rename are atomic on the device, which
\* implements NameTable through every crash and mount.
THEOREM OperationsAreAtomic ==
    ASSUME NoShrink, PagesApart PROVE Spec /\ [](failures = 0) => CrashAtomic
<1> DEFINE Good == failures = 0
<1> DEFINE Inv == HandlesKnown /\ Plain /\ (Good => Synced /\ MetasUsed /\ Intact /\ TableKnown)
<1>1. Init => DurableNames!Init
  <2> SUFFICES ASSUME Init PROVE DiskTable = [n \in Names |-> None] BY DEF DurableNames!Init
  <2>1. UsedFhs = {} BY DEF Init, UsedFhs, FreshFile
  <2>2. \A n \in Names : LoadedFile(n) = None BY <2>1, LoadedNone
  <2> QED BY <2>2 DEF DiskTable
<1>2. Inv /\ Inv' /\ Good /\ Good' /\ [Next]_vars => [DurableNames!Next]_DiskTable
  BY AtomicStep
<1>3. HandlesKnown /\ Plain /\ (Good => Synced) => (Good => TableKnown) BY TableFound
<1>4. Spec => []Inv
  <2>1. /\ HandlesKnown /\ (failures = 0 => MetasUsed) /\ Plain /\ (failures = 0 => Synced)
        /\ (failures = 0 => Intact) /\ (Good => TableKnown)
        => Inv
    OBVIOUS
  <2> HIDE DEF Inv
  <2> QED BY <1>3, <2>1, MetasInvariant, PlainInvariant, SyncedInvariant, IntactInvariant, PTL
<1> HIDE DEF Inv
<1> QED BY <1>1, <1>2, <1>4, PTL DEF Spec, CrashAtomic, DurableNames!Spec

-----------------------------------------------------------------------------
(* The device can be mounted *)

\* A FileBlock that is used on the device is the one its file has, the file of a FileBlock is
\* on the device, and unlink clears the FileBlock before the meta, when its blocks are in the
\* pool.
FiledAt(l, r) ==
    /\ l = "unlink_meta" => item[r.fh] = None
    /\ l = "unlink_fb" => FileIds(r.fh) \subseteq pool
Filed ==
    /\ \A b \in UsedFbs : disk_fbmeta[b].fh \in Fhs /\ item[disk_fbmeta[b].fh] = b
    /\ \A f \in Fhs : item[f] # None => disk_fmeta[f].used
    /\ \A t \in Threads : FiledAt(pc[t], loc[t])

\* A step that changes no FileBlock and clears no meta.
LEMMA QuietFiled ==
    ASSUME OneThread, Filed, NEW t \in Threads, UNCHANGED <<disk_fbmeta, item>>,
           \A f \in Fhs : disk_fmeta[f].used => disk_fmeta'[f].used,
           pc'[t] \notin {"unlink_fb", "unlink_meta"}
    PROVE  Filed'
<1>1. UsedFbs' = UsedFbs BY DEF UsedFbs
<1>2. \A u \in Threads : FiledAt(pc[u], loc[u])'
  <2> SUFFICES ASSUME NEW u \in Threads PROVE FiledAt(pc[u], loc[u])' OBVIOUS
  <2>1. u = t BY DEF OneThread
  <2> QED BY <2>1 DEF FiledAt
<1> QED BY <1>1, <1>2 DEF Filed

\* The steps of that kind.
LEMMA KeepsFiled ==
    ASSUME NoShrink, OneThread, HandlesKnown, Plain, Synced, MetasUsed, Intact, Filed,
           NEW t \in Threads,
           \/ \E n \in Names : CreateNew(t, n)
           \/ CreateWrite(t, TRUE) \/ CreateAdd(t)
           \/ \E n \in Names, off \in Offsets : ExtendStart(t, n, off)
           \/ ExtendBlocks(t) \/ ExtendSize(t, TRUE) \/ UnlinkNames(t)
           \/ \E n, m \in Names : RenameFile(t, n, m, TRUE)
    PROVE  Filed'
<1>1. PagesApart /\ TypeOK BY DEF PagesApart, HandlesKnown
<1>2. UNCHANGED <<disk_fbmeta, item>>
  BY DEF CreateNew, CreateWrite, CreateAdd, ExtendStart, ExtendBlocks, ExtendSize, UnlinkNames,
         RenameFile, disk
<1>3. pc'[t] \notin {"unlink_fb", "unlink_meta"}
  BY <1>1 DEF CreateNew, CreateWrite, CreateAdd, ExtendStart, ExtendBlocks, ExtendSize,
              UnlinkNames, RenameFile, Start, Goto, Return, TypeOK
<1>4. \A f \in Fhs : disk_fmeta[f].used => disk_fmeta'[f].used
  <2>1. CASE CreateWrite(t, TRUE) BY <1>1, <2>1, CreateWrites DEF Wrote
  <2>2. CASE ExtendSize(t, TRUE) BY <1>1, <2>2, ExtendWrites DEF Wrote
  <2>3. CASE \E n, m \in Names : RenameFile(t, n, m, TRUE) BY <1>1, <2>3, RenameWrites DEF Wrote
  <2>4. CASE UNCHANGED disk_fmeta BY <2>4
  <2> QED BY <2>1, <2>2, <2>3, <2>4 DEF CreateNew, CreateAdd, ExtendStart, ExtendBlocks,
                                        UnlinkNames, disk
<1> QED BY <1>2, <1>3, <1>4, QuietFiled

\* unlink begins by giving the blocks back.
LEMMA UnlinkStartFiled ==
    ASSUME OneThread, HandlesKnown, Filed, NEW t \in Threads, NEW n \in Names, UnlinkStart(t, n)
    PROVE  Filed'
<1>1. PICK f, c : f = created_files[n] /\ c = loc[t] OBVIOUS
<1>2. TypeOK /\ f # None /\ c \in Loc BY <1>1 DEF HandlesKnown, UnlinkStart, TypeOK
<1>3. f \in Fhs BY <1>1, <1>2 DEF TypeOK
<1>4. /\ UNCHANGED <<disk_fmeta, disk_fbmeta, fbmeta, item>>
      /\ pool' = IF item[f] = None THEN pool ELSE pool \cup Range(fbmeta[item[f]].ids)
  BY <1>1 DEF UnlinkStart, disk
<1>5. PICK r : r = [c EXCEPT !.name = n, !.fh = f, !.fb = item[f]] OBVIOUS
<1>6. loc'[t] = r /\ r.fh = f BY <1>1, <1>2, <1>5 DEF UnlinkStart, TypeOK, Loc
<1>7. pc'[t] = IF item[f] = None THEN "unlink_meta" ELSE "unlink_fb"
  BY <1>1, <1>2 DEF UnlinkStart, Goto, TypeOK
<1>8. FileIds(f)' = FileIds(f) BY <1>4 DEF FileIds
<1>9. item[f] # None => FileIds(f) \subseteq pool' BY <1>2, <1>4 DEF FileIds
<1>10. /\ pc'[t] = "unlink_meta" => item'[loc'[t].fh] = None
       /\ pc'[t] = "unlink_fb" => FileIds(f)' \subseteq pool' /\ loc'[t].fh = f
  BY <1>4, <1>6, <1>7, <1>8, <1>9
<1>11. \A u \in Threads : FiledAt(pc[u], loc[u])'
  <2> SUFFICES ASSUME NEW u \in Threads PROVE FiledAt(pc[u], loc[u])' OBVIOUS
  <2>1. u = t BY DEF OneThread
  <2> QED BY <1>10, <2>1 DEF FiledAt
<1>12. UsedFbs' = UsedFbs BY <1>4 DEF UsedFbs
<1> QED BY <1>4, <1>11, <1>12 DEF Filed

\* unlink clears the FileBlock.
LEMMA UnlinkFbFiled ==
    ASSUME OneThread, FbsKnown, Filed, NEW t \in Threads, UnlinkFb(t, TRUE)
    PROVE  Filed'
<1>1. PICK c, b, f : c = loc[t] /\ b = c.fb /\ f = c.fh OBVIOUS
<1>2. /\ TypeOK /\ b \in Fbs /\ f \in Fhs /\ pc[t] = "unlink_fb"
      /\ FbAt("unlink_fb", c) /\ ItemOnce /\ c \in Loc
  BY <1>1 DEF FbsKnown, HandlesKnown, FbsOwned, FbsPlaced, UnlinkFb, At, LocalsSet, Fit, TypeOK
<1>3. item[f] = b /\ b # None BY <1>1, <1>2, FbNotNone DEF FbAt
<1>4. /\ disk_fbmeta' = [disk_fbmeta EXCEPT ![b] = FreshFb]
      /\ item' = [item EXCEPT ![f] = None] /\ UNCHANGED disk_fmeta
  BY <1>1, <1>2 DEF UnlinkFb, WriteFbMeta, TypeOK
<1>5. disk_fbmeta'[b] = FreshFb /\ \A d \in Fbs : d # b => disk_fbmeta'[d] = disk_fbmeta[d]
  BY <1>2, <1>4 DEF TypeOK
<1>6. item'[f] = None /\ \A g \in Fhs : g # f => item'[g] = item[g] BY <1>2, <1>4 DEF TypeOK
<1>7. ASSUME NEW d \in UsedFbs' PROVE disk_fbmeta'[d].fh \in Fhs /\ item'[disk_fbmeta'[d].fh] = d
  <2>1. d \in Fbs /\ d # b BY <1>5 DEF UsedFbs, FreshFb
  <2>2. d \in UsedFbs /\ disk_fbmeta'[d] = disk_fbmeta[d] BY <1>5, <2>1 DEF UsedFbs
  <2>3. disk_fbmeta[d].fh \in Fhs /\ item[disk_fbmeta[d].fh] = d BY <2>2 DEF Filed
  <2> QED BY <1>3, <1>6, <2>1, <2>2, <2>3
<1>8. \A g \in Fhs : item'[g] # None => disk_fmeta'[g].used BY <1>4, <1>6 DEF Filed
<1>9. pc'[t] = "unlink_meta" /\ loc'[t].fh = f
  BY <1>1, <1>2 DEF UnlinkFb, Goto, TypeOK, Loc
<1>10. \A u \in Threads : FiledAt(pc[u], loc[u])'
  <2> SUFFICES ASSUME NEW u \in Threads PROVE FiledAt(pc[u], loc[u])' OBVIOUS
  <2>1. u = t BY DEF OneThread
  <2> QED BY <1>6, <1>9, <2>1 DEF FiledAt
<1> QED BY <1>7, <1>8, <1>10 DEF Filed

\* unlink clears the meta.
LEMMA UnlinkMetaFiled ==
    ASSUME OneThread, HandlesKnown, Plain, Synced, MetasUsed, Intact, Filed, NEW t \in Threads,
           UnlinkMeta(t, TRUE)
    PROVE  Filed'
<1>1. PagesApart /\ TypeOK /\ pc[t] = "unlink_meta" BY DEF PagesApart, HandlesKnown, UnlinkMeta, At
<1>2. \A g \in Fhs : g # loc[t].fh => disk_fmeta'[g] = disk_fmeta[g]
  BY <1>1, UnlinkWrites DEF Wrote
<1>3. item[loc[t].fh] = None BY <1>1 DEF Filed, FiledAt
<1>4. UNCHANGED <<disk_fbmeta, item>> BY DEF UnlinkMeta
<1>5. pc'[t] = "unlink_names" BY <1>1 DEF UnlinkMeta, Goto, TypeOK
<1>6. \A g \in Fhs : item'[g] # None => disk_fmeta'[g].used BY <1>2, <1>3, <1>4 DEF Filed
<1>7. \A u \in Threads : FiledAt(pc[u], loc[u])'
  <2> SUFFICES ASSUME NEW u \in Threads PROVE FiledAt(pc[u], loc[u])' OBVIOUS
  <2>1. u = t BY DEF OneThread
  <2> QED BY <1>5, <2>1 DEF FiledAt
<1>8. UsedFbs' = UsedFbs BY <1>4 DEF UsedFbs
<1> QED BY <1>4, <1>6, <1>7, <1>8 DEF Filed

\* ExtendFile writes the FileBlock that the file has, or gives it the one it writes.
LEMMA ExtendFbFiled ==
    ASSUME OneThread, FbsKnown, Plain, Synced, MetasUsed, FbsWritten, BlocksOwned, Filed,
           NEW t \in Threads, ExtendFb(t, TRUE)
    PROVE  Filed'
<1>1. PICK c, b, f : c = loc[t] /\ b = c.fb /\ f = c.fh OBVIOUS
<1>2. /\ TypeOK /\ b \in Fbs /\ f \in Fhs /\ c \in Loc
      /\ pc[t] = "extend_fb" /\ ItemOnce
  BY <1>1 DEF FbsKnown, HandlesKnown, FbsOwned, ExtendFb, At, LocalsSet, Fit, TypeOK
<1>3. UNCHANGED disk_fmeta BY DEF ExtendFb
<1>4. pc'[t] \notin {"unlink_fb", "unlink_meta"} BY <1>2 DEF ExtendFb, Goto, Return, TypeOK
<1>5. CASE UNCHANGED <<disk_fbmeta, item>> BY <1>3, <1>4, <1>5, QuietFiled
<1>6. CASE /\ disk_fbmeta' = [disk_fbmeta EXCEPT ![b] = FilledFb(t)]
           /\ item' = IF c.new_fb /\ item[f] = None THEN [item EXCEPT ![f] = b] ELSE item
  <2>1. Len(fbmeta[b].ids) <= Capacity BY <1>2 DEF FbsWritten
  <2>2. FilledFb(t).used /\ FilledFb(t).fh = IF c.new_fb THEN f ELSE fbmeta[b].fh
    BY <1>1, <1>2, <2>1, FilledTo
  <2>3. disk_fbmeta'[b] = FilledFb(t) /\ \A d \in Fbs : d # b => disk_fbmeta'[d] = disk_fbmeta[d]
    BY <1>2, <1>6 DEF TypeOK
  <2>4. CoveredAt("extend_fb", c) /\ ExtendAt("extend_fb", c)
    BY <1>1, <1>2 DEF BlocksOwned, BlocksPlaced, BlocksAt
  <2>5. (c.new_fb <=> fmeta[f].size = 0) /\ (~c.new_fb => b = item[f])
        /\ (item[f] = None <=> fmeta[f].size = 0)
    BY <1>1, <2>4 DEF CoveredAt, ExtendAt, Covered, CoveredTo
  <2>6. c.new_fb \/ fbmeta[b].fh = f
    <3>1. SUFFICES ASSUME ~c.new_fb PROVE fbmeta[b].fh = f OBVIOUS
    <3>2. item[f] = b /\ b # None BY <1>2, <2>5, <3>1, FbNotNone
    <3>3. Persisted(b) /\ fbmeta[b].used BY <1>2, <3>2 DEF FbsWritten
    <3>4. disk_fbmeta[b].fh = fbmeta[b].fh /\ disk_fbmeta[b].used BY <3>3 DEF Persisted
    <3>5. b \in UsedFbs BY <1>2, <3>4 DEF UsedFbs
    <3>6. disk_fbmeta[b].fh \in Fhs /\ item[disk_fbmeta[b].fh] = b BY <3>5 DEF Filed
    <3> QED BY <1>2, <3>2, <3>4, <3>6 DEF ItemOnce
  <2>7. disk_fbmeta'[b].fh = f BY <2>2, <2>3, <2>6
  <2>8. item'[f] = b /\ \A g \in Fhs : g # f => item'[g] = item[g]
    BY <1>2, <1>6, <2>5 DEF TypeOK
  <2>9. ASSUME NEW d \in UsedFbs' PROVE disk_fbmeta'[d].fh \in Fhs /\ item'[disk_fbmeta'[d].fh] = d
    <3>1. CASE d = b BY <1>2, <2>7, <2>8, <3>1
    <3>2. CASE d # b
      <4>1. d \in Fbs /\ disk_fbmeta'[d] = disk_fbmeta[d] BY <2>3, <3>2 DEF UsedFbs
      <4>2. d \in UsedFbs /\ d # None BY <4>1, FbNotNone DEF UsedFbs
      <4>3. disk_fbmeta[d].fh \in Fhs /\ item[disk_fbmeta[d].fh] = d BY <4>2 DEF Filed
      <4>4. disk_fbmeta[d].fh # f BY <2>5, <3>2, <4>2, <4>3
      <4> QED BY <2>8, <4>1, <4>3, <4>4
    <3> QED BY <3>1, <3>2
  <2>10. disk_fmeta[f].used
    <3>1. pc[t] \in ExtendPcs BY <1>2 DEF ExtendPcs
    <3>2. disk_fmeta[f] = fmeta[f] BY <1>1, <3>1, HasFile DEF FbsKnown
    <3>3. UsedAt("extend_fb", c) BY <1>1, <1>2 DEF MetasUsed, HeldUsed
    <3> QED BY <1>1, <3>2, <3>3 DEF UsedAt, Cleared
  <2>11. \A g \in Fhs : item'[g] # None => disk_fmeta'[g].used
    BY <1>3, <2>8, <2>10 DEF Filed
  <2>12. \A u \in Threads : FiledAt(pc[u], loc[u])'
    <3> SUFFICES ASSUME NEW u \in Threads PROVE FiledAt(pc[u], loc[u])' OBVIOUS
    <3>1. u = t BY DEF OneThread
    <3> QED BY <1>4, <3>1 DEF FiledAt
  <2> QED BY <2>9, <2>11, <2>12 DEF Filed
<1>7. \/ UNCHANGED <<disk_fbmeta, item>>
      \/ /\ disk_fbmeta' = [disk_fbmeta EXCEPT ![b] = FilledFb(t)]
         /\ item' = IF c.new_fb /\ item[f] = None THEN [item EXCEPT ![f] = b] ELSE item
  BY <1>1, <1>2 DEF ExtendFb, WriteFbMeta, TypeOK
<1> QED BY <1>5, <1>6, <1>7

\* The first mount finds no FileBlock.
LEMMA MountFiled ==
    ASSUME HandlesKnown, FirstMount, Mount
    PROVE  Filed'
<1>1. UsedFbs = {} BY DEF FirstMount, Mount, UsedFbs, FreshFb
<1>2. \A f \in Fhs : LoadedFb(f) = None BY <1>1, LastFirstType DEF LoadedFb
<1>3. UsedFbs' = {} /\ \A f \in Fhs : item'[f] = None
  BY <1>1, <1>2 DEF Mount, disk, UsedFbs
<1>4. \A u \in Threads : pc'[u] = "idle"
  BY DEF Mount, HandlesKnown, HandlesOwned, IdleHoldsNothing
<1> QED BY <1>3, <1>4 DEF Filed, FiledAt

\* The FileBlocks are filed before the first crash.
LEMMA FiledInvariant ==
    ASSUME NoShrink, OneThread PROVE Spec => [](Calm /\ status = "up" => Filed)
<1> DEFINE Good == failures = 0
<1> DEFINE Known == /\ FbsKnown /\ Plain /\ (Calm => BlocksOwned)
                    /\ (Good => Synced /\ MetasUsed /\ Intact /\ FbsWritten)
<1> DEFINE Inv == Calm /\ status = "up" => Filed
<1>1. PagesApart BY DEF PagesApart
<1>2. Init => Inv BY DEF Init
<1>3. Known /\ Inv /\ [Next]_vars => Inv'
  <2> SUFFICES ASSUME Known, Inv, [Next]_vars, crashes' = 0, failures' = 0, status' = "up"
               PROVE  Filed'
    BY DEF Calm
  <2>1. HandlesKnown /\ TypeOK BY DEF FbsKnown, HandlesKnown
  <2>2. failures = 0 /\ (Mount \/ Crash \/ UNCHANGED vars \/ \E t \in Threads : Acts(t))
    BY <2>1, PlainNext
  <2>3. CASE Mount
    <3>1. Calm BY <2>2, <2>3 DEF Mount, Calm
    <3>2. FirstMount BY <3>1 DEF BlocksOwned
    <3> QED BY <2>1, <2>3, <3>2, MountFiled
  <2>4. CASE Crash BY <2>4 DEF Crash, ProcessEnds
  <2>5. CASE UNCHANGED vars
    <3>1. UNCHANGED <<fbmeta, disk_fbmeta, disk_fmeta, item, pool, pc, loc, status, crashes, failures>>
      BY <2>5 DEF vars, memory, disk
    <3>2. Filed BY <2>2, <3>1 DEF Calm
    <3> QED BY <3>1, <3>2 DEF Filed, FiledAt, UsedFbs, FileIds
  <2>6. ASSUME NEW t \in Threads, Acts(t) PROVE Filed'
    <3>1. crashes = 0
      BY <2>6 DEF Acts, CreateNew, CreateWrite, CreateAdd, ExtendStart, ExtendBlocks, ExtendFb,
                  ExtendSize, UnlinkStart, UnlinkFb, UnlinkMeta, UnlinkNames, RenameFile
    <3>2. status = "up"
      BY <2>6 DEF Acts, CreateNew, CreateWrite, CreateAdd, ExtendStart, ExtendBlocks, ExtendFb,
                  ExtendSize, UnlinkStart, UnlinkFb, UnlinkMeta, UnlinkNames, RenameFile
    <3>3. Calm /\ Filed /\ BlocksOwned /\ Synced /\ MetasUsed /\ Intact /\ FbsWritten
          /\ FbsKnown /\ Plain
      BY <2>2, <3>1, <3>2 DEF Calm
    <3> HIDE DEF Known, Inv
    <3>4. CASE ExtendFb(t, TRUE) BY <3>3, <3>4, ExtendFbFiled
    <3>5. CASE UnlinkFb(t, TRUE) BY <3>3, <3>5, UnlinkFbFiled
    <3>6. CASE UnlinkMeta(t, TRUE) BY <2>1, <3>3, <3>6, UnlinkMetaFiled
    <3>7. CASE \E n \in Names : UnlinkStart(t, n) BY <2>1, <3>3, <3>7, UnlinkStartFiled
    <3>8. CASE \/ \E n \in Names : CreateNew(t, n)
               \/ CreateWrite(t, TRUE) \/ CreateAdd(t)
               \/ \E n \in Names, off \in Offsets : ExtendStart(t, n, off)
               \/ ExtendBlocks(t) \/ ExtendSize(t, TRUE) \/ UnlinkNames(t)
               \/ \E n, m \in Names : RenameFile(t, n, m, TRUE)
      BY <2>1, <3>3, <3>8, KeepsFiled
    <3> QED BY <2>6, <3>4, <3>5, <3>6, <3>7, <3>8 DEF Acts
  <2> QED BY <2>2, <2>3, <2>4, <2>5, <2>6
<1>4. Spec => []Known
  <2>1. /\ HandlesKnown /\ (failures = 0 => MetasUsed) /\ Plain /\ (failures = 0 => Synced)
        /\ (failures = 0 => Intact) /\ (failures = 0 => FbsWritten) /\ FbsKnown
        /\ (Calm => BlocksOwned)
        => Known
    OBVIOUS
  <2> HIDE DEF Known
  <2> QED BY <1>1, <2>1, MetasInvariant, PlainInvariant, SyncedInvariant, IntactInvariant,
             WrittenInvariant, BlocksInvariant, PTL
<1> HIDE DEF Known, Inv
<1>5. Spec => []Inv BY <1>2, <1>3, <1>4, PTL DEF Spec
<1> QED BY <1>5 DEF Inv

\* A block id that the device lists for a file is one of the file's.
LEMMA ListedIds ==
    ASSUME TypeOK, FbsWritten, Filed, NEW b \in UsedFbs, NEW i \in DOMAIN disk_fbmeta[b].ids
    PROVE  /\ b \in Fbs /\ disk_fbmeta[b].fh \in Fhs /\ item[disk_fbmeta[b].fh] = b
           /\ i \in DOMAIN fbmeta[b].ids /\ disk_fbmeta[b].ids[i] = fbmeta[b].ids[i]
           /\ disk_fbmeta[b].ids[i] \in FileIds(disk_fbmeta[b].fh)
<1>1. PICK f, d, m : f = disk_fbmeta[b].fh /\ d = disk_fbmeta[b].ids /\ m = fbmeta[b].ids OBVIOUS
<1>2. b \in Fbs /\ b # None BY FbNotNone DEF UsedFbs
<1>3. f \in Fhs /\ item[f] = b BY <1>1 DEF Filed
<1>4. d \in Seq(Blocks) /\ m \in Seq(Blocks) BY <1>1, <1>2 DEF TypeOK, FileBlockMeta
<1>5. Persisted(b) BY <1>2, <1>3 DEF FbsWritten
<1>6. \/ d = m
      \/ Len(d) <= Len(m) /\ \A j \in 1 .. Len(d) : d[j] = m[j]
  BY <1>1, <1>5 DEF Persisted
<1>7. Len(d) \in Nat /\ Len(m) \in Nat /\ DOMAIN d = 1 .. Len(d) /\ DOMAIN m = 1 .. Len(m)
  BY <1>4
<1>8. i \in DOMAIN m /\ d[i] = m[i] BY <1>1, <1>6, <1>7
<1>9. m[i] \in Range(m) BY <1>8 DEF Range
<1>10. f # None BY <1>3, HandleNotNone
<1>11. FileIds(f) = Range(m) BY <1>1, <1>2, <1>3, <1>10 DEF FileIds
<1> QED BY <1>1, <1>2, <1>3, <1>8, <1>9, <1>11

\* Two files have no block in common, even while unlink gives the blocks of one back.
LEMMA FilesApart ==
    ASSUME OneThread, HandlesKnown, BlocksOwned, Filed, Plain, NEW f \in Fhs, NEW g \in Fhs, f # g
    PROVE  FileIds(f) \cap FileIds(g) = {}
<1>1. BlocksApart BY DEF BlocksOwned
<1>2. f # None /\ g # None BY HandleNotNone
<1>3. ASSUME NEW t \in Threads, NEW h \in Fhs, NEW k \in Fhs, h # k, h \in Held(t)
      PROVE  FileIds(h) \cap FileIds(k) = {}
  <2>1. loc[t].new = None BY DEF Plain, PlainAt
  <2>2. h = loc[t].fh BY <1>3, <2>1 DEF Held
  <2>3. \A u \in Threads : u = t BY DEF OneThread
  <2>4. Unheld(k) BY <1>2, <1>3, <2>1, <2>2, <2>3 DEF Unheld, Held
  <2>5. CASE pc[t] = "unlink_fb"
    <3>1. FileIds(h) \subseteq pool BY <2>2, <2>5 DEF Filed, FiledAt
    <3>2. FileIds(k) \cap pool = {} BY <1>1, <2>4 DEF BlocksApart
    <3> QED BY <3>1, <3>2
  <2>6. CASE pc[t] # "unlink_fb"
    <3>1. PlainAt(pc[t], loc[t]) BY DEF Plain
    <3>2. pc[t] \notin Released
      BY <2>6, <3>1 DEF PlainAt, Released, Creating, ExtendPcs, UnlinkPcs
    <3>3. FileIds(h) \subseteq Claim(t) BY <2>2, <3>2 DEF Claim, ClaimAt
    <3>4. Claim(t) \cap FileIds(k) = {} BY <1>1, <2>4 DEF BlocksApart
    <3> QED BY <3>3, <3>4
  <2> QED BY <2>5, <2>6
<1>4. CASE Unheld(f) /\ Unheld(g) BY <1>1, <1>4 DEF BlocksApart
<1>5. ASSUME NEW t \in Threads, f \in Held(t) PROVE FileIds(f) \cap FileIds(g) = {}
  BY <1>3, <1>5
<1>6. ASSUME NEW t \in Threads, g \in Held(t) PROVE FileIds(f) \cap FileIds(g) = {}
  <2>1. FileIds(g) \cap FileIds(f) = {} BY <1>3, <1>6
  <2> QED BY <2>1
<1> QED BY <1>4, <1>5, <1>6 DEF Unheld

\* Before the first crash and the first failed device write, with one client at a time and
\* without shrink: whenever the process ends now, the next mount accepts the device.  The order
\* of the writes within create, extend, unlink and rename leaves no bad crc, no FileBlock
\* without its file and no block claimed twice at any moment between two of them.
THEOREM AlwaysMountable ==
    ASSUME NoShrink, OneThread PROVE Spec => [](failures = 0 => Mountable)
<1> DEFINE Good == failures = 0
<1>1. PagesApart BY DEF PagesApart
<1>2. ASSUME FbsKnown, Plain, Calm => BlocksOwned, Calm, Intact, FbsWritten,
             status = "up" => Filed
      PROVE  MountOk
  <2>1. TypeOK /\ HandlesKnown /\ BlocksOwned BY <1>2 DEF FbsKnown, HandlesKnown
  <2>2. CrcsMatch BY <1>2 DEF Intact, CrcsMatch
  <2>3. CASE status = "down"
    <3>1. UsedFbs = {} BY <2>1, <2>3 DEF BlocksOwned, FirstMount, UsedFbs, FreshFb
    <3> QED BY <2>2, <3>1 DEF MountOk, FbsHaveFiles, BlocksClaimedOnce
  <2>4. CASE status = "up"
    <3>1. Filed BY <1>2, <2>4
    <3>2. FbsHaveFiles
      <4> SUFFICES ASSUME NEW b \in UsedFbs PROVE disk_fbmeta[b].fh \in UsedFhs
        BY DEF FbsHaveFiles
      <4>1. PICK f \in Fhs : f = disk_fbmeta[b].fh /\ item[f] = b BY <3>1 DEF Filed
      <4>2. b # None BY FbNotNone DEF UsedFbs
      <4>3. disk_fmeta[f].used BY <3>1, <4>1, <4>2 DEF Filed
      <4> QED BY <4>1, <4>3 DEF UsedFhs
    <3>3. BlocksClaimedOnce
      <4> SUFFICES ASSUME NEW b \in UsedFbs, NEW d \in UsedFbs,
                          NEW i \in DOMAIN disk_fbmeta[b].ids, NEW j \in DOMAIN disk_fbmeta[d].ids,
                          disk_fbmeta[b].ids[i] = disk_fbmeta[d].ids[j]
                   PROVE  b = d /\ i = j
        BY DEF BlocksClaimedOnce
      <4>1. PICK f, g : f = disk_fbmeta[b].fh /\ g = disk_fbmeta[d].fh OBVIOUS
      <4>2. /\ b \in Fbs /\ f \in Fhs /\ item[f] = b /\ i \in DOMAIN fbmeta[b].ids
            /\ disk_fbmeta[b].ids[i] = fbmeta[b].ids[i] /\ disk_fbmeta[b].ids[i] \in FileIds(f)
        BY <1>2, <2>1, <3>1, <4>1, ListedIds
      <4>3. /\ g \in Fhs /\ item[g] = d /\ j \in DOMAIN fbmeta[d].ids
            /\ disk_fbmeta[d].ids[j] = fbmeta[d].ids[j] /\ disk_fbmeta[d].ids[j] \in FileIds(g)
        BY <1>2, <2>1, <3>1, <4>1, ListedIds
      <4>4. f = g
        <5>1. SUFFICES ASSUME f # g PROVE FALSE OBVIOUS
        <5>2. FileIds(f) \cap FileIds(g) = {} BY <1>2, <2>1, <3>1, <4>2, <4>3, <5>1, FilesApart
        <5> QED BY <4>2, <4>3, <5>2
      <4>5. b = d BY <4>2, <4>3, <4>4
      <4>6. IsInjective(fbmeta[b].ids) BY <2>1, <4>2 DEF BlocksOwned, IdsOnce
      <4>7. fbmeta[b].ids[i] = fbmeta[b].ids[j] BY <4>2, <4>3, <4>5
      <4>8. i = j BY <4>2, <4>3, <4>5, <4>6, <4>7 DEF IsInjective
      <4> QED BY <4>5, <4>8
    <3> QED BY <2>2, <3>2, <3>3 DEF MountOk
  <2> QED BY <2>1, <2>3, <2>4 DEF TypeOK
<1>3. /\ FbsKnown /\ Plain /\ (Calm => BlocksOwned) /\ (Good => Intact) /\ (Good => FbsWritten)
      /\ (Calm /\ status = "up" => Filed)
      => (Good => Mountable)
  BY <1>2 DEF Mountable, Calm
<1> HIDE DEF Good
<1>4. Spec => [](Good => Intact) BY <1>1, IntactInvariant DEF Good
<1>5. Spec => [](Good => FbsWritten) BY WrittenInvariant DEF Good
<1>6. Spec => [](Good => Mountable)
  BY <1>3, <1>4, <1>5, PlainInvariant, BlocksInvariant, FiledInvariant, PTL
<1> QED BY <1>6 DEF Good

-----------------------------------------------------------------------------
(* No block and no FileBlock is lost *)

\* The division that rounds up leaves less than a block over.
LEMMA NumBlocksTight ==
    ASSUME NEW x \in Nat
    PROVE  NumBlocks(x) \in Nat /\ BlockSize * NumBlocks(x) < x + BlockSize
<1>1. BlockSize \in Nat /\ BlockSize > 0 BY StoreAssumption
<1>2. PICK y : y = x + BlockSize - 1 OBVIOUS
<1>3. y \in Nat /\ y = x + BlockSize - 1 BY <1>1, <1>2
<1>4. NumBlocks(x) = y \div BlockSize BY <1>2 DEF NumBlocks
<1>5. PICK q, m \in Nat : q = NumBlocks(x) /\ y = BlockSize * q + m
  <2>1. PICK q, m \in Nat : q = y \div BlockSize /\ y = BlockSize * q + m
    BY <1>3, BlockDiv, Zenon
  <2> QED BY <1>4, <2>1, Zenon
<1>6. BlockSize * q \in Int BY <1>1
<1>7. BlockSize * q < x + BlockSize BY <1>1, <1>3, <1>5, <1>6
<1> QED BY <1>5, <1>7, Zenon

\* What is less than k blocks and a bit needs no more than k.
LEMMA NoMoreBlocks ==
    ASSUME NEW x \in Nat, NEW k \in Nat, NEW a \in Nat, x <= BlockSize * k,
           BlockSize * a < x + BlockSize
    PROVE  a <= k
<1>1. BlockSize \in Nat /\ BlockSize > 0 BY StoreAssumption
<1>2. BlockSize * (k + 1) = BlockSize * k + BlockSize BY <1>1
<1>3. BlockSize * k \in Int /\ BlockSize * a \in Int /\ BlockSize * (k + 1) \in Int BY <1>1
<1>4. BlockSize * a < BlockSize * (k + 1) BY <1>1, <1>2, <1>3
<1>5. a < k + 1 BY <1>4, FewerBlocks
<1> QED BY <1>5

\* ExtendFile asks for no more blocks than the new size needs besides those of the old one.
LEMMA NeededFits ==
    ASSUME NEW size \in Nat, NEW off \in Nat, size < off
    PROVE  NumBlocks(size) + BlocksNeeded(size, off) <= NumBlocks(off)
<1>1. BlockSize \in Nat /\ BlockSize > 0 BY StoreAssumption
<1>2. PICK q, m \in Nat : m = size % BlockSize /\ m < BlockSize /\ size = BlockSize * q + m
  BY BlockDiv, Zenon
<1>3. PICK left, k : left = (IF m = 0 THEN 0 ELSE BlockSize - m)
                     /\ k = (IF m = 0 THEN q ELSE q + 1)
  OBVIOUS
<1>4. left \in Nat /\ k \in Nat BY <1>1, <1>2, <1>3
<1>5. size + left = BlockSize * k
  <2>1. BlockSize * (q + 1) = BlockSize * q + BlockSize /\ BlockSize * q \in Int BY <1>1, <1>2
  <2> QED BY <1>1, <1>2, <1>3, <2>1
<1>6. PICK old, new : old = NumBlocks(size) /\ new = NumBlocks(off) OBVIOUS
<1>7. /\ old \in Nat /\ BlockSize * old < size + BlockSize
      /\ new \in Nat /\ off <= BlockSize * new
  BY <1>6, NumBlocksTight, NumBlocksCover
<1>8. BlockSize * k \in Int /\ BlockSize * old \in Int /\ BlockSize * new \in Int
  BY <1>1, <1>4, <1>7
<1>9. size <= BlockSize * k BY <1>4, <1>5, <1>8
<1>10. old <= k BY <1>4, <1>7, <1>9, NoMoreBlocks
<1>11. PICK need : need = BlocksNeeded(size, off) OBVIOUS
<1>12. need = IF off - size <= left THEN 0 ELSE NumBlocks(off - size - left)
  BY <1>2, <1>3, <1>11 DEF BlocksNeeded
<1>13. CASE off - size <= left
  <2>1. BlockSize * old < off + BlockSize BY <1>1, <1>7, <1>8
  <2>2. old <= new BY <1>7, <2>1, NoMoreBlocks
  <2>3. need = 0 BY <1>12, <1>13
  <2> QED BY <1>6, <1>7, <1>11, <2>2, <2>3
<1>14. CASE ~(off - size <= left)
  <2>1. PICK rest : rest = off - size - left OBVIOUS
  <2>2. rest \in Nat /\ rest + BlockSize * k = off BY <1>4, <1>5, <1>8, <1>14, <2>1
  <2>3. need = NumBlocks(rest) BY <1>12, <1>14, <2>1
  <2>4. need \in Nat /\ BlockSize * need < rest + BlockSize BY <2>2, <2>3, NumBlocksTight
  <2>5. BlockSize * (k + need) = BlockSize * k + BlockSize * need /\ BlockSize * need \in Int
    BY <1>1, <1>4, <2>4
  <2>6. BlockSize * (k + need) < off + BlockSize BY <1>1, <1>8, <2>2, <2>4, <2>5
  <2>7. k + need \in Nat BY <1>4, <2>4
  <2>8. k + need <= new BY <1>7, <2>6, <2>7, NoMoreBlocks
  <2>9. old + need <= k + need BY <1>4, <1>7, <1>10, <2>4
  <2>10. old + need <= new BY <1>4, <1>7, <2>4, <2>8, <2>9
  <2> QED BY <1>6, <1>11, <2>10
<1> QED BY <1>13, <1>14

\* The first blocks of a file are at least one.
LEMMA FirstNeeded ==
    ASSUME NEW off \in Nat, 0 < off
    PROVE  BlocksNeeded(0, off) > 0
<1>1. BlockSize \in Nat /\ BlockSize > 0 BY StoreAssumption
<1>2. PICK need : need = BlocksNeeded(0, off) OBVIOUS
<1>3. need \in Nat BY <1>2, BlocksNeededNat
<1>4. off <= BlockSize * (0 + need) BY <1>1, <1>2, NeededCovers
<1>5. need = 0 => BlockSize * (0 + need) = 0 BY <1>1
<1>6. need # 0 BY <1>4, <1>5
<1> QED BY <1>2, <1>3, <1>6

\* A list of all of a finite set, in ascending order, leaves none out.
LEMMA AscendingAll ==
    ASSUME NEW S \in SUBSET Nat, IsFiniteSet(S), NEW s \in Ascending(S)
    PROVE  Range(s) = S
<1>1. Cardinality(S) \in Nat BY FS_CardinalityType
<1>2. IsInjective(s) /\ Range(s) \subseteq S BY <1>1, AscendingInjective
<1>3. PICK k \in Nat : k = Cardinality(S) BY <1>1
<1>4. s \in [1 .. k -> S] BY <1>3 DEF Ascending
<1>5. ASSUME NEW x \in S, x \notin Range(s) PROVE FALSE
  <2>1. IsFiniteSet(S \ {x}) /\ Cardinality(S \ {x}) = k - 1 BY <1>3, FS_RemoveElement
  <2>2. IsFiniteSet(1 .. k) /\ Cardinality(1 .. k) = k
    <3>1. 1 \in Int /\ k \in Int OBVIOUS
    <3>2. IsFiniteSet(1 .. k) /\ Cardinality(1 .. k) = IF 1 > k THEN 0 ELSE k - 1 + 1
      BY <3>1, FS_Interval
    <3> QED BY <3>2
  <2>3. Cardinality(S \ {x}) < Cardinality(1 .. k) BY <2>1, <2>2
  <2>4. s \in [1 .. k -> S \ {x}] BY <1>4, <1>5 DEF Range
  <2>5. \E i, j \in 1 .. k : i # j /\ s[i] = s[j]
    BY <2>1, <2>2, <2>3, <2>4, FS_PigeonHole
  <2> QED BY <1>2, <1>4, <2>5 DEF IsInjective
<1> QED BY <1>2, <1>5

\* File f has no more blocks than a file of that size needs.
Fits(f, size) == item[f] # None => Len(fbmeta[item[f]].ids) <= NumBlocks(size)

\* The blocks of f are being given back; its size is about to be written.
Releasing(f) == \E t \in Threads : pc[t] = "unlink_fb" /\ loc[t].fh = f
Growing(f) == \E t \in Threads : pc[t] = "extend_size" /\ loc[t].fh = f

\* Where block x and FileBlock b are, as far as the pool, the list, file f and a thread at
\* label l with locals r know.
BlockAt(l, r, f, x) ==
    \/ x \in pool
    \/ l # "unlink_fb" /\ x \in FileIds(f)
    \/ l = "extend_fb" /\ x \in Range(r.ids)
FbHeldAt(l, r, f, b) ==
    \/ b \in Range(free_fbhs)
    \/ item[f] = b
    \/ l \in {"extend_blocks", "extend_fb"} /\ r.new_fb /\ r.fb = b

\* What keeps the blocks of an extend and an unlink from being lost.
LossAt(l, r) ==
    /\ l = "unlink_meta" => item[r.fh] = None
    /\ l = "extend_fb" /\ r.new_fb => fbmeta[r.fb].ids = <<>>
    /\ l = "extend_size" => Fits(r.fh, r.off)

BlocksKept ==
    \A x \in Blocks :
        \/ x \in pool
        \/ \E f \in Fhs : ~Releasing(f) /\ x \in FileIds(f)
        \/ \E t \in Threads : pc[t] = "extend_fb" /\ x \in Range(loc[t].ids)
FbsListed ==
    \A b \in Fbs :
        \/ b \in Range(free_fbhs)
        \/ \E f \in Fhs : item[f] = b
        \/ \E t \in Threads :
             pc[t] \in {"extend_blocks", "extend_fb"} /\ loc[t].new_fb /\ loc[t].fb = b
FilesFit ==
    \A f \in Fhs : item[f] # None => fmeta[f].used /\ (Growing(f) \/ Fits(f, fmeta[f].size))
Lossless == BlocksKept /\ FbsListed /\ FilesFit /\ \A t \in Threads : LossAt(pc[t], loc[t])

\* A step of thread t on file f that keeps what t, f, the pool and the list have between
\* them, and what other files and threads have.
LEMMA LossStep ==
    ASSUME TypeOK, LocalsSet, Lossless, NEW t \in Threads, NEW l, NEW r, Moved(t, l, r),
           NEW f \in Fhs, \A u \in Threads : u # t => loc[u].fh # f,
           pc[t] = "idle" \/ loc[t].fh = f, l = "idle" \/ r.fh = f,
           \A g \in Fhs : g # f =>
                /\ item'[g] = item[g] /\ fmeta'[g] = fmeta[g]
                /\ item[g] # None => fbmeta'[item[g]] = fbmeta[item[g]],
           \A u \in Threads : u # t /\ pc[u] = "extend_fb" => fbmeta'[loc[u].fb] = fbmeta[loc[u].fb],
           item'[f] # None => fmeta'[f].used /\ (l = "extend_size" \/ Fits(f, fmeta[f].size)'),
           LossAt(l, r)',
           \A x \in Blocks : BlockAt(pc[t], loc[t], f, x) => BlockAt(l, r, f, x)',
           \A b \in Fbs : FbHeldAt(pc[t], loc[t], f, b) => FbHeldAt(l, r, f, b)'
    PROVE  Lossless'
<1>1. /\ pc'[t] = l /\ loc'[t] = r
      /\ \A u \in Threads : u # t => pc'[u] = pc[u] /\ loc'[u] = loc[u]
  BY OthersKept
<1>2. f # None BY HandleNotNone
<1>3. ASSUME NEW g \in Fhs, g # f
      PROVE  /\ FileIds(g)' = FileIds(g) /\ (Releasing(g)' => Releasing(g))
             /\ (Growing(g) => Growing(g)')
  <2>1. FileIds(g)' = FileIds(g) BY <1>3 DEF FileIds
  <2>2. Releasing(g)' => Releasing(g) BY <1>1, <1>3 DEF Releasing
  <2>3. Growing(g) => Growing(g)' BY <1>1, <1>3 DEF Growing
  <2> QED BY <2>1, <2>2, <2>3
<1>4. (Releasing(f) <=> pc[t] = "unlink_fb") /\ (Releasing(f)' <=> l = "unlink_fb")
      /\ (l = "extend_size" => Growing(f)')
  BY <1>1 DEF Releasing, Growing
<1>5. BlocksKept'
  <2> SUFFICES ASSUME NEW x \in Blocks
               PROVE  \/ x \in pool'
                      \/ \E g \in Fhs : ~Releasing(g)' /\ x \in FileIds(g)'
                      \/ \E u \in Threads : pc'[u] = "extend_fb" /\ x \in Range(loc'[u].ids)
    BY DEF BlocksKept
  <2>1. CASE BlockAt(pc[t], loc[t], f, x)
    <3>1. BlockAt(l, r, f, x)' BY <2>1
    <3> QED BY <1>1, <1>4, <3>1 DEF BlockAt
  <2>2. CASE ~BlockAt(pc[t], loc[t], f, x)
    <3>1. x \notin pool /\ (pc[t] # "unlink_fb" => x \notin FileIds(f))
          /\ (pc[t] = "extend_fb" => x \notin Range(loc[t].ids))
      BY <2>2 DEF BlockAt
    <3>2. CASE \E g \in Fhs : ~Releasing(g) /\ x \in FileIds(g)
      BY <1>3, <1>4, <3>1, <3>2
    <3>3. CASE \E u \in Threads : pc[u] = "extend_fb" /\ x \in Range(loc[u].ids)
      BY <1>1, <3>1, <3>3
    <3> QED BY <3>1, <3>2, <3>3 DEF Lossless, BlocksKept
  <2> QED BY <2>1, <2>2
<1>6. FbsListed'
  <2> SUFFICES ASSUME NEW b \in Fbs
               PROVE  \/ b \in Range(free_fbhs')
                      \/ \E g \in Fhs : item'[g] = b
                      \/ \E u \in Threads : /\ pc'[u] \in {"extend_blocks", "extend_fb"}
                                            /\ loc'[u].new_fb /\ loc'[u].fb = b
    BY DEF FbsListed, Range
  <2>1. CASE FbHeldAt(pc[t], loc[t], f, b)
    <3>1. FbHeldAt(l, r, f, b)' BY <2>1
    <3> QED BY <1>1, <3>1 DEF FbHeldAt, Range
  <2>2. CASE ~FbHeldAt(pc[t], loc[t], f, b)
    BY <1>1, <2>2 DEF FbHeldAt, Lossless, FbsListed
  <2> QED BY <2>1, <2>2
<1>7. FilesFit'
  <2> SUFFICES ASSUME NEW g \in Fhs, item'[g] # None
               PROVE  fmeta'[g].used /\ (Growing(g)' \/ Fits(g, fmeta[g].size)')
    BY DEF FilesFit
  <2>1. CASE g = f BY <1>4, <2>1
  <2>2. CASE g # f
    <3>1. fmeta[g].used /\ (Growing(g) \/ Fits(g, fmeta[g].size))
      BY <2>2 DEF Lossless, FilesFit
    <3>2. Fits(g, fmeta[g].size) => Fits(g, fmeta[g].size)' BY <2>2 DEF Fits
    <3> QED BY <1>3, <2>2, <3>1, <3>2
  <2> QED BY <2>1, <2>2
<1>8. ASSUME NEW u \in Threads PROVE LossAt(pc[u], loc[u])'
  <2>1. CASE u = t BY <1>1, <2>1 DEF LossAt, Fits
  <2>2. CASE u # t
    <3>1. PICK k, q : k = pc[u] /\ q = loc[u] OBVIOUS
    <3>2. k = pc'[u] /\ q = loc'[u] /\ LossAt(k, q) BY <1>1, <2>2, <3>1 DEF Lossless
    <3>3. q.fh # f /\ (k \in {"unlink_meta", "extend_size"} => q.fh \in Fhs)
      BY <2>2, <3>1 DEF LocalsSet, Fit
    <3>4. k = "unlink_meta" => item'[q.fh] = None BY <3>2, <3>3 DEF LossAt
    <3>5. k = "extend_fb" /\ q.new_fb => fbmeta'[q.fb].ids = <<>>
      BY <2>2, <3>1, <3>2 DEF LossAt
    <3>6. k = "extend_size" => Fits(q.fh, q.off)' BY <3>2, <3>3 DEF LossAt, Fits
    <3> QED BY <3>2, <3>4, <3>5, <3>6 DEF LossAt, Fits
  <2> QED BY <2>1, <2>2
<1> QED BY <1>5, <1>6, <1>7, <1>8 DEF Lossless

\* What the earlier theorems have shown, and what is known of the losses.
LossKnown ==
    /\ FbsKnown /\ Plain /\ MetasUsed /\ BlocksOwned /\ Synced /\ Lossless /\ status = "up"
    /\ TypeOK

\* A file whose size no thread is about to write has no more blocks than that size needs.
LEMMA OwnFit ==
    ASSUME Lossless, NEW t \in Threads, NEW f \in Fhs, \A u \in Threads : u # t => loc[u].fh # f,
           pc[t] # "extend_size", item[f] # None
    PROVE  fmeta[f].used /\ Fits(f, fmeta[f].size)
<1>1. ~Growing(f) BY DEF Growing
<1> QED BY <1>1 DEF Lossless, FilesFit

\* A step that leaves the FileBlocks, the pool and the list alone.
LEMMA LossQuiet ==
    ASSUME LossKnown, NEW t \in Threads, NEW l, NEW r, Moved(t, l, r),
           l \in {"idle", "unlink_names"} \cup Creating,
           pc[t] \in {"idle", "unlink_meta", "unlink_names"} \cup Creating,
           NEW f \in Fhs, \A u \in Threads : u # t => loc[u].fh # f,
           pc[t] = "idle" \/ loc[t].fh = f, l = "idle" \/ r.fh = f,
           UNCHANGED <<pool, free_fbhs, item, fbmeta>>,
           \A g \in Fhs : g # f => fmeta'[g] = fmeta[g],
           item[f] # None => fmeta'[f].used = fmeta[f].used /\ fmeta'[f].size = fmeta[f].size
    PROVE  Lossless'
<1>1. TypeOK /\ LocalsSet /\ Lossless BY DEF LossKnown, FbsKnown, HandlesKnown
<1>2. pc[t] \notin ExtendPcs \cup {"unlink_fb"} BY DEF Creating, ExtendPcs
<1>3. l \notin ExtendPcs \cup {"unlink_fb", "unlink_meta"} BY DEF Creating, ExtendPcs
<1>4. \A g \in Fhs : g # f => /\ item'[g] = item[g] /\ fmeta'[g] = fmeta[g]
                              /\ item[g] # None => fbmeta'[item[g]] = fbmeta[item[g]]
  OBVIOUS
<1>5. \A u \in Threads : u # t /\ pc[u] = "extend_fb" => fbmeta'[loc[u].fb] = fbmeta[loc[u].fb]
  OBVIOUS
<1>6. item'[f] # None => fmeta'[f].used /\ (l = "extend_size" \/ Fits(f, fmeta[f].size)')
  <2> SUFFICES ASSUME item[f] # None PROVE fmeta'[f].used /\ Fits(f, fmeta[f].size)' OBVIOUS
  <2>1. pc[t] # "extend_size" BY <1>2 DEF ExtendPcs
  <2>2. fmeta[f].used /\ Fits(f, fmeta[f].size) BY <1>1, <2>1, OwnFit
  <2> QED BY <2>2 DEF Fits
<1>7. LossAt(l, r)' BY <1>3 DEF LossAt, ExtendPcs
<1>8. \A x \in Blocks : BlockAt(pc[t], loc[t], f, x) => BlockAt(l, r, f, x)'
  BY <1>2, <1>3 DEF BlockAt, FileIds, ExtendPcs
<1>9. \A b \in Fbs : FbHeldAt(pc[t], loc[t], f, b) => FbHeldAt(l, r, f, b)'
  BY <1>2 DEF FbHeldAt, ExtendPcs
<1>10. /\ pc[t] = "idle" \/ loc[t].fh = f
       /\ l = "idle" \/ r.fh = f
       /\ \A u \in Threads : u # t => loc[u].fh # f
  OBVIOUS
<1> QED BY <1>1, <1>4, <1>5, <1>6, <1>7, <1>8, <1>9, <1>10, LossStep

\* create loses nothing: the meta that it claims has no FileBlock.
LEMMA CreateNewLoss ==
    ASSUME LossKnown, NEW t \in Threads, NEW n \in Names, CreateNew(t, n)
    PROVE  Lossless'
<1>1. PICK f : f = Head(free_fhs) OBVIOUS
<1>2. PICK r : r = [loc[t] EXCEPT !.name = n, !.fh = f] OBVIOUS
<1>3. TypeOK /\ HandlesOwned /\ free_fhs # <<>>
  BY DEF LossKnown, FbsKnown, HandlesKnown, CreateNew
<1>4. f \in Fhs /\ item[f] = None /\ \A u \in Threads : loc[u].fh # f
  BY <1>1, <1>3, HeadFree
<1>5. Moved(t, "create_write", r) /\ r.fh = f
  BY <1>1, <1>2, <1>3 DEF CreateNew, Goto, Moved, TypeOK, Loc
<1>6. /\ pc[t] = "idle" /\ UNCHANGED <<pool, free_fbhs, item, fbmeta>>
      /\ \A g \in Fhs : g # f => fmeta'[g] = fmeta[g]
  BY <1>1, <1>3, <1>4 DEF CreateNew, Start, TypeOK
<1>7. "create_write" \in Creating BY DEF Creating
<1> QED BY <1>4, <1>5, <1>6, <1>7, LossQuiet

\* Nor do its other steps.
LEMMA CreateLoss ==
    ASSUME LossKnown, NEW t \in Threads, CreateWrite(t, TRUE) \/ CreateAdd(t)
    PROVE  Lossless'
<1>1. PICK c : c = loc[t] OBVIOUS
<1>2. PICK f : f = c.fh OBVIOUS
<1>3. HandlesKnown /\ Plain /\ TypeOK /\ pc[t] \in Creating /\ pc[t] # "idle"
  BY DEF LossKnown, FbsKnown, CreateWrite, CreateAdd, At, Creating
<1>4. f \in Fhs /\ \A u \in Threads : u # t => loc[u].fh # f BY <1>1, <1>2, <1>3, Alone
<1>5. UNCHANGED <<pool, free_fbhs, item, fbmeta>> BY DEF CreateWrite, CreateAdd
<1>6. PICK l, r : l \in {"create_add", "idle"} /\ Moved(t, l, r) /\ (l = "idle" \/ r = c)
  BY <1>1, <1>3, ReturnMoved DEF CreateWrite, CreateAdd, Goto, Moved, TypeOK
<1>7. /\ \A g \in Fhs : g # f => fmeta'[g] = fmeta[g]
      /\ fmeta'[f].used = fmeta[f].used /\ fmeta'[f].size = fmeta[f].size
  <2>1. CASE CreateAdd(t) BY <2>1 DEF CreateAdd
  <2>2. CASE CreateWrite(t, TRUE)
    <3>1. fmeta \in [Fhs -> FileMeta] /\ WriteMeta(fmeta, f, TRUE)
      BY <1>1, <1>2, <1>3, <2>2 DEF TypeOK, CreateWrite
    <3>2. /\ fmeta'[f] = [fmeta[f] EXCEPT !.ok = TRUE]
          /\ \A g \in Fhs : g # f => fmeta'[g] = fmeta[g]
      BY <1>3, <1>4, <3>1, Written
    <3> QED BY <1>4, <3>1, <3>2 DEF FileMeta
  <2> QED BY <2>1, <2>2
<1>8. /\ l \in {"idle", "unlink_names"} \cup Creating /\ loc[t].fh = f
      /\ l = "idle" \/ r.fh = f
  BY <1>1, <1>2, <1>6 DEF Creating
<1> QED BY <1>3, <1>4, <1>5, <1>6, <1>7, <1>8, LossQuiet

\* The last two steps of unlink, when the file has no FileBlock any more.
LEMMA UnlinkEndLoss ==
    ASSUME LossKnown, NEW t \in Threads, UnlinkMeta(t, TRUE) \/ UnlinkNames(t)
    PROVE  Lossless'
<1>1. PICK c : c = loc[t] OBVIOUS
<1>2. PICK f : f = c.fh OBVIOUS
<1>3. HandlesKnown /\ Plain /\ TypeOK /\ pc[t] \in {"unlink_meta", "unlink_names"}
      /\ pc[t] # "idle" /\ LossAt(pc[t], c)
  BY <1>1 DEF LossKnown, FbsKnown, Lossless, UnlinkMeta, UnlinkNames, At
<1>4. f \in Fhs /\ \A u \in Threads : u # t => loc[u].fh # f BY <1>1, <1>2, <1>3, Alone
<1>5. UNCHANGED <<pool, free_fbhs, item, fbmeta>> BY DEF UnlinkMeta, UnlinkNames
<1>6. PICK l, r : l \in {"unlink_names", "idle"} /\ Moved(t, l, r) /\ (l = "idle" \/ r = c)
  BY <1>1, <1>3, ReturnMoved DEF UnlinkMeta, UnlinkNames, Goto, Moved, TypeOK
<1>7. /\ \A g \in Fhs : g # f => fmeta'[g] = fmeta[g]
      /\ item[f] = None \/ fmeta' = fmeta
  <2>1. CASE UnlinkNames(t) BY <2>1 DEF UnlinkNames
  <2>2. CASE UnlinkMeta(t, TRUE)
    <3>1. PICK fm : fm = [fmeta EXCEPT ![f] = ClearMeta(@)] OBVIOUS
    <3>2. WriteMeta(fm, f, TRUE) /\ pc[t] = "unlink_meta"
      BY <1>1, <1>2, <2>2, <3>1 DEF UnlinkMeta, At
    <3>3. fm \in [Fhs -> FileMeta] BY <1>3, <1>4, <3>1, ClearMetaType DEF TypeOK
    <3>4. \A g \in Fhs : g # f => fm[g] = fmeta[g] BY <1>3, <1>4, <3>1 DEF TypeOK
    <3>5. \A g \in Fhs : g # f => fmeta'[g] = fm[g] BY <1>3, <1>4, <3>2, <3>3, Written
    <3>6. item[f] = None BY <1>2, <1>3, <3>2 DEF LossAt
    <3> QED BY <3>4, <3>5, <3>6
  <2> QED BY <2>1, <2>2
<1>8. loc[t].fh = f /\ (l = "idle" \/ r.fh = f) /\ l \in {"idle", "unlink_names"} \cup Creating
  BY <1>1, <1>2, <1>6
<1>9. item[f] # None => fmeta'[f].used = fmeta[f].used /\ fmeta'[f].size = fmeta[f].size
  BY <1>7
<1>10. \A g \in Fhs : g # f => fmeta'[g] = fmeta[g] BY <1>7
<1>11. pc[t] \in {"idle", "unlink_meta", "unlink_names"} \cup Creating BY <1>3
<1>12. Moved(t, l, r) /\ \A u \in Threads : u # t => loc[u].fh # f BY <1>4, <1>6
<1> QED BY <1>4, <1>5, <1>8, <1>9, <1>10, <1>11, <1>12, LossQuiet

\* rename changes nothing but the name.
LEMMA RenameLoss ==
    ASSUME LossKnown, NEW t \in Threads, NEW n \in Names, NEW m \in Names,
           RenameFile(t, n, m, TRUE)
    PROVE  Lossless'
<1>1. PICK f : f = created_files[n] OBVIOUS
<1>2. /\ HandlesKnown /\ Synced /\ TypeOK /\ status = "up" /\ Free(n) /\ f # None
      /\ pc[t] = "idle" /\ UNCHANGED <<pc, loc>>
      /\ UNCHANGED <<pool, free_fbhs, item, fbmeta>>
  BY <1>1 DEF LossKnown, FbsKnown, RenameFile, Start
<1>3. f \in Fhs /\ fmeta[f] \in FileMeta /\ \A u \in Threads : loc[u].fh # f
  BY <1>1, <1>2, SettledSynced
<1>4. PICK fm : fm = [fmeta EXCEPT ![f].name = m] OBVIOUS
<1>5. WriteMeta(fm, f, TRUE) BY <1>1, <1>4 DEF RenameFile
<1>6. fm \in [Fhs -> FileMeta] BY <1>2, <1>3, <1>4 DEF TypeOK, FileMeta
<1>7. fm[f] = [fmeta[f] EXCEPT !.name = m] /\ \A g \in Fhs : g # f => fm[g] = fmeta[g]
  BY <1>2, <1>3, <1>4 DEF TypeOK
<1>8. fmeta'[f] = [fm[f] EXCEPT !.ok = TRUE] /\ \A g \in Fhs : g # f => fmeta'[g] = fm[g]
  BY <1>2, <1>3, <1>5, <1>6, Written
<1>9. fmeta'[f].used = fmeta[f].used /\ fmeta'[f].size = fmeta[f].size
  BY <1>3, <1>7, <1>8 DEF FileMeta
<1>10. \A g \in Fhs : g # f => fmeta'[g] = fmeta[g] BY <1>7, <1>8
<1>11. Moved(t, "idle", NoLoc) BY <1>2, StaysIdle
<1>12. pc[t] = "idle" /\ \A u \in Threads : u # t => loc[u].fh # f BY <1>2, <1>3
<1>13. UNCHANGED <<pool, free_fbhs, item, fbmeta>> BY <1>2
<1> QED BY <1>3, <1>9, <1>10, <1>11, <1>12, <1>13, LossQuiet

\* What is in a list is its head or in the rest ...
LEMMA HeadOrTail ==
    ASSUME NEW S, NEW s \in Seq(S), s # <<>>, NEW x \in Range(s)
    PROVE  x = Head(s) \/ x \in Range(Tail(s))
<1>1. /\ Len(s) \in Nat \ {0} /\ DOMAIN s = 1 .. Len(s) /\ DOMAIN Tail(s) = 1 .. Len(s) - 1
      /\ \A i \in 1 .. Len(s) - 1 : Tail(s)[i] = s[i + 1]
      /\ Head(s) = s[1]
  OBVIOUS
<1>2. PICK i \in 1 .. Len(s) : x = s[i] BY <1>1 DEF Range
<1>3. CASE i = 1 BY <1>1, <1>2, <1>3
<1>4. CASE i # 1
  <2>1. PICK j \in 1 .. Len(s) - 1 : i = j + 1
    <3>1. i - 1 \in 1 .. Len(s) - 1 /\ i = (i - 1) + 1 BY <1>1, <1>4
    <3> QED BY <3>1
  <2>2. Tail(s)[j] = x BY <1>1, <1>2, <2>1
  <2> QED BY <1>1, <2>1, <2>2 DEF Range
<1> QED BY <1>3, <1>4

\* ... and a list that grew has what it had and the new element.
LEMMA AppendRange ==
    ASSUME NEW S, NEW s \in Seq(S), NEW x \in S
    PROVE  x \in Range(Append(s, x)) /\ Range(s) \subseteq Range(Append(s, x))
<1>1. PICK a : a = Append(s, x) OBVIOUS
<1>2. /\ Len(s) \in Nat /\ DOMAIN s = 1 .. Len(s) /\ DOMAIN a = 1 .. Len(s) + 1
      /\ \A i \in 1 .. Len(s) : a[i] = s[i]
      /\ a[Len(s) + 1] = x
  BY <1>1
<1>3. Len(s) + 1 \in DOMAIN a /\ \A i \in DOMAIN s : i \in DOMAIN a BY <1>2
<1>4. x \in Range(a) BY <1>2, <1>3 DEF Range
<1>5. ASSUME NEW y \in Range(s) PROVE y \in Range(a)
  <2>1. PICK i \in DOMAIN s : y = s[i] BY DEF Range
  <2>2. i \in DOMAIN a /\ a[i] = y BY <1>2, <1>3, <2>1
  <2> QED BY <2>2 DEF Range
<1> QED BY <1>1, <1>4, <1>5

\* A thread's FileBlock is no other file's and no other thread's.
LEMMA OwnFb ==
    ASSUME LossKnown, NEW t \in Threads, loc[t].fb \in Fbs, loc[t].fh \in Fhs,
           \A b \in Fbs : b # loc[t].fb => fbmeta'[b] = fbmeta[b]
    PROVE  /\ \A g \in Fhs : g # loc[t].fh /\ item[g] # None =>
                fbmeta'[item[g]] = fbmeta[item[g]]
           /\ \A u \in Threads : u # t /\ pc[u] = "extend_fb" =>
                fbmeta'[loc[u].fb] = fbmeta[loc[u].fb]
<1>1. /\ TypeOK /\ LocalsSet /\ ItemHeld /\ FbsApart /\ loc[t].new = None
  BY DEF LossKnown, FbsKnown, HandlesKnown, FbsOwned, Plain, PlainAt
<1>2. loc[t].fb # None BY FbNotNone
<1>3. ASSUME NEW g \in Fhs, g # loc[t].fh, item[g] # None
      PROVE  fbmeta'[item[g]] = fbmeta[item[g]]
  <2>1. g \notin Held(t) BY <1>1, <1>3, HandleNotNone DEF Held
  <2>2. item[g] # loc[t].fb BY <1>1, <1>2, <2>1 DEF ItemHeld
  <2>3. item[g] \in Fbs BY <1>1, <1>3 DEF TypeOK
  <2> QED BY <2>2, <2>3
<1>4. ASSUME NEW u \in Threads, u # t, pc[u] = "extend_fb"
      PROVE  fbmeta'[loc[u].fb] = fbmeta[loc[u].fb]
  <2>1. loc[u].fb \in Fbs BY <1>1, <1>4 DEF LocalsSet, Fit
  <2>2. loc[u].fb # loc[t].fb BY <1>1, <1>2, <1>4 DEF FbsApart
  <2> QED BY <2>1, <2>2
<1> QED BY <1>3, <1>4

\* ExtendFile takes a FileBlock off the list into its hands.
LEMMA ExtendStartLoss ==
    ASSUME LossKnown, NEW t \in Threads, NEW n \in Names, NEW off \in Offsets,
           ExtendStart(t, n, off)
    PROVE  Lossless'
<1>1. PICK f : f = created_files[n] OBVIOUS
<1>2. /\ HandlesKnown /\ Synced /\ TypeOK /\ LocalsSet /\ Lossless /\ status = "up" /\ Free(n)
      /\ f # None /\ pc[t] = "idle" /\ loc[t] \in Loc
      /\ UNCHANGED <<pool, item, fbmeta, fmeta>>
  BY <1>1 DEF LossKnown, FbsKnown, HandlesKnown, TypeOK, ExtendStart, Start
<1>3. f \in Fhs /\ \A u \in Threads : loc[u].fh # f BY <1>1, <1>2, SettledSynced
<1>4. PICK r : /\ Moved(t, "extend_blocks", r) /\ r.fh = f
               /\ \/ /\ free_fbhs # <<>> /\ free_fbhs' = Tail(free_fbhs)
                     /\ r.fb = Head(free_fbhs) /\ r.new_fb = TRUE
                  \/ UNCHANGED free_fbhs
  <2>1. CASE /\ free_fbhs # <<>> /\ free_fbhs' = Tail(free_fbhs)
             /\ loc' = [loc EXCEPT ![t].name = n, ![t].fh = f, ![t].off = off,
                                   ![t].fb = Head(free_fbhs), ![t].new_fb = TRUE]
    <3>1. PICK r : r = [loc[t] EXCEPT !.name = n, !.fh = f, !.off = off,
                                      !.fb = Head(free_fbhs), !.new_fb = TRUE] OBVIOUS
    <3>2. Moved(t, "extend_blocks", r)
      BY <1>2, <2>1, <3>1 DEF ExtendStart, Goto, Moved, TypeOK, Loc
    <3>3. r.fh = f /\ r.fb = Head(free_fbhs) /\ r.new_fb = TRUE BY <1>2, <3>1 DEF Loc
    <3> QED BY <2>1, <3>2, <3>3
  <2>2. CASE /\ UNCHANGED free_fbhs
             /\ loc' = [loc EXCEPT ![t].name = n, ![t].fh = f, ![t].off = off,
                                   ![t].fb = item[f]]
    <3>1. PICK r : r = [loc[t] EXCEPT !.name = n, !.fh = f, !.off = off, !.fb = item[f]] OBVIOUS
    <3>2. Moved(t, "extend_blocks", r)
      BY <1>2, <2>2, <3>1 DEF ExtendStart, Goto, Moved, TypeOK, Loc
    <3>3. r.fh = f BY <1>2, <3>1 DEF Loc
    <3> QED BY <2>2, <3>2, <3>3
  <2> QED BY <1>1, <2>1, <2>2 DEF ExtendStart
<1>5. item'[f] # None => fmeta'[f].used /\ Fits(f, fmeta[f].size)'
  <2> SUFFICES ASSUME item[f] # None PROVE fmeta'[f].used /\ Fits(f, fmeta[f].size)' BY <1>2
  <2>1. fmeta[f].used /\ Fits(f, fmeta[f].size) BY <1>2, <1>3, OwnFit
  <2> QED BY <1>2, <2>1 DEF Fits
<1>6. \A x \in Blocks : BlockAt(pc[t], loc[t], f, x) => BlockAt("extend_blocks", r, f, x)'
  BY <1>2 DEF BlockAt, FileIds
<1>7. \A b \in Fbs : FbHeldAt(pc[t], loc[t], f, b) => FbHeldAt("extend_blocks", r, f, b)'
  <2> SUFFICES ASSUME NEW b \in Fbs, b \in Range(free_fbhs) \/ item[f] = b
               PROVE  FbHeldAt("extend_blocks", r, f, b)'
    BY <1>2 DEF FbHeldAt
  <2>1. CASE item[f] = b BY <1>2, <2>1 DEF FbHeldAt
  <2>2. CASE b \in Range(free_fbhs) /\ UNCHANGED free_fbhs BY <2>2 DEF FbHeldAt
  <2>3. CASE b \in Range(free_fbhs) /\ ~UNCHANGED free_fbhs
    <3>1. /\ free_fbhs # <<>> /\ free_fbhs' = Tail(free_fbhs)
          /\ r.fb = Head(free_fbhs) /\ r.new_fb = TRUE
      BY <1>4, <2>3
    <3>2. free_fbhs \in Seq(Fbs) BY <1>2 DEF TypeOK
    <3>3. b = Head(free_fbhs) \/ b \in Range(Tail(free_fbhs))
      BY <2>3, <3>1, <3>2, HeadOrTail
    <3> QED BY <3>1, <3>3 DEF FbHeldAt
  <2> QED BY <2>1, <2>2, <2>3
<1>8. LossAt("extend_blocks", r)' BY DEF LossAt
<1>9. /\ \A g \in Fhs : g # f =>
            /\ item'[g] = item[g] /\ fmeta'[g] = fmeta[g]
            /\ item[g] # None => fbmeta'[item[g]] = fbmeta[item[g]]
      /\ \A u \in Threads : u # t /\ pc[u] = "extend_fb" => fbmeta'[loc[u].fb] = fbmeta[loc[u].fb]
  BY <1>2
<1>10. TypeOK /\ LocalsSet /\ Lossless /\ pc[t] = "idle" BY <1>2
<1>11. Moved(t, "extend_blocks", r) /\ r.fh = f BY <1>4
<1> QED BY <1>3, <1>5, <1>6, <1>7, <1>8, <1>9, <1>10, <1>11, LossStep

\* unlink gives back all the blocks of its file.
LEMMA UnlinkStartLoss ==
    ASSUME LossKnown, NEW t \in Threads, NEW n \in Names, UnlinkStart(t, n)
    PROVE  Lossless'
<1>1. PICK f : f = created_files[n] OBVIOUS
<1>2. /\ HandlesKnown /\ Synced /\ TypeOK /\ LocalsSet /\ Lossless /\ status = "up" /\ Free(n)
      /\ f # None /\ pc[t] = "idle" /\ loc[t] \in Loc
      /\ UNCHANGED <<free_fbhs, item, fbmeta, fmeta>>
      /\ pool' = IF item[f] = None THEN pool ELSE pool \cup Range(fbmeta[item[f]].ids)
  BY <1>1 DEF LossKnown, FbsKnown, HandlesKnown, TypeOK, UnlinkStart, Start
<1>3. f \in Fhs /\ \A u \in Threads : loc[u].fh # f BY <1>1, <1>2, SettledSynced
<1>4. PICK l, r : /\ l = (IF item[f] = None THEN "unlink_meta" ELSE "unlink_fb")
                  /\ r = [loc[t] EXCEPT !.name = n, !.fh = f, !.fb = item[f]]
  OBVIOUS
<1>5. Moved(t, l, r) BY <1>1, <1>2, <1>4 DEF UnlinkStart, Goto, Moved, TypeOK, Loc
<1>6. r.fh = f BY <1>2, <1>4 DEF Loc
<1>7. item'[f] # None => fmeta'[f].used /\ Fits(f, fmeta[f].size)'
  <2> SUFFICES ASSUME item[f] # None PROVE fmeta'[f].used /\ Fits(f, fmeta[f].size)' BY <1>2
  <2>1. fmeta[f].used /\ Fits(f, fmeta[f].size) BY <1>2, <1>3, OwnFit
  <2> QED BY <1>2, <2>1 DEF Fits
<1>8. FileIds(f) \subseteq pool' /\ pool \subseteq pool' BY <1>2 DEF FileIds
<1>9. \A x \in Blocks : BlockAt(pc[t], loc[t], f, x) => BlockAt(l, r, f, x)'
  BY <1>2, <1>8 DEF BlockAt
<1>10. \A b \in Fbs : FbHeldAt(pc[t], loc[t], f, b) => FbHeldAt(l, r, f, b)'
  BY <1>2 DEF FbHeldAt
<1>11. LossAt(l, r)' BY <1>2, <1>4, <1>6 DEF LossAt
<1>12. /\ \A g \in Fhs : g # f =>
            /\ item'[g] = item[g] /\ fmeta'[g] = fmeta[g]
            /\ item[g] # None => fbmeta'[item[g]] = fbmeta[item[g]]
       /\ \A u \in Threads : u # t /\ pc[u] = "extend_fb" => fbmeta'[loc[u].fb] = fbmeta[loc[u].fb]
  BY <1>2
<1>13. TypeOK /\ LocalsSet /\ Lossless /\ pc[t] = "idle" BY <1>2
<1> QED BY <1>3, <1>5, <1>6, <1>7, <1>9, <1>10, <1>11, <1>12, <1>13, LossStep

\* ... and its FileBlock when that is cleared.
LEMMA UnlinkFbLoss ==
    ASSUME LossKnown, NEW t \in Threads, UnlinkFb(t, TRUE)
    PROVE  Lossless'
<1>1. PICK c, f, b : c = loc[t] /\ f = c.fh /\ b = c.fb OBVIOUS
<1>2. /\ TypeOK /\ LocalsSet /\ Lossless /\ HandlesKnown /\ Plain /\ FbAt(pc[t], c)
      /\ pc[t] = "unlink_fb" /\ pc[t] # "idle" /\ c \in Loc
  BY <1>1 DEF LossKnown, FbsKnown, HandlesKnown, FbsOwned, FbsPlaced, UnlinkFb, At, TypeOK
<1>3. f \in Fhs /\ \A u \in Threads : u # t => loc[u].fh # f BY <1>1, <1>2, Alone
<1>4. b \in Fbs /\ item[f] = b BY <1>1, <1>2 DEF LocalsSet, Fit, FbAt
<1>5. /\ fbmeta' = [fbmeta EXCEPT ![b] = FreshFb] /\ free_fbhs' = Append(free_fbhs, b)
      /\ item' = [item EXCEPT ![f] = None] /\ UNCHANGED <<pool, fmeta>>
  BY <1>1 DEF UnlinkFb, WriteFbMeta
<1>6. PICK r : r = [c EXCEPT !.fb = None] OBVIOUS
<1>7. Moved(t, "unlink_meta", r) BY <1>1, <1>2, <1>6 DEF UnlinkFb, Goto, Moved, TypeOK, Loc
<1>8. r.fh = f BY <1>1, <1>2, <1>6 DEF Loc
<1>9. \A d \in Fbs : d # b => fbmeta'[d] = fbmeta[d] BY <1>2, <1>5 DEF TypeOK
<1>10. item'[f] = None /\ \A g \in Fhs : g # f => item'[g] = item[g]
  BY <1>2, <1>3, <1>5 DEF TypeOK
<1>11. /\ \A g \in Fhs : g # f /\ item[g] # None => fbmeta'[item[g]] = fbmeta[item[g]]
       /\ \A u \in Threads : u # t /\ pc[u] = "extend_fb" => fbmeta'[loc[u].fb] = fbmeta[loc[u].fb]
  BY <1>1, <1>3, <1>4, <1>9, OwnFb
<1>12. \A x \in Blocks : BlockAt(pc[t], loc[t], f, x) => BlockAt("unlink_meta", r, f, x)'
  BY <1>2, <1>5 DEF BlockAt
<1>13. free_fbhs \in Seq(Fbs) BY <1>2 DEF TypeOK
<1>14. b \in Range(free_fbhs') /\ Range(free_fbhs) \subseteq Range(free_fbhs')
  BY <1>4, <1>5, <1>13, AppendRange
<1>15. \A d \in Fbs : FbHeldAt(pc[t], loc[t], f, d) => FbHeldAt("unlink_meta", r, f, d)'
  BY <1>2, <1>4, <1>14 DEF FbHeldAt, Range
<1>16. LossAt("unlink_meta", r)' BY <1>8, <1>10 DEF LossAt
<1>17. \A g \in Fhs : g # f => /\ item'[g] = item[g] /\ fmeta'[g] = fmeta[g]
                               /\ item[g] # None => fbmeta'[item[g]] = fbmeta[item[g]]
  BY <1>5, <1>10, <1>11
<1>18. TypeOK /\ LocalsSet /\ Lossless /\ loc[t].fh = f BY <1>1, <1>2
<1>19. \A u \in Threads : u # t => loc[u].fh # f BY <1>3
<1>20. \A u \in Threads : u # t /\ pc[u] = "extend_fb" => fbmeta'[loc[u].fb] = fbmeta[loc[u].fb]
  BY <1>11
<1> QED BY <1>3, <1>7, <1>8, <1>10, <1>12, <1>15, <1>16, <1>17, <1>18, <1>19, <1>20, LossStep

\* ExtendFile persists the size that its blocks are for.
LEMMA ExtendSizeLoss ==
    ASSUME LossKnown, NEW t \in Threads, ExtendSize(t, TRUE)
    PROVE  Lossless'
<1>1. PICK c, f : c = loc[t] /\ f = c.fh OBVIOUS
<1>2. /\ TypeOK /\ LocalsSet /\ Lossless /\ HandlesKnown /\ Plain /\ LossAt(pc[t], c)
      /\ pc[t] = "extend_size" /\ pc[t] # "idle" /\ c \in Loc
  BY <1>1 DEF LossKnown, FbsKnown, HandlesKnown, Lossless, ExtendSize, At, TypeOK
<1>3. f \in Fhs /\ \A u \in Threads : u # t => loc[u].fh # f BY <1>1, <1>2, Alone
<1>4. PICK fm : fm = [fmeta EXCEPT ![f].size = c.off] OBVIOUS
<1>5. /\ WriteMeta(fm, f, TRUE) /\ Moved(t, "idle", NoLoc)
      /\ UNCHANGED <<pool, free_fbhs, item, fbmeta>>
  BY <1>1, <1>4, ReturnMoved DEF ExtendSize
<1>6. c.off \in Nat /\ fmeta[f] \in FileMeta BY <1>2, <1>3 DEF TypeOK, Loc
<1>7. fm \in [Fhs -> FileMeta] BY <1>2, <1>3, <1>4, <1>6, SizeSetType
<1>8. fm[f] = [fmeta[f] EXCEPT !.size = c.off] /\ \A g \in Fhs : g # f => fm[g] = fmeta[g]
  BY <1>2, <1>3, <1>4 DEF TypeOK
<1>9. fmeta'[f] = [fm[f] EXCEPT !.ok = TRUE] /\ \A g \in Fhs : g # f => fmeta'[g] = fm[g]
  BY <1>2, <1>3, <1>5, <1>7, Written
<1>10. fmeta'[f].used = fmeta[f].used /\ fmeta'[f].size = c.off
  BY <1>6, <1>8, <1>9 DEF FileMeta
<1>11. item'[f] # None => fmeta'[f].used /\ Fits(f, fmeta[f].size)'
  <2> SUFFICES ASSUME item[f] # None PROVE fmeta'[f].used /\ Fits(f, fmeta[f].size)' BY <1>5
  <2>1. fmeta[f].used BY <1>2, <1>3 DEF Lossless, FilesFit
  <2>2. Fits(f, c.off) BY <1>1, <1>2 DEF LossAt
  <2> QED BY <1>5, <1>10, <2>1, <2>2 DEF Fits
<1>12. \A x \in Blocks : BlockAt(pc[t], loc[t], f, x) => BlockAt("idle", NoLoc, f, x)'
  BY <1>2, <1>5 DEF BlockAt, FileIds
<1>13. \A b \in Fbs : FbHeldAt(pc[t], loc[t], f, b) => FbHeldAt("idle", NoLoc, f, b)'
  BY <1>2, <1>5 DEF FbHeldAt
<1>14. LossAt("idle", NoLoc)' BY DEF LossAt
<1>15. /\ \A g \in Fhs : g # f =>
            /\ item'[g] = item[g] /\ fmeta'[g] = fmeta[g]
            /\ item[g] # None => fbmeta'[item[g]] = fbmeta[item[g]]
       /\ \A u \in Threads : u # t /\ pc[u] = "extend_fb" => fbmeta'[loc[u].fb] = fbmeta[loc[u].fb]
  BY <1>5, <1>8, <1>9
<1>16. TypeOK /\ LocalsSet /\ Lossless /\ loc[t].fh = f /\ Moved(t, "idle", NoLoc)
  BY <1>1, <1>2, <1>5
<1> QED BY <1>3, <1>11, <1>12, <1>13, <1>14, <1>15, <1>16, LossStep

\* A thread that extends knows how many blocks its file has and needs.
LEMMA Needs ==
    ASSUME LossKnown, OffsetsFit, NEW t \in Threads, pc[t] \in {"extend_blocks", "extend_fb"}
    PROVE  LET f == loc[t].fh
               off == loc[t].off
               need == BlocksNeeded(fmeta[f].size, off)
           IN  /\ f \in Fhs /\ loc[t].fb \in Fbs /\ off \in Nat /\ need \in Nat
               /\ fmeta[f].used /\ fmeta[f].size \in Nat /\ NumBlocks(off) <= Capacity
               /\ NumBlocks(fmeta[f].size) \in Nat /\ NumBlocks(off) \in Nat
               /\ NumBlocks(fmeta[f].size) + need <= NumBlocks(off)
               /\ \/ loc[t].new_fb /\ item[f] = None /\ need > 0
                  \/ ~loc[t].new_fb /\ item[f] = loc[t].fb
               /\ item[f] # None => Len(fbmeta[item[f]].ids) <= NumBlocks(fmeta[f].size)
<1>1. PICK c, f, off, size : c = loc[t] /\ f = c.fh /\ off = c.off /\ size = fmeta[f].size OBVIOUS
<1>2. /\ FbsKnown /\ BlocksOwned /\ Plain /\ MetasUsed /\ HandlesKnown /\ Lossless /\ TypeOK
      /\ pc[t] # "idle"
  BY DEF LossKnown, FbsKnown
<1>3. /\ BlocksAt(pc[t], c) /\ Fit(pc[t], c) /\ c \in Loc BY <1>1, <1>2, OwnPlace
<1>4. f \in Fhs /\ \A u \in Threads : u # t => loc[u].fh # f BY <1>1, <1>2, Alone
<1>5. c.fb \in Fbs /\ Covered(f) /\ ExtendAt(pc[t], c)
  BY <1>1, <1>3 DEF BlocksAt, Fit, CoveredAt
<1>6. /\ off \in Nat /\ size \in Nat /\ size < off /\ (c.new_fb <=> size = 0)
      /\ ~c.new_fb => c.fb = item[f]
  BY <1>1, <1>2, <1>3, <1>4, <1>5 DEF ExtendAt, TypeOK, FileMeta, Loc
<1>7. off \in Offsets BY <1>1, <1>2 DEF Plain, PlainAt, ExtendPcs
<1>8. fmeta[f].used BY <1>1, <1>2 DEF MetasUsed, HeldUsed, UsedAt, Cleared
<1>9. item[f] # None => Len(fbmeta[item[f]].ids) <= NumBlocks(size)
  BY <1>1, <1>2, <1>4, OwnFit DEF Fits
<1>10. PICK need : need = BlocksNeeded(size, off) OBVIOUS
<1>11. need \in Nat /\ NumBlocks(size) + need <= NumBlocks(off)
  BY <1>6, <1>10, BlocksNeededNat, NeededFits
<1>12. /\ NumBlocks(size) \in Nat /\ NumBlocks(off) \in Nat
       /\ BlockSize * NumBlocks(off) < off + BlockSize
  BY <1>6, NumBlocksTight
<1>13. NumBlocks(off) <= Capacity
  <2>1. off <= BlockSize * Capacity /\ Capacity \in Nat BY <1>7, StoreAssumption DEF OffsetsFit
  <2> QED BY <1>6, <1>12, <2>1, NoMoreBlocks
<1>14. \/ c.new_fb /\ item[f] = None /\ need > 0
       \/ ~c.new_fb /\ item[f] = c.fb
  <2>1. CASE c.new_fb
    <3>1. size = 0 /\ 0 < off BY <1>6, <2>1
    <3>2. item[f] = None BY <1>1, <1>5, <3>1 DEF Covered, CoveredTo
    <3>3. BlocksNeeded(0, off) > 0 BY <1>6, <3>1, FirstNeeded
    <3> QED BY <1>10, <2>1, <3>1, <3>2, <3>3
  <2> QED BY <1>6, <2>1
<1> QED BY <1>1, <1>4, <1>5, <1>6, <1>8, <1>9, <1>10, <1>11, <1>12, <1>13, <1>14

\* ExtendFile takes blocks of the pool into its hands, or puts a new FileBlock back.
LEMMA ExtendBlocksLoss ==
    ASSUME LossKnown, OffsetsFit, NEW t \in Threads, ExtendBlocks(t)
    PROVE  Lossless'
<1>1. PICK c, f, need : c = loc[t] /\ f = c.fh /\ need = BlocksNeeded(fmeta[f].size, c.off)
  OBVIOUS
<1>2. /\ TypeOK /\ LocalsSet /\ Lossless /\ HandlesKnown /\ Plain /\ FbAt(pc[t], c)
      /\ pc[t] = "extend_blocks" /\ pc[t] # "idle" /\ c \in Loc
      /\ UNCHANGED <<fmeta, fbmeta, item>>
  BY <1>1 DEF LossKnown, FbsKnown, HandlesKnown, FbsOwned, FbsPlaced, ExtendBlocks, At, TypeOK
<1>3. \A u \in Threads : u # t => loc[u].fh # f BY <1>1, <1>2, Alone
<1>4. /\ f \in Fhs /\ c.fb \in Fbs /\ need \in Nat /\ NumBlocks(c.off) \in Nat
      /\ NumBlocks(fmeta[f].size) \in Nat
      /\ NumBlocks(fmeta[f].size) + need <= NumBlocks(c.off)
      /\ \/ c.new_fb /\ item[f] = None /\ need > 0
         \/ ~c.new_fb /\ item[f] = c.fb
      /\ item[f] # None => Len(fbmeta[item[f]].ids) <= NumBlocks(fmeta[f].size)
  BY <1>1, <1>2, Needs
<1>5. item'[f] # None => fmeta'[f].used /\ Fits(f, fmeta[f].size)'
  <2> SUFFICES ASSUME item[f] # None PROVE fmeta'[f].used /\ Fits(f, fmeta[f].size)' BY <1>2
  <2>1. fmeta[f].used /\ Fits(f, fmeta[f].size) BY <1>2, <1>3, <1>4, OwnFit
  <2> QED BY <1>2, <2>1 DEF Fits
<1>6. /\ \A g \in Fhs : g # f =>
            /\ item'[g] = item[g] /\ fmeta'[g] = fmeta[g]
            /\ item[g] # None => fbmeta'[item[g]] = fbmeta[item[g]]
      /\ \A u \in Threads : u # t /\ pc[u] = "extend_fb" => fbmeta'[loc[u].fb] = fbmeta[loc[u].fb]
  BY <1>2
<1>7. TypeOK /\ LocalsSet /\ Lossless /\ loc[t].fh = f BY <1>1, <1>2
<1>8. CASE free_fbhs' = PutBack(t) /\ Return(t) /\ UNCHANGED pool
  <2>1. Moved(t, "idle", NoLoc) BY <1>8, ReturnMoved
  <2>2. \A x \in Blocks : BlockAt(pc[t], loc[t], f, x) => BlockAt("idle", NoLoc, f, x)'
    BY <1>2, <1>8 DEF BlockAt, FileIds
  <2>3. free_fbhs \in Seq(Fbs) BY <1>2 DEF TypeOK
  <2>4. Range(free_fbhs) \subseteq Range(free_fbhs')
        /\ (c.new_fb => c.fb \in Range(free_fbhs'))
    BY <1>1, <1>4, <1>8, <2>3, AppendRange DEF PutBack
  <2>5. \A b \in Fbs : FbHeldAt(pc[t], loc[t], f, b) => FbHeldAt("idle", NoLoc, f, b)'
    BY <1>1, <1>2, <2>4 DEF FbHeldAt, Range
  <2>6. LossAt("idle", NoLoc)' BY DEF LossAt
  <2> QED BY <1>3, <1>4, <1>5, <1>6, <1>7, <2>1, <2>2, <2>5, <2>6, LossStep
<1>9. ASSUME NEW s \in BlockChoices(need), pool' = pool \ Range(s), UNCHANGED free_fbhs,
             loc' = [loc EXCEPT ![t].ids = s],
             Goto(t, IF need > 0 THEN "extend_fb" ELSE "extend_size")
      PROVE  Lossless'
  <2>1. s \in Seq(Blocks) /\ Len(s) = need BY <1>2, <1>4, <1>9, ChosenBlocks
  <2>2. PICK l, r : /\ l = (IF need > 0 THEN "extend_fb" ELSE "extend_size")
                    /\ r = [c EXCEPT !.ids = s]
    OBVIOUS
  <2>3. Moved(t, l, r) BY <1>1, <1>2, <1>9, <2>2 DEF Goto, Moved, TypeOK
  <2>4. r.fh = f /\ r.fb = c.fb /\ r.ids = s /\ r.off = c.off /\ r.new_fb = c.new_fb
    BY <1>1, <1>2, <2>2 DEF Loc
  <2>5. need = 0 => Range(s) = {}
    <3>1. need = 0 => s = <<>> BY <2>1
    <3> QED BY <3>1, EmptyList
  <2>6. \A x \in Blocks : BlockAt(pc[t], loc[t], f, x) => BlockAt(l, r, f, x)'
    <3> SUFFICES ASSUME NEW x \in Blocks, x \in pool \/ x \in FileIds(f)
                 PROVE  BlockAt(l, r, f, x)'
      BY <1>2 DEF BlockAt
    <3>1. CASE x \in FileIds(f)
      <4>1. FileIds(f)' = FileIds(f) BY <1>2 DEF FileIds
      <4> QED BY <2>2, <3>1, <4>1 DEF BlockAt
    <3>2. CASE x \in pool /\ x \notin Range(s) BY <1>9, <3>2 DEF BlockAt
    <3>3. CASE x \in Range(s)
      <4>1. need > 0 BY <1>4, <2>5, <3>3
      <4>2. l = "extend_fb" BY <2>2, <4>1
      <4> QED BY <2>4, <3>3, <4>2 DEF BlockAt
    <3> QED BY <3>1, <3>2, <3>3
  <2>7. \A b \in Fbs : FbHeldAt(pc[t], loc[t], f, b) => FbHeldAt(l, r, f, b)'
    <3>1. c.new_fb => l = "extend_fb" BY <1>4, <2>2
    <3> QED BY <1>1, <1>2, <1>9, <2>4, <3>1 DEF FbHeldAt
  <2>8. LossAt(l, r)'
    <3>1. CASE need > 0
      <4>1. l = "extend_fb" BY <2>2, <3>1
      <4>2. c.new_fb => fbmeta[c.fb].ids = <<>> BY <1>2 DEF FbAt, FreshFb
      <4> QED BY <1>2, <2>4, <4>1, <4>2 DEF LossAt
    <3>2. CASE need = 0
      <4>1. l = "extend_size" BY <2>2, <3>2
      <4>2. item[f] # None => Len(fbmeta[item[f]].ids) <= NumBlocks(c.off)
        <5> SUFFICES ASSUME item[f] # None PROVE Len(fbmeta[item[f]].ids) <= NumBlocks(c.off)
          OBVIOUS
        <5>1. item[f] \in Fbs BY <1>2, <1>4 DEF TypeOK
        <5>2. Len(fbmeta[item[f]].ids) \in Nat BY <1>2, <5>1 DEF TypeOK, FileBlockMeta
        <5> QED BY <1>4, <3>2, <5>2
      <4> QED BY <1>2, <2>4, <4>1, <4>2 DEF LossAt, Fits
    <3> QED BY <1>4, <3>1, <3>2
  <2> QED BY <1>3, <1>4, <1>5, <1>6, <1>7, <2>3, <2>4, <2>6, <2>7, <2>8, LossStep
<1> QED BY <1>1, <1>8, <1>9 DEF ExtendBlocks

\* ExtendFile has no more blocks than fit, and all of them get into the file.
LEMMA ExtendFbLoss ==
    ASSUME LossKnown, OffsetsFit, NEW t \in Threads, ExtendFb(t, TRUE)
    PROVE  Lossless'
<1>1. PICK c, f, b, size, need : /\ c = loc[t] /\ f = c.fh /\ b = c.fb /\ size = fmeta[f].size
                                 /\ need = BlocksNeeded(size, c.off)
  OBVIOUS
<1>2. /\ FbsKnown /\ BlocksOwned /\ TypeOK /\ LocalsSet /\ Lossless /\ HandlesKnown /\ Plain
      /\ pc[t] = "extend_fb" /\ pc[t] # "idle" /\ c \in Loc /\ LossAt(pc[t], c)
  BY <1>1 DEF LossKnown, FbsKnown, HandlesKnown, Lossless, ExtendFb, At, TypeOK
<1>3. \A u \in Threads : u # t => loc[u].fh # f BY <1>1, <1>2, Alone
<1>4. /\ f \in Fhs /\ b \in Fbs /\ need \in Nat /\ NumBlocks(c.off) \in Nat
      /\ fmeta[f].used /\ NumBlocks(c.off) <= Capacity
      /\ NumBlocks(size) \in Nat /\ NumBlocks(size) + need <= NumBlocks(c.off)
      /\ \/ c.new_fb /\ item[f] = None
         \/ ~c.new_fb /\ item[f] = b
      /\ item[f] # None => Len(fbmeta[item[f]].ids) <= NumBlocks(size)
  BY <1>1, <1>2, Needs
<1>5. PICK old : old = fbmeta[b].ids OBVIOUS
<1>6. old \in Seq(Blocks) /\ c.ids \in Seq(Blocks)
  BY <1>2, <1>4, <1>5 DEF TypeOK, FileBlockMeta, Loc
<1>7. /\ ExtendAt("extend_fb", c) /\ IdsOnce
  BY <1>1, <1>2, OwnPlace DEF BlocksAt
<1>8. /\ Len(c.ids) = need /\ IsInjective(c.ids) /\ IsInjective(old)
      /\ Range(old) \cap Range(c.ids) = {} /\ Len(old) <= Capacity
  BY <1>1, <1>4, <1>5, <1>7, FbNotNone DEF ExtendAt, IdsOnce, Ids
<1>9. Len(old) \in Nat /\ Len(old) <= NumBlocks(size)
  <2>1. Len(old) \in Nat BY <1>6
  <2>2. CASE c.new_fb
    <3>1. old = <<>> BY <1>2, <1>5, <1>1, <2>2 DEF LossAt
    <3>2. Len(old) = 0 BY <3>1
    <3> QED BY <1>4, <3>2
  <2>3. CASE ~c.new_fb
    <3>1. item[f] = b /\ b # None BY <1>4, <2>3, FbNotNone
    <3> QED BY <1>4, <1>5, <2>1, <3>1
  <2> QED BY <2>2, <2>3
<1>10. Len(old) + need <= NumBlocks(c.off) BY <1>4, <1>9
<1>11. Len(c.ids) <= Room(b)
  <2>1. Capacity \in Nat /\ Len(old) + need <= Capacity BY <1>4, <1>9, <1>10, StoreAssumption
  <2>2. need <= Capacity - Len(old) BY <1>4, <1>9, <2>1
  <2> QED BY <1>5, <1>8, <2>2 DEF Room
<1>12. /\ fbmeta' = [fbmeta EXCEPT ![b] = FilledFb(t)]
       /\ item' = IF c.new_fb /\ item[f] = None THEN [item EXCEPT ![f] = b] ELSE item
       /\ Moved(t, "extend_size", c) /\ UNCHANGED <<pool, free_fbhs, fmeta>>
  <2>1. ~(Len(loc[t].ids) > Room(loc[t].fb))
    <3>1. Room(b) \in Int BY <1>5, <1>9, StoreAssumption DEF Room
    <3> QED BY <1>1, <1>4, <1>8, <1>11, <3>1
  <2>2. WriteFbMeta([fbmeta EXCEPT ![b] = FilledFb(t)], b, TRUE) /\ Goto(t, "extend_size")
        /\ UNCHANGED loc
    BY <1>1, <2>1 DEF ExtendFb
  <2>3. item' = IF c.new_fb /\ item[f] = None THEN [item EXCEPT ![f] = b] ELSE item
    BY <1>1, <2>1 DEF ExtendFb
  <2>4. Moved(t, "extend_size", c) BY <1>1, <1>2, <2>2 DEF Goto, Moved, TypeOK
  <2> QED BY <2>2, <2>3, <2>4 DEF ExtendFb, WriteFbMeta
<1>13. /\ fbmeta'[b].ids = old \o c.ids /\ \A d \in Fbs : d # b => fbmeta'[d] = fbmeta[d]
  <2>1. FilledFb(t).ids = old \o c.ids BY <1>1, <1>2, <1>4, <1>5, <1>8, <1>11, FilledTo
  <2> QED BY <1>2, <1>4, <1>12, <2>1 DEF TypeOK
<1>14. item'[f] = b /\ \A g \in Fhs : g # f => item'[g] = item[g]
  BY <1>2, <1>4, <1>12 DEF TypeOK
<1>15. /\ Range(old \o c.ids) = Range(old) \cup Range(c.ids)
       /\ Len(old \o c.ids) = Len(old) + need
  BY <1>6, <1>8, InjectiveConcat
<1>16. FileIds(f)' = Range(old) \cup Range(c.ids) /\ FileIds(f) \subseteq Range(old)
  <2>1. f # None /\ b # None BY <1>4, HandleNotNone, FbNotNone
  <2>2. FileIds(f)' = Range(fbmeta'[b].ids)
    <3>1. FileIds(f)' = IF f = None \/ item'[f] = None THEN {} ELSE Range(fbmeta'[item'[f]].ids)
      BY DEF FileIds, Range
    <3> QED BY <1>14, <2>1, <3>1
  <2>3. FileIds(f) \subseteq Range(old) BY <1>4, <1>5 DEF FileIds
  <2> QED BY <1>13, <1>15, <2>2, <2>3
<1>17. \A x \in Blocks : BlockAt(pc[t], loc[t], f, x) => BlockAt("extend_size", c, f, x)'
  BY <1>1, <1>12, <1>16 DEF BlockAt
<1>18. \A d \in Fbs : FbHeldAt(pc[t], loc[t], f, d) => FbHeldAt("extend_size", c, f, d)'
  <2>1. \A d \in Fbs : item[f] = d => item'[f] = d BY <1>4, <1>14, FbNotNone
  <2> QED BY <1>1, <1>12, <1>14, <2>1 DEF FbHeldAt
<1>19. LossAt("extend_size", c)'
  <2>1. Len(fbmeta'[item'[f]].ids) <= NumBlocks(c.off) BY <1>10, <1>13, <1>14, <1>15
  <2> QED BY <1>1, <2>1 DEF LossAt, Fits
<1>20. fmeta'[f].used BY <1>4, <1>12
<1>21. /\ \A g \in Fhs : g # f /\ item[g] # None => fbmeta'[item[g]] = fbmeta[item[g]]
       /\ \A u \in Threads : u # t /\ pc[u] = "extend_fb" => fbmeta'[loc[u].fb] = fbmeta[loc[u].fb]
  BY <1>1, <1>4, <1>13, OwnFb
<1>22. \A g \in Fhs : g # f => /\ item'[g] = item[g] /\ fmeta'[g] = fmeta[g]
                               /\ item[g] # None => fbmeta'[item[g]] = fbmeta[item[g]]
  BY <1>12, <1>14, <1>21
<1>23. \A u \in Threads : u # t /\ pc[u] = "extend_fb" => fbmeta'[loc[u].fb] = fbmeta[loc[u].fb]
  BY <1>21
<1>24. TypeOK /\ LocalsSet /\ Lossless /\ loc[t].fh = f /\ c.fh = f /\ f \in Fhs
       /\ Moved(t, "extend_size", c)
  BY <1>1, <1>2, <1>4, <1>12
<1> QED BY <1>3, <1>17, <1>18, <1>19, <1>20, <1>22, <1>23, <1>24, LossStep

\* The first mount finds every block and every FileBlock free.
LEMMA MountLoss ==
    ASSUME HandlesKnown, FirstMount, Mount
    PROVE  Lossless'
<1>1. UsedFbs = {} BY DEF FirstMount, Mount, UsedFbs, FreshFb
<1>2. \A f \in Fhs : LoadedFb(f) = None BY <1>1, LastFirstType DEF LoadedFb
<1>3. \A f \in Fhs : item'[f] = None BY <1>2 DEF Mount
<1>4. \A u \in Threads : pc'[u] = "idle"
  BY DEF Mount, HandlesKnown, HandlesOwned, IdleHoldsNothing
<1>5. pool' = Blocks BY <1>1 DEF Mount
<1>6. Range(free_fbhs') = Fbs
  <2>1. free_fbhs' \in Ascending(Fbs) BY <1>1 DEF Mount
  <2>2. Fbs \in SUBSET Nat BY DEF Fbs
  <2>3. IsFiniteSet(Fbs)
    <3>1. 0 \in Int /\ MaxFileBlocks - 1 \in Int BY StoreAssumption
    <3> QED BY <3>1, FS_Interval DEF Fbs
  <2> QED BY <2>1, <2>2, <2>3, AscendingAll
<1>7. BlocksKept' BY <1>5 DEF BlocksKept
<1>8. FbsListed' BY <1>6 DEF FbsListed, Range
<1>9. FilesFit' BY <1>3 DEF FilesFit
<1>10. \A u \in Threads : LossAt(pc[u], loc[u])' BY <1>4 DEF LossAt
<1> QED BY <1>7, <1>8, <1>9, <1>10 DEF Lossless

\* Before the first crash no step loses anything.
LEMMA LosslessInvariant ==
    ASSUME NoShrink, OffsetsFit PROVE Spec => [](Calm /\ status = "up" => Lossless)
<1> DEFINE Known == /\ FbsKnown /\ Plain /\ (Calm => BlocksOwned)
                    /\ (failures = 0 => Synced /\ MetasUsed)
<1> DEFINE Inv == Calm /\ status = "up" => Lossless
<1>1. Init => Inv BY DEF Init
<1>2. Known /\ Inv /\ [Next]_vars => Inv'
  <2> SUFFICES ASSUME Known, Inv, [Next]_vars, crashes' = 0, failures' = 0, status' = "up"
               PROVE  Lossless'
    BY DEF Calm
  <2>1. HandlesKnown /\ TypeOK BY DEF FbsKnown, HandlesKnown
  <2>2. failures = 0 /\ (Mount \/ Crash \/ UNCHANGED vars \/ \E t \in Threads : Acts(t))
    BY <2>1, PlainNext
  <2>3. CASE Mount
    <3>1. Calm BY <2>2, <2>3 DEF Mount, Calm
    <3>2. FirstMount BY <3>1 DEF BlocksOwned
    <3> QED BY <2>1, <2>3, <3>2, MountLoss
  <2>4. CASE Crash BY <2>4 DEF Crash, ProcessEnds
  <2>5. CASE UNCHANGED vars
    <3>1. UNCHANGED <<fmeta, fbmeta, free_fbhs, item, pool, pc, loc, status, crashes, failures>>
      BY <2>5 DEF vars, memory
    <3>2. Lossless BY <2>2, <3>1 DEF Calm
    <3> QED BY <3>1, <3>2 DEF Lossless, BlocksKept, FbsListed, FilesFit, Fits, Releasing, Growing,
                              FileIds, LossAt
  <2>6. ASSUME NEW t \in Threads, Acts(t) PROVE Lossless'
    <3>1. crashes = 0
      BY <2>6 DEF Acts, CreateNew, CreateWrite, CreateAdd, ExtendStart, ExtendBlocks, ExtendFb,
                  ExtendSize, UnlinkStart, UnlinkFb, UnlinkMeta, UnlinkNames, RenameFile
    <3>2. status = "up"
      BY <2>6 DEF Acts, CreateNew, CreateWrite, CreateAdd, ExtendStart, ExtendBlocks, ExtendFb,
                  ExtendSize, UnlinkStart, UnlinkFb, UnlinkMeta, UnlinkNames, RenameFile
    <3>3. LossKnown BY <2>1, <2>2, <3>1, <3>2 DEF LossKnown, Calm
    <3> HIDE DEF Known, Inv
    <3>4. CASE \E n \in Names : CreateNew(t, n) BY <3>3, <3>4, CreateNewLoss
    <3>5. CASE CreateWrite(t, TRUE) \/ CreateAdd(t) BY <3>3, <3>5, CreateLoss
    <3>6. CASE \E n \in Names, off \in Offsets : ExtendStart(t, n, off)
      BY <3>3, <3>6, ExtendStartLoss
    <3>7. CASE ExtendBlocks(t) BY <3>3, <3>7, ExtendBlocksLoss
    <3>8. CASE ExtendFb(t, TRUE) BY <3>3, <3>8, ExtendFbLoss
    <3>9. CASE ExtendSize(t, TRUE) BY <3>3, <3>9, ExtendSizeLoss
    <3>10. CASE \E n \in Names : UnlinkStart(t, n) BY <3>3, <3>10, UnlinkStartLoss
    <3>11. CASE UnlinkFb(t, TRUE) BY <3>3, <3>11, UnlinkFbLoss
    <3>12. CASE UnlinkMeta(t, TRUE) \/ UnlinkNames(t) BY <3>3, <3>12, UnlinkEndLoss
    <3>13. CASE \E n, m \in Names : RenameFile(t, n, m, TRUE) BY <3>3, <3>13, RenameLoss
    <3> QED BY <2>6, <3>4, <3>5, <3>6, <3>7, <3>8, <3>9, <3>10, <3>11, <3>12, <3>13 DEF Acts
  <2> QED BY <2>2, <2>3, <2>4, <2>5, <2>6
<1>3. Spec => []Known
  <2>1. /\ HandlesKnown /\ (failures = 0 => MetasUsed) /\ Plain /\ (failures = 0 => Synced)
        /\ FbsKnown /\ (Calm => BlocksOwned)
        => Known
    OBVIOUS
  <2> HIDE DEF Known
  <2> QED BY <2>1, MetasInvariant, PlainInvariant, SyncedInvariant, BlocksInvariant, PTL
<1> HIDE DEF Known, Inv
<1>4. Spec => []Inv BY <1>1, <1>2, <1>3, PTL DEF Spec
<1> QED BY <1>4 DEF Inv

\* Before the first crash and the first failed device write, without shrink and with truncates
\* to no more than a FileBlock holds: whenever no operation is in flight, every data block is
\* in the pool or in a file with a name, and every FileBlock is in the free list or such a
\* file's.  No interleaving of creates, extends, unlinks and renames by any number of threads
\* leaves a block or a FileBlock that nobody will ever give back.
THEOREM NoBlockIsLost ==
    ASSUME NoShrink, OffsetsFit PROVE Spec => [](failures = 0 => NothingLost)
<1> DEFINE Goal == failures = 0 => NothingLost
<1>1. ASSUME TypeOK, Synced, Lossless, status = "up", \A t \in Threads : pc[t] = "idle"
      PROVE  /\ Blocks = pool \cup UNION {FileIds(created_files[n]) : n \in Names}
             /\ Fbs \subseteq Range(free_fbhs) \cup
                    {item[created_files[n]] : n \in {m \in Names : created_files[m] # None}}
  <2>1. ASSUME NEW f \in Fhs, item[f] # None
        PROVE  \E n \in Names : created_files[n] = f
    <3>1. fmeta[f].used BY <1>1, <2>1 DEF Lossless, FilesFit
    <3>2. ~Makes(f) BY <1>1 DEF Makes, Creating
    <3> QED BY <1>1, <3>1, <3>2 DEF Synced, NamesKnown
  <2>2. ASSUME NEW x \in Blocks
        PROVE  x \in pool \cup UNION {FileIds(created_files[n]) : n \in Names}
    <3>1. x \in pool \/ \E f \in Fhs : x \in FileIds(f) BY <1>1 DEF Lossless, BlocksKept
    <3>2. ASSUME NEW f \in Fhs, x \in FileIds(f)
          PROVE  \E n \in Names : x \in FileIds(created_files[n])
      <4>1. item[f] # None BY <3>2 DEF FileIds
      <4> QED BY <2>1, <3>2, <4>1
    <3> QED BY <3>1, <3>2
  <2>3. ASSUME NEW n \in Names PROVE FileIds(created_files[n]) \subseteq Blocks
    <3> SUFFICES ASSUME created_files[n] # None, item[created_files[n]] # None
                 PROVE  Range(fbmeta[item[created_files[n]]].ids) \subseteq Blocks
      BY DEF FileIds
    <3>1. PICK b : b = item[created_files[n]] OBVIOUS
    <3>2. created_files[n] \in Fhs BY <1>1 DEF TypeOK
    <3>3. b \in Fbs BY <1>1, <3>1, <3>2 DEF TypeOK
    <3>4. PICK s \in Seq(Blocks) : s = fbmeta[b].ids BY <1>1, <3>3 DEF TypeOK, FileBlockMeta
    <3>5. Range(s) \subseteq Blocks BY DEF Range
    <3> QED BY <3>1, <3>4, <3>5
  <2>4. pool \subseteq Blocks BY <1>1 DEF TypeOK
  <2>5. ASSUME NEW b \in Fbs
        PROVE  \/ b \in Range(free_fbhs)
               \/ \E n \in Names : created_files[n] # None /\ item[created_files[n]] = b
    <3>1. b \in Range(free_fbhs) \/ \E f \in Fhs : item[f] = b
      BY <1>1 DEF Lossless, FbsListed
    <3>2. ASSUME NEW f \in Fhs, item[f] = b
          PROVE  \E n \in Names : created_files[n] # None /\ item[created_files[n]] = b
      <4>1. item[f] # None /\ f # None BY <3>2, FbNotNone, HandleNotNone
      <4> QED BY <2>1, <3>2, <4>1
    <3> QED BY <3>1, <3>2
  <2> QED BY <2>2, <2>3, <2>4, <2>5
<1>2. /\ FbsKnown /\ (failures = 0 => Synced) /\ (Calm /\ status = "up" => Lossless) => Goal
  BY <1>1 DEF FbsKnown, HandlesKnown, NothingLost, Calm
<1> HIDE DEF Goal
<1>3. Spec => [](FbsKnown /\ (Calm => BlocksOwned)) BY BlocksInvariant
<1>4. Spec => []Goal BY <1>2, <1>3, SyncedInvariant, LosslessInvariant, PTL
<1> QED BY <1>4 DEF Goal
=============================================================================
