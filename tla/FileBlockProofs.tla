--------------------------- MODULE FileBlockProofs ---------------------------
(***************************************************************************)
(* Who has a FileBlock and who has a data block, for every value of the    *)
(* constants.  No extend and no shrink, however the operations interleave, *)
(* fail and crash, takes from free_fbhs_ a FileBlock that has ids or that  *)
(* a file or another thread still has.  Before the first crash and the     *)
(* first failed write no data block has two owners, and every byte below   *)
(* the size of a file has a block.                                         *)
(***************************************************************************)
EXTENDS FileHandleProofs

-----------------------------------------------------------------------------
(* The inductive invariant *)

\* A FileBlock that is not used is as a format leaves it, in memory and on the
\* device.
Blank(m) == m.used \/ m = FreshFb
FbsBlank == \A b \in Fbs : Blank(fbmeta[b]) /\ Blank(disk_fbmeta[b])

\* A FileBlock is one file's.
ItemOnce == \A f, g \in Fhs : item[f] # None /\ item[f] = item[g] => f = g

\* No two threads have a FileBlock in common.
FbsApart == \A t, u \in Threads : t # u /\ loc[t].fb # None => loc[t].fb # loc[u].fb

\* The FileBlock of a thread is attached to no file but the thread's.
ItemHeld == \A t \in Threads, f \in Fhs :
    loc[t].fb # None /\ item[f] = loc[t].fb => f \in Held(t)

Unattached(b) == b # None => \A f \in Fhs : item[f] # b

\* What the code at label l relies on of the FileBlock in its locals r.
FbAt(l, r) ==
    /\ l \in {"extend_blocks", "extend_fb"} /\ r.new_fb => Unattached(r.fb)
    /\ l = "extend_blocks" /\ r.new_fb => fbmeta[r.fb] = FreshFb
    /\ l = "shrink_fb" => r.fb = None
    /\ l = "shrink_copy" => fbmeta[r.fb].used
    /\ l \in {"shrink_copy", "shrink_detach", "shrink_attach"} => Unattached(r.fb)
    /\ l \in {"unlink_fb", "recycle_fb"} => item[r.fh] = r.fb
    /\ l \in {"recycle_meta", "recycle_child"} => r.fb = None
FbsPlaced == \A t \in Threads : FbAt(pc[t], loc[t])

FbsOwned == FbsBlank /\ ItemOnce /\ FbsApart /\ ItemHeld /\ FbsPlaced /\ FreeFbsSound

-----------------------------------------------------------------------------
(* A step of a thread *)

\* A FileBlock is not None.
LEMMA FbNotNone == \A b \in Fbs : b # None
BY StoreAssumption DEF Fbs, None

\* free_fbhs_ lists FileBlocks of the table.
LEMMA FreeAreFbs ==
    ASSUME TypeOK
    PROVE  \A b \in Range(free_fbhs) : b \in Fbs /\ b # None
<1>1. \A i \in DOMAIN free_fbhs : free_fbhs[i] \in Fbs BY DEF TypeOK
<1> QED BY <1>1, FbNotNone DEF Range

\* Thread t goes on to label l with locals r, where it has the FileBlock it had,
\* none, one of the list or its own file's; it changes no other FileBlock, attaches
\* and detaches no other, and lists no other.
LEMMA FbStep ==
    ASSUME HandlesKnown, HandlesKnown', FbsOwned, NEW t \in Threads, NEW l, NEW r,
           Moved(t, l, r),
           FbsBlank', ItemOnce', FbAt(l, r)',
           \A b \in Fbs : b \notin {loc[t].fb, r.fb} => fbmeta'[b] = fbmeta[b],
           \A f \in Fhs : \/ item'[f] = item[f]
                          \/ f \in Held(t) /\ item'[f] \in {None, loc[t].fb},
           \/ r.fb \in {None, loc[t].fb} \cup Range(free_fbhs)
           \/ \E f \in Fhs : f \in Held(t)' /\ item[f] = r.fb,
           r.fb # None => \A f \in Fhs : item'[f] = r.fb => f \in Held(t)',
           IsInjective(free_fbhs'),
           \A b \in Range(free_fbhs') :
                /\ b # r.fb
                /\ \/ b \in Range(free_fbhs)
                   \/ b = loc[t].fb /\ fbmeta'[b] = FreshFb /\ \A f \in Fhs : item'[f] # b
    PROVE  FbsOwned'
<1>1. /\ pc'[t] = l /\ loc'[t] = r
      /\ \A u \in Threads : u # t => pc'[u] = pc[u] /\ loc'[u] = loc[u]
    BY OthersKept DEF HandlesKnown
<1>2. \A u \in Threads : u # t => Held(u)' = Held(u) BY <1>1 DEF Held
<1>3. \A u \in Threads : u # t => Held(u) \cap Held(t) = {} /\ Held(u) \cap Held(t)' = {}
  BY <1>2 DEF HandlesKnown, HandlesOwned, HeldApart
<1>4. ASSUME NEW u \in Threads, u # t, loc[u].fb # None
      PROVE  loc[u].fb # loc[t].fb /\ loc[u].fb # r.fb
  <2>1. loc[u].fb # loc[t].fb BY <1>4 DEF FbsOwned, FbsApart
  <2>2. loc[u].fb \notin Range(free_fbhs) BY DEF FbsOwned, FreeFbsSound
  <2>3. \A f \in Fhs : f \in Held(t)' => item[f] # loc[u].fb
    BY <1>3, <1>4 DEF FbsOwned, ItemHeld
  <2> QED BY <1>4, <2>1, <2>2, <2>3
<1>5. FbsApart' BY <1>1, <1>4 DEF FbsOwned, FbsApart
<1>6. ASSUME NEW u \in Threads, u # t, loc[u].fb # None, NEW f \in Fhs, item'[f] = loc[u].fb
      PROVE  item[f] = loc[u].fb
  BY <1>4, <1>6
<1>7. ItemHeld' BY <1>1, <1>2, <1>6 DEF FbsOwned, ItemHeld
<1>8. ASSUME NEW u \in Threads, u # t PROVE FbAt(pc[u], loc[u])'
  <2>1. FbAt(pc[u], loc[u]) BY DEF FbsOwned, FbsPlaced
  <2>2. Unattached(loc[u].fb) => Unattached(loc[u].fb)' BY <1>1, <1>6, <1>8 DEF Unattached
  <2>3. ASSUME pc[u] \in {"extend_blocks", "shrink_copy"}
        PROVE  fbmeta'[loc[u].fb] = fbmeta[loc[u].fb]
    <3>1. loc[u].fb \in Fbs BY <2>3 DEF HandlesKnown, LocalsSet, Fit
    <3> QED BY <1>4, <1>8, <3>1, FbNotNone
  <2>4. ASSUME pc[u] \in {"unlink_fb", "recycle_fb"} PROVE item'[loc[u].fh] = item[loc[u].fh]
    <3>1. loc[u].fh \in Fhs BY <2>4 DEF HandlesKnown, LocalsSet, Fit
    <3>2. loc[u].fh \in Held(u) BY <3>1, HandleNotNone DEF Held
    <3> QED BY <1>3, <1>8, <3>1, <3>2
  <2>5. pc'[u] = pc[u] /\ loc'[u] = loc[u] BY <1>1, <1>8
  <2> QED BY <2>1, <2>2, <2>3, <2>4, <2>5 DEF FbAt
<1>9. FbsPlaced'
  <2>1. ASSUME NEW u \in Threads PROVE FbAt(pc[u], loc[u])'
    <3>1. CASE u = t BY <1>1, <3>1 DEF FbAt, Unattached
    <3> QED BY <1>8, <3>1
  <2> QED BY <2>1 DEF FbsPlaced
<1>10. FreeFbsSound'
  <2>1. ASSUME NEW b \in Range(free_fbhs')
        PROVE  /\ fbmeta'[b] = FreshFb
               /\ \A f \in Fhs : item'[f] # b
               /\ \A u \in Threads : loc'[u].fb # b
    <3>1. b \in Fbs /\ b # None 
      <4>1. \A i \in DOMAIN free_fbhs' : free_fbhs'[i] \in Fbs BY DEF HandlesKnown, TypeOK
      <4> QED BY <4>1, FbNotNone DEF Range
    <3>2. CASE b \in Range(free_fbhs)
      <4>1. /\ fbmeta[b] = FreshFb /\ \A f \in Fhs : item[f] # b
            /\ \A u \in Threads : loc[u].fb # b
        BY <3>2 DEF FbsOwned, FreeFbsSound
      <4> QED BY <1>1, <2>1, <3>1, <4>1
    <3>3. CASE b \notin Range(free_fbhs)
      BY <1>1, <1>4, <2>1, <3>1, <3>3
    <3> QED BY <3>2, <3>3
  <2> QED BY <2>1 DEF FreeFbsSound
<1> QED BY <1>5, <1>7, <1>9, <1>10 DEF FbsOwned

\* A step that leaves the FileBlocks alone and keeps or drops the thread's own.
LEMMA QuietStep ==
    ASSUME HandlesKnown, HandlesKnown', FbsOwned, NEW t \in Threads, NEW l, NEW r,
           Moved(t, l, r),
           UNCHANGED <<fbmeta, disk_fbmeta, item, free_fbhs>>, FbAt(l, r),
           \/ r.fb = None
           \/ r.fb = loc[t].fb /\ r.fh = loc[t].fh /\ r.new = loc[t].new
    PROVE  FbsOwned'
<1>1. loc'[t] = r BY OthersKept DEF HandlesKnown
<1>2. r.fb # None => r.fb = loc[t].fb /\ Held(t)' = Held(t) BY <1>1 DEF Held
<1>3. FbsBlank' /\ ItemOnce' BY DEF FbsOwned, FbsBlank, ItemOnce
<1>4. FbAt(l, r)' BY DEF FbAt, Unattached
<1>5. r.fb # None => \A f \in Fhs : item'[f] = r.fb => f \in Held(t)'
  BY <1>2 DEF FbsOwned, ItemHeld
<1>6. IsInjective(free_fbhs') /\ \A b \in Range(free_fbhs') : b # r.fb /\ b \in Range(free_fbhs)
  <2>1. \A b \in Range(free_fbhs) : b # None /\ b # loc[t].fb
    BY FreeAreFbs DEF HandlesKnown, FbsOwned, FreeFbsSound
  <2> QED BY <2>1 DEF FbsOwned, FreeFbsSound
<1>7. r.fb \in {None, loc[t].fb} \cup Range(free_fbhs) OBVIOUS
<1> QED BY <1>3, <1>4, <1>5, <1>6, <1>7, FbStep

\* A return drops the thread's FileBlock.
LEMMA ReturnAt == NoLoc.fb = None /\ FbAt("idle", NoLoc)
BY DEF NoLoc, FbAt

\* create claims a meta.
LEMMA CreateNewFbs ==
    ASSUME HandlesKnown, HandlesKnown', FbsOwned, NEW t \in Threads, NEW n \in Names,
           CreateNew(t, n)
    PROVE  FbsOwned'
<1> DEFINE r == [loc[t] EXCEPT !.name = n, !.fh = Head(free_fhs)]
<1>1. Moved(t, "create_write", r)
  BY DEF HandlesKnown, CreateNew, Goto, Moved, TypeOK, Loc
<1>2. loc[t] = NoLoc BY DEF HandlesKnown, HandlesOwned, IdleHoldsNothing, CreateNew, Start
<1>3. r.fb = None BY <1>2 DEF NoLoc
<1> HIDE DEF r
<1>4. FbAt("create_write", r) BY DEF FbAt
<1> QED BY <1>1, <1>3, <1>4, QuietStep DEF CreateNew, disk

\* So does the beginning of a shrink.
LEMMA ShrinkStartFbs ==
    ASSUME HandlesKnown, HandlesKnown', FbsOwned, NEW t \in Threads, NEW n \in Names,
           NEW off \in Offsets, ShrinkStart(t, n, off)
    PROVE  FbsOwned'
<1> DEFINE r == [loc[t] EXCEPT !.name = n, !.fh = created_files[n],
                               !.new = Head(free_fhs), !.off = off]
<1>1. Moved(t, "shrink_fb", r)
  BY DEF HandlesKnown, ShrinkStart, Goto, Moved, TypeOK, Loc
<1>2. loc[t] = NoLoc BY DEF HandlesKnown, HandlesOwned, IdleHoldsNothing, ShrinkStart, Start
<1>3. r.fb = None BY <1>2 DEF NoLoc
<1> HIDE DEF r
<1>4. FbAt("shrink_fb", r) BY <1>3 DEF FbAt
<1> QED BY <1>1, <1>3, <1>4, QuietStep DEF ShrinkStart, disk

\* create persists its meta and enters it in the maps.
LEMMA CreateFbs ==
    ASSUME HandlesKnown, HandlesKnown', FbsOwned, NEW t \in Threads,
           CreateAdd(t) \/ \E good \in BOOLEAN : CreateWrite(t, good)
    PROVE  FbsOwned'
<1>1. ASSUME NEW good \in BOOLEAN, CreateWrite(t, good) PROVE FbsOwned'
  <2>1. Moved(t, "create_add", loc[t]) \/ Moved(t, "idle", NoLoc)
    BY <1>1, ReturnMoved DEF HandlesKnown, CreateWrite, Goto, Moved, TypeOK
  <2>2. FbAt("create_add", loc[t]) BY DEF FbAt
  <2> QED BY <1>1, <2>1, <2>2, ReturnAt, QuietStep DEF CreateWrite
<1>2. CASE CreateAdd(t)
  BY <1>2, ReturnMoved, ReturnAt, QuietStep DEF CreateAdd, disk
<1> QED BY <1>1, <1>2

\* The later steps of a thread that leave the FileBlocks alone.
LEMMA MetaFbs ==
    ASSUME HandlesKnown, HandlesKnown', FbsOwned, NEW t \in Threads, NEW good \in BOOLEAN,
           \/ ExtendSize(t, good) \/ UnlinkMeta(t, good) \/ UnlinkNames(t)
           \/ ShrinkDetach(t) \/ RecycleMeta(t, good) \/ RecycleChild(t, good)
    PROVE  FbsOwned'
<1>1. FbAt(pc[t], loc[t]) BY DEF FbsOwned, FbsPlaced
<1>2. CASE ExtendSize(t, good) \/ UnlinkNames(t) \/ RecycleChild(t, good)
  BY <1>2, ReturnMoved, ReturnAt, QuietStep DEF ExtendSize, UnlinkNames, RecycleChild, disk
<1>3. CASE UnlinkMeta(t, good)
  <2>1. Moved(t, "unlink_names", loc[t]) \/ Moved(t, "idle", NoLoc)
    BY <1>3, ReturnMoved DEF HandlesKnown, UnlinkMeta, Goto, Moved, TypeOK
  <2>2. FbAt("unlink_names", loc[t]) BY DEF FbAt
  <2> QED BY <1>3, <2>1, <2>2, ReturnAt, QuietStep DEF UnlinkMeta
<1>4. CASE ShrinkDetach(t)
  <2>1. Moved(t, "shrink_attach", loc[t]) /\ pc[t] = "shrink_detach"
    BY <1>4 DEF HandlesKnown, ShrinkDetach, Goto, Moved, TypeOK, At
  <2>2. FbAt("shrink_attach", loc[t]) BY <1>1, <2>1 DEF FbAt
  <2> QED BY <1>4, <2>1, <2>2, QuietStep DEF ShrinkDetach, disk
<1>5. CASE RecycleMeta(t, good)
  <2> DEFINE r == [loc[t] EXCEPT !.fh = None]
  <2>1. Moved(t, "recycle_child", r) \/ Moved(t, "idle", NoLoc)
    BY <1>5, ReturnMoved DEF HandlesKnown, RecycleMeta, Goto, Moved, TypeOK, Loc
  <2>2. pc[t] = "recycle_meta" BY <1>5 DEF RecycleMeta, At
  <2>3. loc[t].fb = None BY <1>1, <2>2 DEF FbAt
  <2>4. r.fb = None BY <2>3 DEF HandlesKnown, TypeOK, Loc
  <2> HIDE DEF r
  <2>5. FbAt("recycle_child", r) BY <2>4 DEF FbAt
  <2> QED BY <1>5, <2>1, <2>4, <2>5, ReturnAt, QuietStep DEF RecycleMeta
<1> QED BY <1>2, <1>3, <1>4, <1>5

\* The page reads and writes that ShrinkFile makes outside the mutex.
LEMMA ShrinkWritesFbs ==
    ASSUME HandlesKnown, HandlesKnown', FbsOwned, NEW t \in Threads, NEW good \in BOOLEAN,
           \/ ShrinkWrite(t) \/ ShrinkLand(t, good)
           \/ ShrinkWriteOld(t) \/ ShrinkLandOld(t, good)
    PROVE  FbsOwned'
<1> DEFINE Later == {"shrink_land", "shrink_write_old", "shrink_write_fb", "shrink_land_old",
                     "recycle_blocks"}
<1>1. UNCHANGED <<fbmeta, disk_fbmeta, item, free_fbhs>>
  BY DEF ShrinkWrite, ShrinkLand, ShrinkWriteOld, ShrinkLandOld, memory, disk
<1>2. \/ Moved(t, "idle", NoLoc)
      \/ \E l \in Later : \E p : Moved(t, l, [loc[t] EXCEPT !.page = p])
  <2>1. CASE ShrinkWrite(t)
    BY <2>1 DEF HandlesKnown, ShrinkWrite, UnguardedRead, Goto, Moved, TypeOK, Loc
  <2>2. CASE ShrinkLand(t, good)
    BY <2>2, ReturnMoved DEF HandlesKnown, ShrinkLand, Goto, Moved, TypeOK, Loc
  <2>3. CASE ShrinkWriteOld(t)
    BY <2>3 DEF HandlesKnown, ShrinkWriteOld, UnguardedRead, Goto, Moved, TypeOK, Loc
  <2>4. CASE ShrinkLandOld(t, good)
    BY <2>4, ReturnMoved DEF HandlesKnown, ShrinkLandOld, Goto, Moved, TypeOK, Loc
  <2> QED BY <2>1, <2>2, <2>3, <2>4
<1>3. CASE Moved(t, "idle", NoLoc) BY <1>1, <1>3, ReturnAt, QuietStep
<1>4. ASSUME NEW l \in Later, NEW p, Moved(t, l, [loc[t] EXCEPT !.page = p]) PROVE FbsOwned'
  <2> DEFINE r == [loc[t] EXCEPT !.page = p]
  <2>1. r.fb = loc[t].fb /\ r.fh = loc[t].fh /\ r.new = loc[t].new BY DEF HandlesKnown, TypeOK, Loc
  <2>2. Moved(t, l, r) BY <1>4
  <2> HIDE DEF r
  <2>3. FbAt(l, r) BY DEF FbAt
  <2> HIDE DEF Later
  <2> QED BY <1>1, <2>1, <2>2, <2>3, QuietStep
<1> QED BY <1>2, <1>3, <1>4

-----------------------------------------------------------------------------
(* Steps that take, change or give back a FileBlock *)

\* The FileBlock at the head of the list is nobody's.
LEMMA HeadFbFree ==
    ASSUME TypeOK, FreeFbsSound, free_fbhs # <<>>
    PROVE  /\ Head(free_fbhs) \in Fbs /\ Head(free_fbhs) # None
           /\ Head(free_fbhs) \in Range(free_fbhs)
           /\ fbmeta[Head(free_fbhs)] = FreshFb
           /\ \A f \in Fhs : item[f] # Head(free_fbhs)
           /\ IsInjective(Tail(free_fbhs))
           /\ Range(Tail(free_fbhs)) \subseteq Range(free_fbhs) \ {Head(free_fbhs)}
<1>1. /\ IsInjective(Tail(free_fbhs)) /\ Head(free_fbhs) \in Range(free_fbhs)
      /\ Range(Tail(free_fbhs)) \subseteq Range(free_fbhs) \ {Head(free_fbhs)}
  BY InjectiveTail DEF TypeOK, FreeFbsSound
<1> QED BY <1>1, FreeAreFbs DEF FreeFbsSound

\* A thread takes the head of the list, and writes nowhere else.
LEMMA TakeFb ==
    ASSUME HandlesKnown, HandlesKnown', FbsOwned, NEW t \in Threads, NEW l, NEW r,
           Moved(t, l, r), free_fbhs # <<>>, free_fbhs' = Tail(free_fbhs),
           r.fb = Head(free_fbhs), FbAt(l, r)', UNCHANGED <<disk_fbmeta, item>>,
           Blank(fbmeta'[r.fb]), \A b \in Fbs : b # r.fb => fbmeta'[b] = fbmeta[b]
    PROVE  FbsOwned'
<1>1. TypeOK /\ FreeFbsSound BY DEF HandlesKnown, FbsOwned
<1>2. FbsBlank' /\ ItemOnce' BY DEF FbsOwned, FbsBlank, ItemOnce, Blank
<1>3. \A f \in Fhs : item'[f] # r.fb BY <1>1, HeadFbFree
<1>4. r.fb \in Range(free_fbhs) BY <1>1, HeadFbFree
<1>5. IsInjective(free_fbhs') /\ \A b \in Range(free_fbhs') : b # r.fb /\ b \in Range(free_fbhs)
  BY <1>1, HeadFbFree
<1> QED BY <1>2, <1>3, <1>4, <1>5, FbStep

\* A thread takes the FileBlock of its file.
LEMMA TakeItem ==
    ASSUME HandlesKnown, HandlesKnown', FbsOwned, NEW t \in Threads, NEW l, NEW r,
           Moved(t, l, r), UNCHANGED <<fbmeta, disk_fbmeta, item, free_fbhs>>, FbAt(l, r),
           r.fh \in Fhs, r.fb = item[r.fh]
    PROVE  FbsOwned'
<1>1. loc'[t] = r BY OthersKept DEF HandlesKnown
<1>2. r.fh \in Held(t)' BY <1>1, HandleNotNone DEF Held
<1>3. FbsBlank' /\ ItemOnce' BY DEF FbsOwned, FbsBlank, ItemOnce
<1>4. FbAt(l, r)' BY DEF FbAt, Unattached
<1>5. r.fb # None => \A f \in Fhs : item'[f] = r.fb => f \in Held(t)'
  BY <1>2 DEF FbsOwned, ItemOnce
<1>6. IsInjective(free_fbhs') /\ \A b \in Range(free_fbhs') : b # r.fb /\ b \in Range(free_fbhs)
  BY DEF FbsOwned, FreeFbsSound
<1> QED BY <1>2, <1>3, <1>4, <1>5, <1>6, FbStep

\* A thread changes its FileBlock and keeps or drops it.
LEMMA ChangeFb ==
    ASSUME HandlesKnown, HandlesKnown', FbsOwned, NEW t \in Threads, NEW l, NEW r,
           Moved(t, l, r), UNCHANGED free_fbhs, FbAt(l, r)',
           \/ r.fb = None
           \/ r.fb = loc[t].fb /\ r.fh = loc[t].fh /\ r.new = loc[t].new,
           FbsBlank', ItemOnce',
           \A b \in Fbs : b # loc[t].fb => fbmeta'[b] = fbmeta[b],
           \A f \in Fhs : \/ item'[f] = item[f]
                          \/ f \in Held(t) /\ item'[f] \in {None, loc[t].fb}
    PROVE  FbsOwned'
<1>1. loc'[t] = r BY OthersKept DEF HandlesKnown
<1>2. r.fb # None => r.fb = loc[t].fb /\ Held(t)' = Held(t) BY <1>1 DEF Held
<1>3. r.fb # None => \A f \in Fhs : item'[f] = r.fb => f \in Held(t)'
  BY <1>2 DEF FbsOwned, ItemHeld
<1>4. IsInjective(free_fbhs') /\ \A b \in Range(free_fbhs') : b # r.fb /\ b \in Range(free_fbhs)
  <2>1. \A b \in Range(free_fbhs) : b # None /\ b # loc[t].fb
    BY FreeAreFbs DEF HandlesKnown, FbsOwned, FreeFbsSound
  <2> QED BY <2>1 DEF FbsOwned, FreeFbsSound
<1>5. r.fb \in {None, loc[t].fb} \cup Range(free_fbhs) OBVIOUS
<1> QED BY <1>3, <1>4, <1>5, FbStep

\* A thread gives its FileBlock back, cleared and detached.
LEMMA GiveFb ==
    ASSUME HandlesKnown, HandlesKnown', FbsOwned, NEW t \in Threads, NEW l, NEW r,
           Moved(t, l, r), loc[t].fb \in Fbs, free_fbhs' = Append(free_fbhs, loc[t].fb),
           FbAt(l, r)', r.fb = None, FbsBlank', ItemOnce',
           fbmeta'[loc[t].fb] = FreshFb, \A f \in Fhs : item'[f] # loc[t].fb,
           \A b \in Fbs : b # loc[t].fb => fbmeta'[b] = fbmeta[b],
           \A f \in Fhs : item'[f] = item[f] \/ (f \in Held(t) /\ item'[f] = None)
    PROVE  FbsOwned'
<1>1. loc[t].fb \notin Range(free_fbhs) /\ IsInjective(free_fbhs) /\ free_fbhs \in Seq(Fbs)
  BY DEF FbsOwned, FreeFbsSound, HandlesKnown, TypeOK
<1>2. IsInjective(free_fbhs') /\ Range(free_fbhs') = Range(free_fbhs) \cup {loc[t].fb}
  BY <1>1, InjectiveAppend
<1>3. \A b \in Range(free_fbhs') : b # None BY <1>2, FreeAreFbs, FbNotNone DEF HandlesKnown
<1> QED BY <1>2, <1>3, FbStep

\* ExtendFile takes a FileBlock for an empty file, and that of another.
LEMMA ExtendStartFbs ==
    ASSUME HandlesKnown, HandlesKnown', FbsOwned, NEW t \in Threads, NEW n \in Names,
           NEW off \in Offsets, ExtendStart(t, n, off)
    PROVE  FbsOwned'
<1> DEFINE f == created_files[n]
<1>1. /\ TypeOK /\ FreeFbsSound /\ f \in Fhs /\ loc[t] = NoLoc
      /\ UNCHANGED <<fbmeta, disk_fbmeta, item>>
  BY DEF ExtendStart, Start, disk, HandlesKnown, TypeOK, HandlesOwned, IdleHoldsNothing, FbsOwned
<1>2. CASE /\ free_fbhs # <<>> /\ free_fbhs' = Tail(free_fbhs)
           /\ loc' = [loc EXCEPT ![t].name = n, ![t].fh = f, ![t].off = off,
                                 ![t].fb = Head(free_fbhs), ![t].new_fb = TRUE]
  <2>1. PICK r : /\ Moved(t, "extend_blocks", r)
                 /\ r = [loc[t] EXCEPT !.name = n, !.fh = f, !.off = off,
                                       !.fb = Head(free_fbhs), !.new_fb = TRUE]
    BY <1>1, <1>2 DEF ExtendStart, Goto, Moved, TypeOK, Loc
  <2>2. r.fb = Head(free_fbhs) BY <1>1, <2>1 DEF NoLoc
  <2> HIDE DEF f
  <2>3. fbmeta'[r.fb] = FreshFb /\ \A g \in Fhs : item'[g] # r.fb
    BY <1>1, <1>2, <2>2, HeadFbFree
  <2>4. FbAt("extend_blocks", r)' BY <2>3 DEF FbAt, Unattached
  <2>5. Blank(fbmeta'[r.fb]) BY <2>3 DEF Blank
  <2> QED BY <1>1, <1>2, <2>1, <2>2, <2>4, <2>5, TakeFb
<1>3. CASE /\ loc' = [loc EXCEPT ![t].name = n, ![t].fh = f, ![t].off = off, ![t].fb = item[f]]
           /\ UNCHANGED free_fbhs
  <2> DEFINE r == [loc[t] EXCEPT !.name = n, !.fh = f, !.off = off, !.fb = item[f]]
  <2>1. Moved(t, "extend_blocks", r)
    BY <1>1, <1>3 DEF ExtendStart, Goto, Moved, TypeOK, Loc
  <2>2. r.fb = item[f] /\ r.fh = f /\ r.new_fb = FALSE BY <1>1 DEF NoLoc
  <2> HIDE DEF r, f
  <2>3. FbAt("extend_blocks", r) BY <2>2 DEF FbAt
  <2> QED BY <1>1, <1>3, <2>1, <2>2, <2>3, TakeItem
<1> QED BY <1>2, <1>3 DEF ExtendStart

\* ExtendFile goes on with its FileBlock, or puts a new one back as it got it.
LEMMA ExtendBlocksFbs ==
    ASSUME HandlesKnown, HandlesKnown', FbsOwned, NEW t \in Threads, ExtendBlocks(t)
    PROVE  FbsOwned'
<1>1. /\ TypeOK /\ pc[t] = "extend_blocks" /\ FbAt("extend_blocks", loc[t])
      /\ UNCHANGED <<fbmeta, disk_fbmeta, item>>
  BY DEF HandlesKnown, ExtendBlocks, At, disk, FbsOwned, FbsPlaced
<1>2. loc[t].fb \in Fbs BY <1>1 DEF HandlesKnown, LocalsSet, Fit
<1>3. CASE /\ \E s : loc' = [loc EXCEPT ![t].ids = s]
           /\ Goto(t, "extend_fb") \/ Goto(t, "extend_size")
           /\ UNCHANGED free_fbhs
  <2>1. PICK s : loc' = [loc EXCEPT ![t].ids = s] BY <1>3
  <2> DEFINE r == [loc[t] EXCEPT !.ids = s]
  <2>2. Moved(t, "extend_fb", r) \/ Moved(t, "extend_size", r)
    BY <1>1, <1>3, <2>1 DEF Goto, Moved, TypeOK, Loc
  <2>3. /\ r.fb = loc[t].fb /\ r.fh = loc[t].fh /\ r.new = loc[t].new
        /\ r.new_fb = loc[t].new_fb
    BY <1>1 DEF TypeOK, Loc
  <2> HIDE DEF r
  <2>4. FbAt("extend_fb", r) /\ FbAt("extend_size", r) BY <1>1, <2>3 DEF FbAt
  <2> QED BY <1>1, <1>3, <2>2, <2>3, <2>4, QuietStep
<1>4. CASE free_fbhs' = PutBack(t) /\ Return(t) /\ loc[t].new_fb
  <2>1. Moved(t, "idle", NoLoc) BY <1>4, ReturnMoved
  <2>2. fbmeta'[loc[t].fb] = FreshFb /\ \A f \in Fhs : item'[f] # loc[t].fb
    BY <1>1, <1>2, <1>4, FbNotNone DEF FbAt, Unattached
  <2>3. FbsBlank' /\ ItemOnce' /\ FbAt("idle", NoLoc)'
    BY <1>1 DEF FbsOwned, FbsBlank, ItemOnce, FbAt
  <2>4. free_fbhs' = Append(free_fbhs, loc[t].fb) BY <1>4 DEF PutBack
  <2> QED BY <1>1, <1>2, <2>1, <2>2, <2>3, <2>4, ReturnAt, GiveFb
<1>5. CASE free_fbhs' = PutBack(t) /\ Return(t) /\ ~loc[t].new_fb
  BY <1>1, <1>5, ReturnMoved, ReturnAt, QuietStep DEF PutBack
<1> QED BY <1>3, <1>4, <1>5 DEF ExtendBlocks

\* ExtendFile fills its FileBlock, persists it and attaches a new one.
LEMMA ExtendFbFbs ==
    ASSUME HandlesKnown, HandlesKnown', FbsOwned, NEW t \in Threads, NEW good \in BOOLEAN,
           ExtendFb(t, good)
    PROVE  FbsOwned'
<1> DEFINE b == loc[t].fb
           f == loc[t].fh
<1>1. /\ TypeOK /\ pc[t] = "extend_fb" /\ FbAt("extend_fb", loc[t])
      /\ UNCHANGED free_fbhs
  BY DEF HandlesKnown, ExtendFb, At, FbsOwned, FbsPlaced
<1>2. b \in Fbs /\ f \in Fhs BY <1>1 DEF HandlesKnown, LocalsSet, Fit
<1>3. b # None /\ f \in Held(t) BY <1>2, FbNotNone, HandleNotNone DEF Held
<1>4. Moved(t, "extend_size", loc[t]) \/ Moved(t, "idle", NoLoc)
  BY <1>1, ReturnMoved DEF ExtendFb, Goto, Moved, TypeOK
<1>5. /\ fbmeta' = [fbmeta EXCEPT ![b] = FilledFb(t)]
      /\ disk_fbmeta' \in {disk_fbmeta, [disk_fbmeta EXCEPT ![b] = FilledFb(t)]}
  BY <1>1, <1>2 DEF ExtendFb, WriteFbMeta, TypeOK
<1>6. /\ fbmeta'[b].used /\ \A c \in Fbs : c # b => fbmeta'[c] = fbmeta[c]
      /\ \A c \in Fbs : disk_fbmeta'[c] = disk_fbmeta[c] \/ disk_fbmeta'[c].used
  BY <1>1, <1>2, <1>5 DEF FilledFb, TypeOK
<1>7. FbsBlank' BY <1>2, <1>6 DEF FbsOwned, FbsBlank, Blank
<1>8. item' = item \/ (item' = [item EXCEPT ![f] = b] /\ loc[t].new_fb)
  BY DEF ExtendFb
<1>9. \A g \in Fhs : \/ item'[g] = item[g]
                     \/ g = f /\ item'[g] = b /\ \A h \in Fhs : item[h] # b
  BY <1>1, <1>2, <1>3, <1>8 DEF TypeOK, FbAt, Unattached
<1> HIDE DEF b, f
<1>10. ItemOnce' BY <1>3, <1>9 DEF FbsOwned, ItemOnce
<1>11. FbAt("idle", NoLoc)' BY DEF FbAt
<1>12. \A g \in Fhs : item'[g] = item[g] \/ (g \in Held(t) /\ item'[g] \in {None, b})
  BY <1>3, <1>9
<1>13. CASE Moved(t, "idle", NoLoc)
  BY <1>1, <1>6, <1>7, <1>10, <1>11, <1>12, <1>13, ReturnAt, ChangeFb DEF b
<1>14. CASE Moved(t, "extend_size", loc[t])
  <2>1. PICK r : r = loc[t] OBVIOUS
  <2>2. FbAt("extend_size", r)' BY DEF FbAt
  <2> QED BY <1>1, <1>6, <1>7, <1>10, <1>12, <1>14, <2>1, <2>2, ChangeFb DEF b
<1> QED BY <1>4, <1>13, <1>14

\* unlink takes the FileBlock of its file.
LEMMA UnlinkStartFbs ==
    ASSUME HandlesKnown, HandlesKnown', FbsOwned, NEW t \in Threads, NEW n \in Names,
           UnlinkStart(t, n)
    PROVE  FbsOwned'
<1> DEFINE f == created_files[n]
<1>1. /\ TypeOK /\ f \in Fhs /\ loc[t] = NoLoc
      /\ UNCHANGED <<fbmeta, disk_fbmeta, item, free_fbhs>>
  BY DEF UnlinkStart, Start, disk, HandlesKnown, TypeOK, HandlesOwned, IdleHoldsNothing
<1>2. PICK r : /\ Moved(t, "unlink_meta", r) \/ Moved(t, "unlink_fb", r)
               /\ r = [loc[t] EXCEPT !.name = n, !.fh = f, !.fb = item[f]]
  BY <1>1 DEF UnlinkStart, Goto, Moved, TypeOK, Loc
<1>3. r.fb = item[f] /\ r.fh = f BY <1>1, <1>2 DEF NoLoc
<1> HIDE DEF f
<1>4. FbAt("unlink_meta", r) /\ FbAt("unlink_fb", r) BY <1>3 DEF FbAt
<1> QED BY <1>1, <1>2, <1>3, <1>4, TakeItem

\* Recycle takes the FileBlock of the parent.
LEMMA RecycleBlocksFbs ==
    ASSUME HandlesKnown, HandlesKnown', FbsOwned, NEW t \in Threads, RecycleBlocks(t)
    PROVE  FbsOwned'
<1> DEFINE f == loc[t].fh
<1>1. /\ TypeOK /\ pc[t] = "recycle_blocks"
      /\ UNCHANGED <<fbmeta, disk_fbmeta, item, free_fbhs>>
  BY DEF RecycleBlocks, At, disk, HandlesKnown
<1>2. f \in Fhs BY <1>1 DEF HandlesKnown, LocalsSet, Fit
<1>3. PICK r : /\ \/ Moved(t, "recycle_meta", r) /\ item[f] = None
                  \/ Moved(t, "recycle_fb", r)
               /\ r = [loc[t] EXCEPT !.fb = item[f]]
  BY <1>1 DEF RecycleBlocks, Goto, Moved, TypeOK, Loc
<1>4. r.fb = item[f] /\ r.fh = f BY <1>1, <1>3 DEF TypeOK, Loc
<1> HIDE DEF f
<1>5. FbAt("recycle_fb", r) /\ (item[f] = None => FbAt("recycle_meta", r)) BY <1>4 DEF FbAt
<1> QED BY <1>1, <1>2, <1>3, <1>4, <1>5, TakeItem

\* What is left in memory and on the device when FileBlock b was cleared.
LEMMA ClearedFb ==
    ASSUME TypeOK, FbsBlank, NEW b \in Fbs, NEW good \in BOOLEAN,
           WriteFbMeta([fbmeta EXCEPT ![b] = FreshFb], b, good)
    PROVE  /\ FbsBlank' /\ fbmeta'[b] = FreshFb
           /\ \A c \in Fbs : c # b => fbmeta'[c] = fbmeta[c]
<1>1. /\ fbmeta'[b] = FreshFb /\ \A c \in Fbs : c # b => fbmeta'[c] = fbmeta[c]
      /\ \A c \in Fbs : disk_fbmeta'[c] \in {disk_fbmeta[c], FreshFb}
  BY DEF WriteFbMeta, TypeOK
<1> QED BY <1>1 DEF FbsBlank, Blank

\* What is left of the attachments when the file f of a thread lost its FileBlock b.
LEMMA DetachedFb ==
    ASSUME TypeOK, ItemOnce, NEW f \in Fhs, NEW b \in Fbs, item[f] = b,
           item' = [item EXCEPT ![f] = None]
    PROVE  /\ ItemOnce' /\ \A g \in Fhs : item'[g] # b
           /\ \A g \in Fhs : item'[g] = item[g] \/ (g = f /\ item'[g] = None)
<1>1. \A g \in Fhs : item'[g] = IF g = f THEN None ELSE item[g] BY DEF TypeOK
<1> QED BY <1>1, FbNotNone DEF ItemOnce

\* unlink clears the FileBlock of its file and gives it back when that is on the device.
LEMMA UnlinkFbFbs ==
    ASSUME HandlesKnown, HandlesKnown', FbsOwned, NEW t \in Threads, NEW good \in BOOLEAN,
           UnlinkFb(t, good)
    PROVE  FbsOwned'
<1>1. /\ TypeOK /\ pc[t] = "unlink_fb" /\ item[loc[t].fh] = loc[t].fb
      /\ FbsBlank /\ ItemOnce
      /\ WriteFbMeta([fbmeta EXCEPT ![loc[t].fb] = FreshFb], loc[t].fb, good)
  BY DEF HandlesKnown, UnlinkFb, At, FbsOwned, FbsPlaced, FbAt
<1>2. loc[t].fb \in Fbs /\ loc[t].fh \in Fhs BY <1>1 DEF HandlesKnown, LocalsSet, Fit
<1>3. loc[t].fh \in Held(t) BY <1>2, HandleNotNone DEF Held
<1>4. /\ FbsBlank' /\ fbmeta'[loc[t].fb] = FreshFb
      /\ \A c \in Fbs : c # loc[t].fb => fbmeta'[c] = fbmeta[c]
  BY <1>1, <1>2, ClearedFb
<1>5. CASE good
  <2>1. PICK r : Moved(t, "unlink_meta", r) /\ r = [loc[t] EXCEPT !.fb = None]
    BY <1>1, <1>5 DEF UnlinkFb, Goto, Moved, TypeOK, Loc
  <2>2. r.fb = None BY <1>1, <2>1 DEF TypeOK, Loc
  <2>3. /\ free_fbhs' = Append(free_fbhs, loc[t].fb)
        /\ item' = [item EXCEPT ![loc[t].fh] = None]
    BY <1>5 DEF UnlinkFb
  <2>4. /\ ItemOnce' /\ \A g \in Fhs : item'[g] # loc[t].fb
        /\ \A g \in Fhs : item'[g] = item[g] \/ (g = loc[t].fh /\ item'[g] = None)
    BY <1>1, <1>2, <2>3, DetachedFb
  <2>5. FbAt("unlink_meta", r)' BY DEF FbAt
  <2> QED BY <1>2, <1>3, <1>4, <2>1, <2>2, <2>3, <2>4, <2>5, GiveFb
<1>6. CASE ~good
  <2>1. Moved(t, "idle", NoLoc) /\ UNCHANGED <<free_fbhs, item>>
    BY <1>6, ReturnMoved DEF UnlinkFb
  <2>2. ItemOnce' BY <1>1, <2>1 DEF ItemOnce
  <2>3. FbAt("idle", NoLoc)' BY DEF FbAt
  <2> QED BY <1>4, <2>1, <2>2, <2>3, ReturnAt, ChangeFb
<1> QED BY <1>5, <1>6

\* Recycle clears the FileBlock of the parent, detaches it in any case, and gives it
\* back when that is on the device.
LEMMA RecycleFbFbs ==
    ASSUME HandlesKnown, HandlesKnown', FbsOwned, NEW t \in Threads, NEW good \in BOOLEAN,
           RecycleFb(t, good)
    PROVE  FbsOwned'
<1>1. /\ TypeOK /\ pc[t] = "recycle_fb" /\ item[loc[t].fh] = loc[t].fb
      /\ FbsBlank /\ ItemOnce
      /\ WriteFbMeta([fbmeta EXCEPT ![loc[t].fb] = FreshFb], loc[t].fb, good)
      /\ item' = [item EXCEPT ![loc[t].fh] = None]
  BY DEF HandlesKnown, RecycleFb, At, FbsOwned, FbsPlaced, FbAt
<1>2. loc[t].fb \in Fbs /\ loc[t].fh \in Fhs BY <1>1 DEF HandlesKnown, LocalsSet, Fit
<1>3. loc[t].fh \in Held(t) BY <1>2, HandleNotNone DEF Held
<1>4. /\ FbsBlank' /\ fbmeta'[loc[t].fb] = FreshFb
      /\ \A c \in Fbs : c # loc[t].fb => fbmeta'[c] = fbmeta[c]
  BY <1>1, <1>2, ClearedFb
<1>5. /\ ItemOnce' /\ \A g \in Fhs : item'[g] # loc[t].fb
      /\ \A g \in Fhs : item'[g] = item[g] \/ (g = loc[t].fh /\ item'[g] = None)
  BY <1>1, <1>2, DetachedFb
<1>6. PICK r : Moved(t, "recycle_meta", r) /\ r = [loc[t] EXCEPT !.fb = None]
  BY <1>1 DEF RecycleFb, Goto, Moved, TypeOK, Loc
<1>7. r.fb = None BY <1>1, <1>6 DEF TypeOK, Loc
<1>8. FbAt("recycle_meta", r)' BY <1>7 DEF FbAt
<1>9. CASE good
  <2>1. free_fbhs' = Append(free_fbhs, loc[t].fb) BY <1>9 DEF RecycleFb
  <2> QED BY <1>2, <1>3, <1>4, <1>5, <1>6, <1>7, <1>8, <2>1, GiveFb
<1>10. CASE ~good
  <2>1. UNCHANGED free_fbhs BY <1>10 DEF RecycleFb
  <2> QED BY <1>3, <1>4, <1>5, <1>6, <1>7, <1>8, <2>1, ChangeFb
<1> QED BY <1>9, <1>10

\* ShrinkFile takes a FileBlock for the new file and enters the ids that stay.
LEMMA ShrinkFbFbs ==
    ASSUME HandlesKnown, HandlesKnown', FbsOwned, NEW t \in Threads, ShrinkFb(t)
    PROVE  FbsOwned'
<1>1. /\ TypeOK /\ FreeFbsSound /\ pc[t] = "shrink_fb" /\ loc[t].fb = None
      /\ UNCHANGED <<disk_fbmeta, item>>
  BY DEF HandlesKnown, ShrinkFb, At, disk, FbsOwned, FbsPlaced, FbAt
<1>2. CASE Goto(t, "shrink_detach") /\ UNCHANGED <<fbmeta, free_fbhs, loc>>
  <2>1. Moved(t, "shrink_detach", loc[t]) BY <1>1, <1>2 DEF Goto, Moved, TypeOK
  <2>2. FbAt("shrink_detach", loc[t]) BY <1>1 DEF FbAt, Unattached
  <2> QED BY <1>1, <1>2, <2>1, <2>2, QuietStep
<1>3. CASE Return(t) /\ UNCHANGED <<fbmeta, free_fbhs>>
  BY <1>1, <1>3, ReturnMoved, ReturnAt, QuietStep
<1>4. CASE /\ free_fbhs # <<>> /\ free_fbhs' = Tail(free_fbhs)
           /\ fbmeta' = [fbmeta EXCEPT ![Head(free_fbhs)] =
                           [used |-> TRUE, fh |-> loc[t].new,
                            ids |-> FirstIds(item[loc[t].fh], KeptBlocks(loc[t].off))]]
           /\ loc' = [loc EXCEPT ![t].fb = Head(free_fbhs)]
           /\ Goto(t, "shrink_copy") \/ Goto(t, "shrink_detach")
  <2>1. PICK r : /\ Moved(t, "shrink_copy", r) \/ Moved(t, "shrink_detach", r)
                 /\ r = [loc[t] EXCEPT !.fb = Head(free_fbhs)]
    BY <1>1, <1>4 DEF Goto, Moved, TypeOK, Loc
  <2>2. r.fb = Head(free_fbhs) BY <1>1, <2>1 DEF TypeOK, Loc
  <2>3. r.fb \in Fbs /\ \A f \in Fhs : item'[f] # r.fb BY <1>1, <1>4, <2>2, HeadFbFree
  <2>4. fbmeta'[r.fb].used /\ \A b \in Fbs : b # r.fb => fbmeta'[b] = fbmeta[b]
    BY <1>1, <1>4, <2>2, <2>3 DEF TypeOK
  <2>5. Blank(fbmeta'[r.fb]) /\ FbAt("shrink_copy", r)' /\ FbAt("shrink_detach", r)'
    BY <2>3, <2>4 DEF Blank, FbAt, Unattached
  <2> QED BY <1>1, <1>4, <2>1, <2>2, <2>4, <2>5, TakeFb
<1> QED BY <1>2, <1>3, <1>4 DEF ShrinkFb

\* ShrinkFile adds the block that was cut to the new FileBlock.
LEMMA ShrinkCopyFbs ==
    ASSUME HandlesKnown, HandlesKnown', FbsOwned, NEW t \in Threads, NEW good \in BOOLEAN,
           ShrinkCopy(t, good)
    PROVE  FbsOwned'
<1>1. /\ TypeOK /\ pc[t] = "shrink_copy" /\ FbAt("shrink_copy", loc[t])
      /\ UNCHANGED <<disk_fbmeta, item, free_fbhs>>
  BY DEF HandlesKnown, ShrinkCopy, At, disk, FbsOwned, FbsPlaced
<1>2. loc[t].fb \in Fbs BY <1>1 DEF HandlesKnown, LocalsSet, Fit
<1>3. \/ Moved(t, "shrink_detach", loc[t])
      \/ Moved(t, "idle", NoLoc) /\ UNCHANGED fbmeta
  BY <1>1, ReturnMoved DEF ShrinkCopy, Goto, Moved, TypeOK
<1>4. \/ UNCHANGED fbmeta
      \/ \E s : fbmeta' = [fbmeta EXCEPT ![loc[t].fb].ids = s]
  BY DEF ShrinkCopy
<1>5. CASE Moved(t, "idle", NoLoc) /\ UNCHANGED fbmeta BY <1>1, <1>5, ReturnAt, QuietStep
<1>6. CASE Moved(t, "shrink_detach", loc[t])
  <2>1. PICK r : r = loc[t] OBVIOUS
  <2>2. FbAt("shrink_detach", r)' BY <1>1, <2>1 DEF FbAt, Unattached
  <2>3. /\ \A b \in Fbs : b # loc[t].fb => fbmeta'[b] = fbmeta[b]
        /\ fbmeta'[loc[t].fb].used = fbmeta[loc[t].fb].used
    BY <1>1, <1>2, <1>4 DEF TypeOK, FileBlockMeta
  <2>4. FbsBlank' /\ ItemOnce'
    BY <1>1, <2>3 DEF FbAt, FbsOwned, FbsBlank, ItemOnce, Blank
  <2> QED BY <1>1, <1>6, <2>1, <2>2, <2>3, <2>4, ChangeFb
<1> QED BY <1>3, <1>5, <1>6

\* ShrinkFile attaches the new FileBlock to the new file.
LEMMA ShrinkAttachFbs ==
    ASSUME HandlesKnown, HandlesKnown', FbsOwned, NEW t \in Threads, ShrinkAttach(t)
    PROVE  FbsOwned'
<1>1. /\ TypeOK /\ pc[t] = "shrink_attach" /\ Unattached(loc[t].fb)
      /\ UNCHANGED <<fbmeta, disk_fbmeta, free_fbhs>>
      /\ item' = [item EXCEPT ![loc[t].new] = loc[t].fb]
  BY DEF HandlesKnown, ShrinkAttach, At, disk, FbsOwned, FbsPlaced, FbAt
<1>2. loc[t].new \in Fhs BY <1>1 DEF HandlesKnown, LocalsSet, Fit
<1>3. loc[t].new \in Held(t) BY <1>2, HandleNotNone DEF Held
<1>4. \A f \in Fhs : item'[f] = IF f = loc[t].new THEN loc[t].fb ELSE item[f]
  BY <1>1, <1>2 DEF TypeOK
<1>5. PICK r : Moved(t, "shrink_write", r) /\ r = loc[t]
  BY <1>1 DEF ShrinkAttach, Goto, Moved, TypeOK
<1>6. FbsBlank' /\ ItemOnce' /\ FbAt("shrink_write", r)'
  BY <1>1, <1>4 DEF FbsOwned, FbsBlank, ItemOnce, Unattached, FbAt
<1> QED BY <1>1, <1>3, <1>4, <1>5, <1>6, ChangeFb

\* ShrinkFile persists the new FileBlock.
LEMMA ShrinkWriteFbFbs ==
    ASSUME HandlesKnown, HandlesKnown', FbsOwned, NEW t \in Threads, NEW good \in BOOLEAN,
           ShrinkWriteFb(t, good)
    PROVE  FbsOwned'
<1>1. /\ TypeOK /\ pc[t] = "shrink_write_fb" /\ UNCHANGED <<fbmeta, item, free_fbhs>>
  BY DEF HandlesKnown, ShrinkWriteFb, At, WriteFbMeta
<1>2. loc[t].fb \in Fbs BY <1>1 DEF HandlesKnown, LocalsSet, Fit
<1>3. \A b \in Fbs : disk_fbmeta'[b] \in {disk_fbmeta[b], fbmeta[b]}
  BY <1>1, <1>2 DEF ShrinkWriteFb, WriteFbMeta, TypeOK
<1>4. FbsBlank' /\ ItemOnce' BY <1>1, <1>3 DEF FbsOwned, FbsBlank, ItemOnce
<1>5. PICK r : /\ \/ Moved(t, "shrink_write_old", r) /\ r = loc[t]
                  \/ Moved(t, "idle", r) /\ r = NoLoc
  BY <1>1, ReturnMoved DEF ShrinkWriteFb, Goto, Moved, TypeOK
<1>6. FbAt("shrink_write_old", r)' /\ FbAt("idle", r)' BY DEF FbAt
<1> QED BY <1>1, <1>4, <1>5, <1>6, ReturnAt, ChangeFb

-----------------------------------------------------------------------------
(* Mount and crash *)

\* Where every thread is idle, nobody has a FileBlock.
LEMMA NoFbHeld ==
    ASSUME \A t \in Threads : pc[t] = "idle" /\ loc[t] = NoLoc
    PROVE  FbsApart /\ ItemHeld /\ FbsPlaced /\ \A t \in Threads : loc[t].fb = None
BY ReturnAt DEF FbsApart, ItemHeld, FbsPlaced

\* The formatted device.
LEMMA InitFbs == Init => FbsOwned
<1> SUFFICES ASSUME Init PROVE FbsOwned OBVIOUS
<1>1. FbsBlank /\ ItemOnce /\ FreeFbsSound
  BY EmptyList DEF Init, FbsBlank, Blank, ItemOnce, FreeFbsSound
<1>2. \A t \in Threads : pc[t] = "idle" /\ loc[t] = NoLoc BY DEF Init
<1> QED BY <1>1, <1>2, NoFbHeld DEF FbsOwned

\* The process ends.
LEMMA ProcessEndsFbs ==
    ASSUME FbsOwned, ProcessEnds, UNCHANGED disk
    PROVE  FbsOwned'
<1>1. FbsBlank' /\ ItemOnce' /\ FreeFbsSound'
  BY EmptyList DEF ProcessEnds, disk, FbsOwned, FbsBlank, Blank, ItemOnce, FreeFbsSound
<1>2. \A t \in Threads : pc'[t] = "idle" /\ loc'[t] = NoLoc BY DEF ProcessEnds
<1>3. FbsApart' /\ ItemHeld' BY <1>2, ReturnAt DEF FbsApart, ItemHeld
<1>4. FbsPlaced' BY <1>2 DEF FbsPlaced, FbAt
<1> QED BY <1>1, <1>3, <1>4 DEF FbsOwned

\* The mount lists the unused FileBlocks; a used one names the one file it is attached
\* to.
LEMMA MountFbs ==
    ASSUME HandlesKnown, FbsOwned, Mount
    PROVE  FbsOwned'
<1>1. /\ \A t \in Threads : pc'[t] = "idle" /\ loc'[t] = NoLoc
      /\ fbmeta' = disk_fbmeta /\ UNCHANGED disk_fbmeta
  BY DEF Mount, disk, HandlesKnown, HandlesOwned, IdleHoldsNothing
<1>2. FbsApart' /\ ItemHeld' BY <1>1, ReturnAt DEF FbsApart, ItemHeld
<1>3. FbsPlaced' BY <1>1 DEF FbsPlaced, FbAt
<1>4. FbsBlank' BY <1>1 DEF FbsOwned, FbsBlank
<1>5. \A f \in Fhs : item'[f] # None => item'[f] \in UsedFbs /\ disk_fbmeta[item'[f]].fh = f
  BY LastFirstType DEF Mount, LoadedFb
<1>6. ItemOnce' BY <1>5 DEF ItemOnce
<1>7. IsInjective(free_fbhs') /\ Range(free_fbhs') \subseteq Fbs \ UsedFbs
  <2>1. free_fbhs' \in Ascending(Fbs \ UsedFbs) BY DEF Mount
  <2>2. Fbs \ UsedFbs \in SUBSET Nat /\ Cardinality(Fbs \ UsedFbs) \in Nat
    BY HandlesFinite DEF Fbs
  <2> QED BY <2>1, <2>2, AscendingInjective
<1>8. ASSUME NEW b \in Range(free_fbhs')
      PROVE  /\ fbmeta'[b] = FreshFb
             /\ \A f \in Fhs : item'[f] # b
             /\ \A t \in Threads : loc'[t].fb # b
  <2>1. b \in Fbs /\ b \notin UsedFbs /\ b # None BY <1>7, FbNotNone
  <2>2. fbmeta'[b] = FreshFb BY <1>1, <2>1 DEF FbsOwned, FbsBlank, Blank, UsedFbs
  <2> QED BY <1>1, <1>5, <2>1, <2>2, ReturnAt
<1>9. FreeFbsSound' BY <1>7, <1>8 DEF FreeFbsSound
<1> QED BY <1>2, <1>3, <1>4, <1>6, <1>9 DEF FbsOwned

-----------------------------------------------------------------------------
(* The theorem *)

\* Every step of the system keeps the ownership of the FileBlocks.
LEMMA NextFbs ==
    ASSUME HandlesKnown, HandlesKnown', FbsOwned, [Next]_vars
    PROVE  FbsOwned'
<1>1. CASE Mount BY <1>1, MountFbs
<1>2. CASE Crash BY <1>2, ProcessEndsFbs DEF Crash
<1>3. ASSUME NEW t \in Threads, Begin(t) PROVE FbsOwned'
  <2>1. ASSUME NEW n \in Names, CreateNew(t, n) \/ UnlinkStart(t, n) PROVE FbsOwned'
    <3>1. CASE UnlinkStart(t, n) BY <3>1, UnlinkStartFbs
    <3>2. CASE CreateNew(t, n) BY <3>2, CreateNewFbs
    <3> QED BY <2>1, <3>1, <3>2
  <2>2. ASSUME NEW n \in Names, NEW off \in Offsets,
               ExtendStart(t, n, off) \/ ShrinkStart(t, n, off)
        PROVE  FbsOwned'
    BY <2>2, ExtendStartFbs, ShrinkStartFbs
  <2>3. ASSUME NEW n \in Names, NEW m \in Names, NEW good \in BOOLEAN,
               RenameFile(t, n, m, good)
        PROVE  FbsOwned'
    <3>1. UNCHANGED <<fbmeta, disk_fbmeta, item, free_fbhs, pc, loc>>
      BY <2>3 DEF RenameFile
    <3> QED BY <3>1 DEF FbsOwned, FbsBlank, ItemOnce, FbsApart, ItemHeld, FbsPlaced,
                        FreeFbsSound, Held, FbAt, Unattached
  <2> QED BY <1>3, <2>1, <2>2, <2>3 DEF Begin
<1>4. ASSUME NEW t \in Threads, Continue(t) PROVE FbsOwned'
  <2>1. CASE \/ CreateAdd(t) \/ ExtendBlocks(t) \/ UnlinkNames(t)
             \/ ShrinkFb(t) \/ ShrinkDetach(t) \/ ShrinkAttach(t) \/ RecycleBlocks(t)
             \/ ShrinkWrite(t) \/ ShrinkWriteOld(t)
    BY <2>1, CreateFbs, ExtendBlocksFbs, MetaFbs, ShrinkFbFbs, ShrinkAttachFbs,
       RecycleBlocksFbs, ShrinkWritesFbs
  <2>2. CASE ShrinkFault(t) BY <2>2, ProcessEndsFbs DEF ShrinkFault
  <2>3. ASSUME NEW good \in BOOLEAN,
               \/ CreateWrite(t, good) \/ ExtendFb(t, good) \/ ExtendSize(t, good)
               \/ UnlinkFb(t, good) \/ UnlinkMeta(t, good) \/ ShrinkCopy(t, good)
               \/ ShrinkLand(t, good) \/ ShrinkWriteFb(t, good)
               \/ ShrinkLandOld(t, good) \/ RecycleFb(t, good)
               \/ RecycleMeta(t, good) \/ RecycleChild(t, good)
        PROVE  FbsOwned'
    BY <2>3, CreateFbs, ExtendFbFbs, MetaFbs, UnlinkFbFbs, ShrinkCopyFbs, ShrinkWritesFbs,
       ShrinkWriteFbFbs, RecycleFbFbs
  <2> QED BY <1>4, <2>1, <2>2, <2>3 DEF Continue
<1>5. CASE UNCHANGED vars
  <2>1. UNCHANGED <<fbmeta, disk_fbmeta, item, free_fbhs, pc, loc>>
    BY <1>5 DEF vars, memory, disk
  <2> QED BY <2>1 DEF FbsOwned, FbsBlank, ItemOnce, FbsApart, ItemHeld, FbsPlaced,
                      FreeFbsSound, Held, FbAt, Unattached
<1> QED BY <1>1, <1>2, <1>3, <1>4, <1>5 DEF Next

\* The ownership of handles and of FileBlocks holds in every state.
LEMMA FbsInvariant == Spec => [](HandlesKnown /\ FbsOwned)
<1>1. Init => FbsOwned BY InitFbs
<1>2. HandlesKnown /\ HandlesKnown' /\ FbsOwned /\ [Next]_vars => FbsOwned' BY NextFbs
<1> QED BY <1>1, <1>2, HandlesInvariant, PTL DEF Spec

\* ExtendFile and ShrinkFile never get from GetFileBlockLock a FileBlock that has ids or
\* that a file or another thread still has, and no FileBlock is listed twice, whatever
\* the interleaving, with any number of failed writes, crashes and mounts.
THEOREM FreeFbsAreFree == Spec => []FreeFbsSound
<1>1. HandlesKnown /\ FbsOwned => FreeFbsSound BY DEF FbsOwned
<1> QED BY <1>1, FbsInvariant, PTL

-----------------------------------------------------------------------------
(* A data block has one owner: the inductive invariant *)

\* Before the first crash and the first failed device write.
Calm == crashes = 0 /\ failures = 0

\* The block ids in FileBlock b.
Ids(b) == IF b = None THEN {} ELSE Range(fbmeta[b].ids)

\* The places where what the FileBlock of the old file lists is back in the pool.
Released == {"unlink_fb", "recycle_fb"}

\* The handles and the blocks of a thread at label l with locals r: the blocks that it
\* took, those of its files and those in its FileBlock.
Handles(r) == {r.fh, r.new} \ {None}
ClaimAt(l, r) ==
    Range(r.ids) \cup FileIds(r.new) \cup
    IF l \in Released THEN {} ELSE FileIds(r.fh) \cup Ids(r.fb)
Claim(t) == ClaimAt(pc[t], loc[t])

Unheld(f) == \A t \in Threads : f \notin Held(t)

\* The pool, the threads and the files that no thread has, have no block in common.
BlocksApart ==
    /\ \A f, g \in Fhs : f # g /\ Unheld(f) /\ Unheld(g) => FileIds(f) \cap FileIds(g) = {}
    /\ \A f \in Fhs : Unheld(f) => FileIds(f) \cap pool = {}
    /\ \A t \in Threads, f \in Fhs : Unheld(f) => Claim(t) \cap FileIds(f) = {}
    /\ \A t \in Threads : Claim(t) \cap pool = {}
    /\ \A t, u \in Threads : t # u => Claim(t) \cap Claim(u) = {}

\* A FileBlock lists no block twice, and no more than fit.
IdsOnce == \A b \in Fbs : IsInjective(fbmeta[b].ids) /\ Len(fbmeta[b].ids) <= Capacity

\* FileBlock b, or none, is what a file of that size needs.
CoveredTo(b, size) ==
    /\ b = None <=> size = 0
    /\ b # None => size <= BlockSize * Len(fbmeta[b].ids)
Covered(f) == CoveredTo(item[f], fmeta[f].size)

NamedCovered ==
    \A n \in Names : created_files[n] # None /\ Unheld(created_files[n])
                        => Covered(created_files[n])

\* The places of ShrinkFile with a FileBlock of its own, and where that is attached.
Copied == {"shrink_copy", "shrink_detach", "shrink_attach"}
Attached == {"shrink_write", "shrink_land", "shrink_write_fb", "shrink_write_old",
             "shrink_land_old", "recycle_blocks"}
Shrinking == Copied \cup Attached \cup
             {"shrink_fb", "recycle_fb", "recycle_meta", "recycle_child"}

\* What a thread at label l with locals r does not have.
UnsetAt(l, r) ==
    /\ l \notin {"extend_fb", "extend_size"} => r.ids = <<>>
    /\ l \notin Shrinking => r.new = None
    /\ l = "recycle_child" => r.fh = None

\* Where the thread's file, or the one that it makes, has the blocks of its size.
CoveredAt(l, r) ==
    /\ l \in {"create_write", "create_add", "extend_blocks", "extend_fb",
              "shrink_fb", "shrink_copy"} => Covered(r.fh)
    /\ l \in Attached \cup {"recycle_fb", "recycle_meta", "recycle_child"} => Covered(r.new)

\* What ExtendFile relies on of the sizes and blocks of its locals.
ExtendAt(l, r) ==
    /\ l \in {"extend_blocks", "extend_fb"} =>
        /\ fmeta[r.fh].size < r.off
        /\ r.new_fb <=> fmeta[r.fh].size = 0
        /\ ~r.new_fb => r.fb = item[r.fh]
    /\ l = "extend_fb" =>
        /\ Len(r.ids) = BlocksNeeded(fmeta[r.fh].size, r.off)
        /\ IsInjective(r.ids) /\ Range(r.ids) \cap Ids(r.fb) = {}
    /\ l = "extend_size" => CoveredTo(item[r.fh], r.off)

\* What ShrinkFile relies on; from the copy of the ids on, the new FileBlock has none
\* of those that will be given back.
ShrinkAt(l, r) ==
    /\ l = "shrink_fb" => r.off < fmeta[r.fh].size
    /\ l \in {"shrink_fb", "shrink_copy"} => \A n \in Names : created_files[n] # r.new
    /\ l = "shrink_copy" =>
        /\ Len(fbmeta[r.fb].ids) = KeptBlocks(r.off) /\ KeptBlocks(r.off) < Capacity
        /\ r.off # 0
    /\ l \in {"shrink_detach", "shrink_attach"} => CoveredTo(r.fb, r.off)
    /\ l \in Copied \cup {"shrink_fb"} => item[r.new] = None
    /\ l \in Attached => item[r.new] = r.fb
    /\ l \in Copied \cup Attached /\ item[r.fh] # None =>
        Ids(r.fb) \cap Uninherited(item[r.fh], KeptBlocks(r.off)) = {}

BlocksAt(l, r) == UnsetAt(l, r) /\ CoveredAt(l, r) /\ ExtendAt(l, r) /\ ShrinkAt(l, r)
BlocksPlaced == \A t \in Threads : BlocksAt(pc[t], loc[t])

\* A file system that has not been mounted yet is as a format leaves it.
FirstMount ==
    status = "down" =>
        /\ \A f \in Fhs : disk_fmeta[f] = FreshFile
        /\ \A b \in Fbs : disk_fbmeta[b] = FreshFb

BlocksOwned == BlocksApart /\ IdsOnce /\ NamedCovered /\ BlocksPlaced /\ FirstMount

-----------------------------------------------------------------------------
(* Sizes and numbers of blocks *)

\* Division by the block size.
LEMMA BlockDiv ==
    ASSUME NEW x \in Nat
    PROVE  \E q, m \in Nat : /\ q = x \div BlockSize /\ m = x % BlockSize
                             /\ m < BlockSize /\ x = BlockSize * q + m
<1>1. BlockSize \in Nat /\ BlockSize > 0 BY StoreAssumption
<1>2. x % BlockSize \in 0 .. BlockSize - 1 BY <1>1
<1>3. x % BlockSize \in Nat /\ x % BlockSize < BlockSize BY <1>1, <1>2
<1>4. x \div BlockSize \in Nat BY DivNat
<1>5. x = BlockSize * (x \div BlockSize) + (x % BlockSize) BY <1>1, Z3T(60)
<1> QED BY <1>3, <1>4, <1>5, Zenon

\* Blocks are compared by their bytes.
LEMMA FewerBlocks ==
    ASSUME NEW x \in Nat, NEW y \in Nat, BlockSize * x < BlockSize * y
    PROVE  x < y
<1>1. BlockSize \in Nat /\ BlockSize > 0 BY StoreAssumption
<1>2. x >= y => BlockSize * x >= BlockSize * y BY <1>1
<1>3. BlockSize * x \in Int /\ BlockSize * y \in Int BY <1>1
<1> QED BY <1>2, <1>3

\* The blocks that a shrink keeps are fewer than those of the file ...
LEMMA KeptFewer ==
    ASSUME NEW off \in Nat, NEW k \in Nat, off < BlockSize * k
    PROVE  KeptBlocks(off) \in Nat /\ KeptBlocks(off) < k
<1>1. KeptBlocks(off) \in Nat /\ BlockSize * KeptBlocks(off) <= off
  <2>1. BlockSize \in Nat BY StoreAssumption
  <2>2. PICK q, m \in Nat : q = KeptBlocks(off) /\ off = BlockSize * q + m
    BY BlockDiv, Zenon DEF KeptBlocks
  <2>3. BlockSize * q \in Int BY <2>1
  <2> QED BY <2>2, <2>3
<1>2. BlockSize * KeptBlocks(off) < BlockSize * k
  <2>1. BlockSize * KeptBlocks(off) \in Int /\ BlockSize * k \in Int BY <1>1, StoreAssumption
  <2> QED BY <1>1, <2>1
<1> QED BY <1>1, <1>2, FewerBlocks

\* ... and with the block that is cut they hold the new size.
LEMMA KeptCovers ==
    ASSUME NEW off \in Nat
    PROVE  /\ off <= BlockSize * (KeptBlocks(off) + 1)
           /\ off % BlockSize = 0 => off = BlockSize * KeptBlocks(off)
<1>1. BlockSize \in Nat BY StoreAssumption
<1>2. PICK q, m \in Nat : /\ q = KeptBlocks(off) /\ m = off % BlockSize
                          /\ m < BlockSize /\ off = BlockSize * q + m
  BY BlockDiv, Zenon DEF KeptBlocks
<1>3. BlockSize * (q + 1) = BlockSize * q + BlockSize /\ BlockSize * q \in Int BY <1>1
<1>4. off <= BlockSize * (q + 1) BY <1>1, <1>2, <1>3
<1>5. m = 0 => off = BlockSize * q BY <1>2, <1>3
<1> QED BY <1>2, <1>4, <1>5, Zenon

\* Rounding up.
LEMMA NumBlocksCover ==
    ASSUME NEW x \in Nat
    PROVE  NumBlocks(x) \in Nat /\ x <= BlockSize * NumBlocks(x)
<1>1. BlockSize \in Nat /\ BlockSize > 0 BY StoreAssumption
<1>2. PICK y : y = x + BlockSize - 1 OBVIOUS
<1>3. y \in Nat /\ y = x + BlockSize - 1 BY <1>1, <1>2
<1>4. NumBlocks(x) = y \div BlockSize BY <1>2 DEF NumBlocks
<1>5. PICK q, m \in Nat : q = NumBlocks(x) /\ m < BlockSize /\ y = BlockSize * q + m
  <2>1. PICK q, m \in Nat : q = y \div BlockSize /\ m < BlockSize /\ y = BlockSize * q + m
    BY <1>3, BlockDiv, Zenon
  <2> QED BY <1>4, <2>1, Zenon
<1>6. BlockSize * q \in Int BY <1>1
<1>7. x <= BlockSize * q BY <1>1, <1>3, <1>5, <1>6
<1> QED BY <1>5, <1>7, Zenon

\* ExtendFile asks for as many blocks as the new size needs besides the k that it has.
LEMMA NeededCovers ==
    ASSUME NEW size \in Nat, NEW off \in Nat, NEW k \in Nat, size < off,
           size <= BlockSize * k
    PROVE  off <= BlockSize * (k + BlocksNeeded(size, off))
<1> DEFINE need == BlocksNeeded(size, off)
<1>1. BlockSize \in Nat /\ BlockSize > 0 BY StoreAssumption
<1>2. PICK q, m \in Nat : m = size % BlockSize /\ m < BlockSize /\ size = BlockSize * q + m
  BY BlockDiv, Zenon
<1> DEFINE left == IF m = 0 THEN 0 ELSE BlockSize - m
<1>3. BlockSize * q \in Int /\ BlockSize * k \in Int BY <1>1, <1>2
<1>4. left \in Nat BY <1>1, <1>2
<1>5. size + left <= BlockSize * k
  <2>1. CASE m = 0 BY <1>3, <2>1
  <2>2. CASE m # 0
    <3>1. BlockSize * q < BlockSize * k BY <1>2, <1>3, <2>2
    <3>2. q < k
      BY <1>2, <3>1, FewerBlocks
    <3>3. BlockSize * (q + 1) <= BlockSize * k
      <4>1. q + 1 <= k BY <1>2, <3>2
      <4> QED BY <1>1, <1>2, <4>1
    <3>4. BlockSize * (q + 1) = BlockSize * q + BlockSize BY <1>1, <1>2
    <3> QED BY <1>1, <1>2, <1>3, <2>2, <3>3, <3>4
  <2> QED BY <2>1, <2>2
<1>6. need = IF off - size <= left THEN 0 ELSE NumBlocks(off - size - left)
  BY <1>2 DEF BlocksNeeded
<1> HIDE DEF need, left
<1>7. CASE off - size <= left
  <2>1. k + need = k BY <1>6, <1>7
  <2> QED BY <1>3, <1>4, <1>5, <1>7, <2>1 DEF need
<1>8. CASE ~(off - size <= left)
  <2>1. off - size - left \in Nat BY <1>4, <1>8
  <2>2. need \in Nat /\ off - size - left <= BlockSize * need
    BY <1>6, <1>8, <2>1, NumBlocksCover
  <2>3. BlockSize * (k + need) = BlockSize * k + BlockSize * need BY <1>1, <2>2
  <2>4. BlockSize * need \in Int BY <1>1, <2>2
  <2> QED BY <1>3, <1>4, <1>5, <2>2, <2>3, <2>4 DEF need
<1> QED BY <1>7, <1>8

\* More blocks hold what fewer hold.
LEMMA MoreBlocks ==
    ASSUME NEW x \in Nat, NEW y \in Nat, x <= y
    PROVE  BlockSize * x <= BlockSize * y /\ BlockSize * x \in Nat /\ BlockSize * y \in Nat
<1>1. BlockSize \in Nat BY StoreAssumption
<1> QED BY <1>1

-----------------------------------------------------------------------------
(* Lists of blocks *)

\* Two lists without repetition and without a common member, one after the other.
LEMMA InjectiveConcat ==
    ASSUME NEW S, NEW s \in Seq(S), NEW u \in Seq(S), IsInjective(s), IsInjective(u),
           Range(s) \cap Range(u) = {}
    PROVE  IsInjective(s \o u) /\ Range(s \o u) = Range(s) \cup Range(u)
<1> DEFINE c == s \o u
<1>1. /\ Len(s) \in Nat /\ Len(u) \in Nat /\ DOMAIN s = 1 .. Len(s) /\ DOMAIN u = 1 .. Len(u)
      /\ DOMAIN c = 1 .. Len(s) + Len(u)
      /\ \A i \in 1 .. Len(s) : c[i] = s[i]
      /\ \A i \in Len(s) + 1 .. Len(s) + Len(u) : c[i] = u[i - Len(s)]
  OBVIOUS
<1> HIDE DEF c
<1>2. \A i \in DOMAIN c : \/ i \in DOMAIN s /\ c[i] = s[i]
                          \/ i - Len(s) \in DOMAIN u /\ c[i] = u[i - Len(s)]
  BY <1>1
<1>3. \A i \in DOMAIN s, j \in DOMAIN u : s[i] # u[j] BY DEF Range
<1>4. IsInjective(c)
  <2> SUFFICES ASSUME NEW i \in DOMAIN c, NEW j \in DOMAIN c, c[i] = c[j] PROVE i = j
    BY DEF IsInjective
  <2>1. CASE c[i] = s[i] /\ i \in DOMAIN s /\ c[j] = s[j] /\ j \in DOMAIN s
    BY <2>1 DEF IsInjective
  <2>2. CASE /\ i - Len(s) \in DOMAIN u /\ c[i] = u[i - Len(s)]
             /\ j - Len(s) \in DOMAIN u /\ c[j] = u[j - Len(s)]
    <3>1. i - Len(s) = j - Len(s) BY <2>2 DEF IsInjective
    <3> QED BY <1>1, <3>1
  <2> QED BY <1>2, <1>3, <2>1, <2>2
<1>5. ASSUME NEW i \in DOMAIN s PROVE i \in DOMAIN c /\ c[i] = s[i] BY <1>1
<1>6. ASSUME NEW i \in DOMAIN u PROVE Len(s) + i \in DOMAIN c /\ c[Len(s) + i] = u[i]
  <2>1. Len(s) + i \in Len(s) + 1 .. Len(s) + Len(u) /\ (Len(s) + i) - Len(s) = i BY <1>1
  <2> QED BY <1>1, <2>1
<1>7. Range(c) = Range(s) \cup Range(u)
  <2>1. ASSUME NEW x \in Range(c) PROVE x \in Range(s) \cup Range(u)
    <3>1. PICK i \in DOMAIN c : x = c[i] BY DEF Range
    <3> QED BY <1>2, <3>1 DEF Range
  <2>2. ASSUME NEW x \in Range(s) PROVE x \in Range(c)
    <3>1. PICK i \in DOMAIN s : x = s[i] BY DEF Range
    <3> QED BY <1>5, <3>1 DEF Range
  <2>3. ASSUME NEW x \in Range(u) PROVE x \in Range(c)
    <3>1. PICK i \in DOMAIN u : x = u[i] BY DEF Range
    <3>2. Len(s) + i \in DOMAIN c /\ c[Len(s) + i] = x BY <1>6, <3>1
    <3> QED BY <3>2 DEF Range
  <2> QED BY <2>1, <2>2, <2>3
<1> QED BY <1>4, <1>7 DEF c

\* The beginning of a list without repetition.
LEMMA InjectivePrefix ==
    ASSUME NEW S, NEW s \in Seq(S), NEW p \in Seq(S), IsInjective(s),
           NEW k \in Nat, k <= Len(s), Len(p) = k, \A i \in 1 .. k : p[i] = s[i]
    PROVE  IsInjective(p) /\ Range(p) = {s[i] : i \in 1 .. k} /\ Range(p) \subseteq Range(s)
<1>1. DOMAIN p = 1 .. k /\ DOMAIN s = 1 .. Len(s) /\ Len(s) \in Nat OBVIOUS
<1>2. \A i \in 1 .. k : i \in DOMAIN s BY <1>1
<1>3. IsInjective(p) BY <1>1, <1>2 DEF IsInjective
<1>4. Range(p) = {s[i] : i \in 1 .. k} BY <1>1 DEF Range
<1>5. Range(p) \subseteq Range(s) BY <1>2, <1>4 DEF Range
<1> QED BY <1>3, <1>4, <1>5

-----------------------------------------------------------------------------
(* A step of a thread *)

\* What the earlier theorems have shown.
FbsKnown == HandlesKnown /\ FbsOwned

\* The step of thread t changes the FileBlocks it has or takes, the attachments of its
\* own files and the sizes of these, and names no other thread's file.
OwnOnly(t) ==
    /\ \A b \in Fbs : b # loc[t].fb /\ b \notin Range(free_fbhs) => fbmeta'[b] = fbmeta[b]
    /\ \A f \in Fhs : f \notin Held(t) => item'[f] = item[f]
    /\ \A f \in Fhs : f \notin Held(t) \cup Held(t)' => fmeta'[f].size = fmeta[f].size
    /\ \A n \in Names : \/ created_files'[n] \in {created_files[n], None} \cup Held(t)
                        \/ Unheld(created_files'[n])

\* Then nothing changes for the files that it does not have ...
LEMMA OtherFile ==
    ASSUME FbsKnown, NEW t \in Threads, OwnOnly(t), NEW f \in Fhs, f \notin Held(t)
    PROVE  /\ item'[f] = item[f] /\ FileIds(f)' = FileIds(f)
           /\ item[f] # None => fbmeta'[item[f]] = fbmeta[item[f]]
<1>1. item'[f] = item[f] BY DEF OwnOnly
<1>2. ASSUME item[f] # None PROVE fbmeta'[item[f]] = fbmeta[item[f]]
  <2>1. item[f] \in Fbs BY <1>2 DEF FbsKnown, HandlesKnown, TypeOK
  <2>2. item[f] # loc[t].fb BY <1>2 DEF FbsKnown, FbsOwned, ItemHeld
  <2>3. item[f] \notin Range(free_fbhs) BY DEF FbsKnown, FbsOwned, FreeFbsSound
  <2> QED BY <2>1, <2>2, <2>3 DEF OwnOnly
<1>3. FileIds(f)' = FileIds(f) BY <1>1, <1>2 DEF FileIds
<1> QED BY <1>1, <1>2, <1>3

\* The file of another thread, or of none, keeps the blocks of its size.
LEMMA OtherCovered ==
    ASSUME FbsKnown, NEW t \in Threads, OwnOnly(t), NEW f \in Fhs,
           f \notin Held(t) \cup Held(t)', Covered(f)
    PROVE  Covered(f)'
<1>1. fmeta'[f].size = fmeta[f].size BY DEF OwnOnly
<1> QED BY <1>1, OtherFile DEF Covered, CoveredTo

\* ... nor for the other threads.
LEMMA OtherThread ==
    ASSUME FbsKnown, HandlesKnown', NEW t \in Threads, NEW l, NEW r, Moved(t, l, r),
           OwnOnly(t), NEW u \in Threads, u # t
    PROVE  /\ pc'[u] = pc[u] /\ loc'[u] = loc[u] /\ Held(u)' = Held(u)
           /\ Held(u) \cap Held(t) = {} /\ Held(u) \cap Held(t)' = {}
           /\ Claim(u)' = Claim(u)
           /\ BlocksAt(pc[u], loc[u]) => BlocksAt(pc[u], loc[u])'
<1>1. PICK l0, r0 : l0 = pc[u] /\ r0 = loc[u] OBVIOUS
<1>2. pc'[u] = l0 /\ loc'[u] = r0 BY <1>1, OthersKept DEF FbsKnown, HandlesKnown
<1>3. Held(u)' = Held(u) BY <1>1, <1>2 DEF Held
<1>4. Held(u) \cap Held(t) = {} /\ Held(u) \cap Held(t)' = {}
  BY <1>3 DEF FbsKnown, HandlesKnown, HandlesOwned, HeldApart
<1>5. /\ r0.fh \in Fhs \cup {None} /\ r0.new \in Fhs \cup {None} /\ r0.fb \in Fbs \cup {None}
      /\ Fit(l0, r0)
  BY <1>1 DEF FbsKnown, HandlesKnown, TypeOK, Loc, LocalsSet
<1>6. ASSUME NEW f \in Fhs, f \in {r0.fh, r0.new}
      PROVE  /\ item'[f] = item[f] /\ FileIds(f)' = FileIds(f)
             /\ fmeta'[f].size = fmeta[f].size
             /\ item[f] # None => fbmeta'[item[f]] = fbmeta[item[f]]
  <2>1. f \in Held(u) BY <1>1, <1>6, HandleNotNone DEF Held
  <2>2. f \notin Held(t) \cup Held(t)' BY <1>4, <2>1
  <2> QED BY <2>2, OtherFile DEF OwnOnly
<1>7. r0.fb # None => fbmeta'[r0.fb] = fbmeta[r0.fb]
  <2>1. r0.fb # None => r0.fb # loc[t].fb BY <1>1 DEF FbsKnown, FbsOwned, FbsApart
  <2>2. r0.fb \notin Range(free_fbhs) BY <1>1 DEF FbsKnown, FbsOwned, FreeFbsSound
  <2> QED BY <1>5, <2>1, <2>2 DEF OwnOnly
<1>8. Ids(r0.fb)' = Ids(r0.fb) BY <1>7 DEF Ids
<1>9. FileIds(r0.fh)' = FileIds(r0.fh) /\ FileIds(r0.new)' = FileIds(r0.new)
  BY <1>5, <1>6 DEF FileIds
<1>10. Claim(u)' = Claim(u) BY <1>1, <1>2, <1>8, <1>9 DEF Claim, ClaimAt
<1>11. \A f \in Fhs : f \in {r0.fh, r0.new} /\ Covered(f) => Covered(f)'
  BY <1>6 DEF Covered, CoveredTo
<1>12. BlocksAt(l0, r0) => BlocksAt(l0, r0)'
  <2> SUFFICES ASSUME BlocksAt(l0, r0) PROVE BlocksAt(l0, r0)' OBVIOUS
  <2>1. UnsetAt(l0, r0)' BY DEF BlocksAt, UnsetAt
  <2>2. CoveredAt(l0, r0)' BY <1>5, <1>11 DEF BlocksAt, CoveredAt, Fit, Attached
  <2>3. ExtendAt(l0, r0)'
    <3>1. l0 \in {"extend_blocks", "extend_fb", "extend_size"} => r0.fh \in Fhs
      BY <1>5 DEF Fit
    <3> QED BY <1>6, <1>8, <3>1 DEF BlocksAt, ExtendAt, CoveredTo
  <2>4. ShrinkAt(l0, r0)'
    <3>1. /\ l0 \in Copied \cup Attached \cup {"shrink_fb"} => r0.fh \in Fhs /\ r0.new \in Fhs
          /\ l0 = "shrink_copy" => r0.fb \in Fbs
      BY <1>5 DEF Fit, Copied, Attached
    <3>2. ASSUME r0.fh \in Fhs, item[r0.fh] # None, NEW k
          PROVE  Uninherited(item[r0.fh], k)' = Uninherited(item[r0.fh], k)
      BY <1>6, <3>2 DEF Uninherited
    <3>3. ASSUME l0 \in Copied \cup Attached, item'[r0.fh] # None
          PROVE  (Ids(r0.fb) \cap Uninherited(item[r0.fh], KeptBlocks(r0.off)) = {})'
      <4>1. item[r0.fh] # None /\ r0.fh \in Fhs BY <1>6, <3>1, <3>3
      <4> QED BY <1>8, <3>2, <3>3, <4>1 DEF BlocksAt, ShrinkAt
    <3>4. (l0 = "shrink_fb" => r0.off < fmeta[r0.fh].size)'
      BY <1>6, <3>1 DEF BlocksAt, ShrinkAt
    <3>5. (l0 = "shrink_copy" =>
              /\ Len(fbmeta[r0.fb].ids) = KeptBlocks(r0.off) /\ KeptBlocks(r0.off) < Capacity
              /\ r0.off # 0)'
      BY <1>7, <3>1, FbNotNone DEF BlocksAt, ShrinkAt
    <3>6. (l0 \in {"shrink_detach", "shrink_attach"} => CoveredTo(r0.fb, r0.off))'
      BY <1>7 DEF BlocksAt, ShrinkAt, CoveredTo
    <3>7. /\ (l0 \in Copied \cup {"shrink_fb"} => item[r0.new] = None)'
          /\ (l0 \in Attached => item[r0.new] = r0.fb)'
      BY <1>6, <3>1 DEF BlocksAt, ShrinkAt
    <3>8. ASSUME l0 \in {"shrink_fb", "shrink_copy"}, NEW n \in Names
          PROVE  created_files'[n] # r0.new
      <4>1. r0.new \in Held(u)
        <5>1. r0.new \in Fhs BY <1>5, <3>8 DEF Fit
        <5> QED BY <1>1, <5>1, HandleNotNone DEF Held
      <4>2. created_files[n] # r0.new BY <3>8 DEF BlocksAt, ShrinkAt
      <4>3. r0.new \notin Held(t) /\ r0.new # None BY <1>4, <4>1 DEF Held
      <4> QED BY <4>1, <4>2, <4>3 DEF OwnOnly, Unheld
    <3>9. (l0 \in {"shrink_fb", "shrink_copy"} => \A n \in Names : created_files[n] # r0.new)'
      BY <3>8
    <3> QED BY <3>3, <3>4, <3>5, <3>6, <3>7, <3>9 DEF ShrinkAt
  <2> QED BY <2>1, <2>2, <2>3, <2>4 DEF BlocksAt
<1> QED BY <1>1, <1>2, <1>3, <1>4, <1>10, <1>12

\* What thread t may give to itself, to the pool or to a file: the pool's blocks, its
\* own and those of the files that it takes.
Within(t, r) == pool \cup Claim(t) \cup UNION {FileIds(f) : f \in Handles(r) \ Held(t)}

\* Thread t goes on to label l with locals r, hands around what it may, and leaves apart
\* what the pool has, what it has and what the files that it drops have.
LEMMA BlockStep ==
    ASSUME FbsKnown, HandlesKnown', BlocksOwned, NEW t \in Threads, NEW l, NEW r,
           Moved(t, l, r), OwnOnly(t), status' = "up", IdsOnce', BlocksAt(l, r)',
           pool' \subseteq Within(t, r), ClaimAt(l, r)' \subseteq Within(t, r),
           ClaimAt(l, r)' \cap pool' = {},
           \A f \in Held(t) \ Handles(r) :
                /\ FileIds(f)' \subseteq Within(t, r)
                /\ FileIds(f)' \cap pool' = {} /\ FileIds(f)' \cap ClaimAt(l, r)' = {}
                /\ \A g \in Held(t) \ Handles(r) : f # g => FileIds(f)' \cap FileIds(g)' = {},
           \A n \in Names :
                \/ created_files'[n] \in {None} \cup Handles(r)
                \/ Covered(created_files[n])'
                \/ created_files'[n] = created_files[n] /\ created_files[n] \notin Held(t)
    PROVE  BlocksOwned'
<1> DEFINE W == Within(t, r)
           D == Held(t) \ Handles(r)
<1>1. TypeOK /\ BlocksApart /\ NamedCovered /\ BlocksPlaced
  BY DEF FbsKnown, HandlesKnown, BlocksOwned
<1>2. pc'[t] = l /\ loc'[t] = r BY <1>1, OthersKept
<1>3. Held(t)' = Handles(r) /\ Claim(t)' = ClaimAt(l, r)'
  BY <1>2 DEF Held, Handles, Claim, ClaimAt
<1>4. \A u \in Threads : u # t =>
        /\ pc'[u] = pc[u] /\ loc'[u] = loc[u] /\ Held(u)' = Held(u)
        /\ Held(u) \cap Held(t) = {} /\ Held(u) \cap Handles(r) = {}
        /\ Claim(u)' = Claim(u)
        /\ BlocksAt(pc[u], loc[u]) => BlocksAt(pc[u], loc[u])'
  BY <1>3, OtherThread
<1>5. \A f \in Handles(r) : f \in Fhs
  BY <1>2 DEF HandlesKnown, TypeOK, Loc, Handles
<1>6. \A f \in Handles(r) \ Held(t) : f \in Fhs /\ Unheld(f) BY <1>4, <1>5 DEF Unheld
<1>7. \A u \in Threads : u # t => Claim(u) \cap W = {}
  <2>1. ASSUME NEW u \in Threads, u # t, NEW x \in Claim(u), x \in W PROVE FALSE
    <3>1. x \notin pool /\ x \notin Claim(t) BY <1>1, <2>1 DEF BlocksApart
    <3>2. PICK f \in Handles(r) \ Held(t) : x \in FileIds(f) BY <2>1, <3>1 DEF Within
    <3> QED BY <1>1, <1>6, <2>1, <3>2 DEF BlocksApart
  <2> QED BY <2>1
<1>8. \A f \in Fhs : Unheld(f)' =>
        \/ f \in D
        \/ f \notin Held(t) /\ f \notin Handles(r) /\ Unheld(f) /\ FileIds(f)' = FileIds(f)
  BY <1>3, <1>4, OtherFile DEF Unheld
<1>9. \A f \in Fhs : Unheld(f) /\ f \notin Handles(r) => FileIds(f) \cap W = {}
  <2>1. ASSUME NEW f \in Fhs, Unheld(f), f \notin Handles(r), NEW x \in FileIds(f), x \in W
        PROVE  FALSE
    <3>1. x \notin pool /\ x \notin Claim(t) BY <1>1, <2>1 DEF BlocksApart
    <3>2. PICK g \in Handles(r) \ Held(t) : x \in FileIds(g) BY <2>1, <3>1 DEF Within
    <3> QED BY <1>1, <1>6, <2>1, <3>2 DEF BlocksApart
  <2> QED BY <2>1
<1>10. /\ pool' \subseteq W /\ Claim(t)' \subseteq W /\ Claim(t)' \cap pool' = {}
       /\ \A f \in D : /\ FileIds(f)' \subseteq W /\ FileIds(f)' \cap pool' = {}
                       /\ FileIds(f)' \cap Claim(t)' = {}
                       /\ \A g \in D : f # g => FileIds(f)' \cap FileIds(g)' = {}
  BY <1>3
<1> HIDE DEF W, D
<1>11. BlocksApart'
  <2>1. ASSUME NEW f \in Fhs, NEW g \in Fhs, f # g, Unheld(f)', Unheld(g)'
        PROVE  FileIds(f)' \cap FileIds(g)' = {}
    <3>1. CASE f \in D /\ g \in D BY <1>10, <2>1, <3>1
    <3>2. CASE f \in D /\ g \notin D BY <1>8, <1>9, <1>10, <2>1, <3>2
    <3>3. CASE f \notin D /\ g \in D BY <1>8, <1>9, <1>10, <2>1, <3>3
    <3>4. CASE f \notin D /\ g \notin D BY <1>1, <1>8, <2>1, <3>4 DEF BlocksApart
    <3> QED BY <3>1, <3>2, <3>3, <3>4
  <2>2. ASSUME NEW f \in Fhs, Unheld(f)'
        PROVE  FileIds(f)' \cap pool' = {} /\ FileIds(f)' \cap Claim(t)' = {}
    <3>1. CASE f \in D BY <1>10, <3>1
    <3>2. CASE f \notin D BY <1>8, <1>9, <1>10, <2>2, <3>2
    <3> QED BY <3>1, <3>2
  <2>3. ASSUME NEW u \in Threads, u # t, NEW f \in Fhs, Unheld(f)'
        PROVE  Claim(u)' \cap FileIds(f)' = {}
    <3>1. CASE f \in D BY <1>4, <1>7, <1>10, <2>3, <3>1
    <3>2. CASE f \notin D BY <1>1, <1>4, <1>8, <2>3, <3>2 DEF BlocksApart
    <3> QED BY <3>1, <3>2
  <2>4. ASSUME NEW u \in Threads, u # t
        PROVE  Claim(u)' \cap pool' = {} /\ Claim(u)' \cap Claim(t)' = {}
    BY <1>4, <1>7, <1>10, <2>4
  <2>5. ASSUME NEW u \in Threads, NEW v \in Threads, u # v
        PROVE  Claim(u)' \cap Claim(v)' = {}
    <3>1. CASE u = t \/ v = t BY <2>4, <2>5, <3>1
    <3>2. CASE u # t /\ v # t BY <1>1, <1>4, <2>5, <3>2 DEF BlocksApart
    <3> QED BY <3>1, <3>2
  <2>6. \A u \in Threads, f \in Fhs : Unheld(f)' => Claim(u)' \cap FileIds(f)' = {}
    BY <2>2, <2>3
  <2>7. \A u \in Threads : Claim(u)' \cap pool' = {} BY <1>10, <2>4
  <2> QED BY <2>1, <2>2, <2>5, <2>6, <2>7 DEF BlocksApart
<1>12. NamedCovered'
  <2>1. ASSUME NEW n \in Names, created_files'[n] # None, Unheld(created_files[n])'
        PROVE  Covered(created_files[n])'
    <3>1. PICK f : f = created_files'[n] OBVIOUS
    <3>2. f \in Fhs BY <2>1, <3>1 DEF HandlesKnown, TypeOK
    <3>3. Unheld(f)' BY <2>1, <3>1 DEF Unheld, Held
    <3>4. f \notin Handles(r) BY <1>3, <3>3 DEF Unheld
    <3>5. CASE f = created_files[n] /\ f \notin Held(t)
      <4>1. Unheld(f) BY <1>8, <3>2, <3>3, <3>5 DEF D
      <4>2. Covered(f) BY <1>1, <2>1, <3>1, <3>5, <4>1 DEF NamedCovered
      <4>3. Covered(f)' BY <1>3, <3>2, <3>4, <3>5, <4>2, OtherCovered
      <4> QED BY <3>1, <4>3 DEF Covered, CoveredTo
    <3> QED BY <2>1, <3>1, <3>4, <3>5
  <2> QED BY <2>1 DEF NamedCovered
<1>13. BlocksPlaced'
  <2>1. ASSUME NEW u \in Threads PROVE BlocksAt(pc[u], loc[u])'
    <3>1. CASE u = t
      <4>1. UnsetAt(pc[t], loc[t])' /\ CoveredAt(pc[t], loc[t])'
        BY <1>2 DEF BlocksAt, UnsetAt, CoveredAt, Covered, CoveredTo
      <4>2. ExtendAt(pc[t], loc[t])' BY <1>2 DEF BlocksAt, ExtendAt, CoveredTo, Ids
      <4>3. ShrinkAt(pc[t], loc[t])'
        BY <1>2 DEF BlocksAt, ShrinkAt, CoveredTo, Ids, Uninherited
      <4> QED BY <3>1, <4>1, <4>2, <4>3 DEF BlocksAt
    <3>2. CASE u # t BY <1>1, <1>4, <3>2 DEF BlocksPlaced
    <3> QED BY <3>1, <3>2
  <2> QED BY <2>1 DEF BlocksPlaced
<1>14. FirstMount' BY DEF FirstMount
<1> QED BY <1>11, <1>12, <1>13, <1>14 DEF BlocksOwned

\* A thread in an operation is one of a mounted file system.
LEMMA BusyIsUp ==
    ASSUME FbsKnown, NEW t \in Threads, pc[t] # "idle"
    PROVE  status = "up"
BY DEF FbsKnown, HandlesKnown, TypeOK, HandlesOwned, IdleHoldsNothing

\* What the invariant says about one thread.
LEMMA OwnPlace ==
    ASSUME FbsKnown, BlocksOwned, NEW t \in Threads
    PROVE  /\ TypeOK /\ Fit(pc[t], loc[t]) /\ BlocksAt(pc[t], loc[t]) /\ FbAt(pc[t], loc[t])
           /\ loc[t] \in Loc /\ IdsOnce /\ Claim(t) \cap pool = {}
BY DEF FbsKnown, HandlesKnown, TypeOK, LocalsSet, BlocksOwned, BlocksPlaced, BlocksApart,
       FbsOwned, FbsPlaced

\* A thread that goes on with the handles and blocks it has.
LEMMA KeepBlocks ==
    ASSUME FbsKnown, HandlesKnown', BlocksOwned, NEW t \in Threads, NEW l, NEW r,
           Moved(t, l, r), status' = "up", UNCHANGED <<pool, fbmeta, item>>,
           pc[t] \notin Released, r.fh = loc[t].fh, r.new = loc[t].new, r.fb = loc[t].fb,
           r.ids = loc[t].ids, BlocksAt(l, r)',
           \A f \in Fhs : f \notin Held(t) => fmeta'[f].size = fmeta[f].size,
           \A n \in Names : \/ created_files'[n] = created_files[n]
                            \/ created_files'[n] \in {None} \cup Held(t)
    PROVE  BlocksOwned'
<1>1. Handles(r) = Held(t) BY DEF Handles, Held
<1>2. OwnOnly(t) BY DEF OwnOnly
<1>3. IdsOnce' BY DEF BlocksOwned, IdsOnce
<1>4. ClaimAt(l, r)' \subseteq Claim(t) BY DEF ClaimAt, Claim, FileIds, Ids
<1>5. Claim(t) \cap pool = {} BY OwnPlace
<1>6. pool' \subseteq Within(t, r) /\ ClaimAt(l, r)' \subseteq Within(t, r)
  BY <1>4 DEF Within
<1> QED BY <1>1, <1>2, <1>3, <1>4, <1>5, <1>6, BlockStep

\* A thread that returns, with its files apart from each other and those that have a
\* name covered.
LEMMA ReturnBlocks ==
    ASSUME FbsKnown, HandlesKnown', BlocksOwned, NEW t \in Threads, Moved(t, "idle", NoLoc),
           status' = "up", OwnOnly(t), IdsOnce', pool' \subseteq pool,
           \A f \in Held(t) :
                /\ FileIds(f)' \subseteq Claim(t)
                /\ \A g \in Held(t) : f # g => FileIds(f)' \cap FileIds(g)' = {},
           \A n \in Names :
                \/ created_files'[n] = None
                \/ Covered(created_files[n])'
                \/ created_files'[n] = created_files[n] /\ created_files[n] \notin Held(t)
    PROVE  BlocksOwned'
<1>1. PICK r : r = NoLoc OBVIOUS
<1>2. r.fh = None /\ r.new = None /\ r.fb = None /\ r.ids = <<>> BY <1>1 DEF NoLoc
<1>3. Handles(r) = {} BY <1>2 DEF Handles
<1>4. ClaimAt("idle", r)' = {} BY <1>2, EmptyList DEF ClaimAt, FileIds, Ids, Range
<1>5. BlocksAt("idle", r)'
  BY <1>2 DEF BlocksAt, UnsetAt, CoveredAt, ExtendAt, ShrinkAt, Copied, Attached, Shrinking
<1>6. Claim(t) \cap pool = {} BY OwnPlace
<1>7. pool' \subseteq Within(t, r) /\ Claim(t) \subseteq Within(t, r) BY DEF Within
<1>8. Moved(t, "idle", r) BY <1>1
<1> QED BY <1>3, <1>4, <1>5, <1>6, <1>7, <1>8, BlockStep

\* The sizes that a page write leaves.
LEMMA WrittenSizes ==
    ASSUME NEW fm \in [Fhs -> FileMeta], NEW f \in Fhs, NEW good, WriteMeta(fm, f, good)
    PROVE  \A g \in Fhs : fmeta'[g].size = fm[g].size
BY DEF WriteMeta, Sealed, FileMeta

\* create claims a meta that has no FileBlock and no size.
LEMMA CreateNewBlocks ==
    ASSUME FbsKnown, HandlesKnown', BlocksOwned, NEW t \in Threads, NEW n \in Names,
           CreateNew(t, n)
    PROVE  BlocksOwned'
<1>1. PICK g, r : g = Head(free_fhs) /\ r = [loc[t] EXCEPT !.name = n, !.fh = g] OBVIOUS
<1>2. /\ TypeOK /\ loc[t] = NoLoc /\ status' = "up" /\ free_fhs # <<>>
      /\ UNCHANGED <<fbmeta, item, pool, created_files>>
      /\ fmeta' = [fmeta EXCEPT ![g] = ClaimedMeta(@, n)] /\ fmeta[g].size = 0
  BY <1>1 DEF CreateNew, Start, FreeMetaValid, FbsKnown, HandlesKnown, HandlesOwned,
              IdleHoldsNothing
<1>3. Moved(t, "create_write", r) BY <1>1, <1>2 DEF CreateNew, Goto, Moved, TypeOK, Loc
<1>4. /\ g \in Fhs /\ item[g] = None
      /\ \A u \in Threads : loc[u].fh # g /\ loc[u].new # g
  BY <1>1, <1>2, HeadFree DEF FbsKnown, HandlesKnown
<1>5. r.fh = g /\ r.new = None /\ r.fb = None /\ r.ids = <<>> BY <1>1, <1>2 DEF NoLoc
<1>6. Held(t) = {} BY <1>2 DEF Held, NoLoc
<1>7. \A f \in Fhs : fmeta'[f].size = fmeta[f].size
  BY <1>2, <1>4 DEF TypeOK, ClaimedMeta, FileMeta
<1>8. OwnOnly(t) /\ IdsOnce' BY <1>2, <1>7 DEF OwnOnly, BlocksOwned, IdsOnce
<1>9. ClaimAt("create_write", r)' = {}
  BY <1>2, <1>4, <1>5, EmptyList DEF ClaimAt, FileIds, Ids, Range
<1>10. Covered(g)' BY <1>2, <1>4, <1>7 DEF Covered, CoveredTo
<1>11. BlocksAt("create_write", r)'
  BY <1>5, <1>10 DEF BlocksAt, UnsetAt, CoveredAt, ExtendAt, ShrinkAt, Copied, Attached
<1>12. pool' \subseteq Within(t, r) BY <1>2 DEF Within
<1> QED BY <1>2, <1>3, <1>6, <1>8, <1>9, <1>11, <1>12, BlockStep

\* create persists the meta ...
LEMMA CreateWriteBlocks ==
    ASSUME FbsKnown, HandlesKnown', BlocksOwned, NEW t \in Threads, CreateWrite(t, TRUE)
    PROVE  BlocksOwned'
<1>1. PICK r : r = loc[t] OBVIOUS
<1>2. /\ TypeOK /\ pc[t] = "create_write" /\ r.fh \in Fhs
      /\ BlocksAt("create_write", r)
  BY <1>1, OwnPlace DEF CreateWrite, At, Fit
<1>3. /\ status' = "up" /\ UNCHANGED <<pool, fbmeta, item, created_files>>
      /\ WriteMeta(fmeta, r.fh, TRUE)
  BY <1>1, <1>2, BusyIsUp DEF CreateWrite
<1>4. Moved(t, "create_add", r) BY <1>1, <1>2 DEF CreateWrite, Goto, Moved, TypeOK
<1>5. \A f \in Fhs : fmeta'[f].size = fmeta[f].size
  BY <1>2, <1>3, WrittenSizes DEF TypeOK
<1>6. Covered(r.fh)' BY <1>2, <1>3, <1>5 DEF BlocksAt, CoveredAt, Covered, CoveredTo
<1>7. BlocksAt("create_add", r)'
  BY <1>2, <1>6 DEF BlocksAt, UnsetAt, CoveredAt, ExtendAt, ShrinkAt, Copied, Attached, Shrinking
<1>8. pc[t] \notin Released BY <1>2 DEF Released
<1> QED BY <1>1, <1>3, <1>4, <1>5, <1>7, <1>8, KeepBlocks

\* ... and enters it in the maps.
LEMMA CreateAddBlocks ==
    ASSUME FbsKnown, HandlesKnown', BlocksOwned, NEW t \in Threads, CreateAdd(t)
    PROVE  BlocksOwned'
<1>1. PICK r : r = loc[t] OBVIOUS
<1>2. /\ TypeOK /\ pc[t] = "create_add" /\ r.fh \in Fhs /\ r.name \in Names
      /\ r.new = None /\ Covered(r.fh) /\ IdsOnce
  BY <1>1, OwnPlace DEF CreateAdd, At, Fit, BlocksAt, UnsetAt, CoveredAt, Shrinking, Copied,
                        Attached
<1>3. /\ status' = "up" /\ UNCHANGED <<pool, fbmeta, item, fmeta>>
      /\ created_files' = [created_files EXCEPT ![r.name] = r.fh]
      /\ Moved(t, "idle", NoLoc)
  BY <1>1, <1>2, BusyIsUp, ReturnMoved DEF CreateAdd
<1>4. Held(t) = {r.fh} BY <1>1, <1>2, HandleNotNone DEF Held
<1>5. OwnOnly(t) /\ IdsOnce' BY <1>2, <1>3, <1>4 DEF OwnOnly, IdsOnce, TypeOK
<1>6. FileIds(r.fh)' \subseteq Claim(t)
  BY <1>1, <1>2, <1>3 DEF FileIds, Claim, ClaimAt, Released
<1>7. Covered(r.fh)' BY <1>2, <1>3 DEF Covered, CoveredTo
<1>8. ASSUME NEW n \in Names
      PROVE  \/ Covered(created_files[n])'
             \/ created_files'[n] = created_files[n] /\ created_files[n] \notin Held(t)
  <2>1. CASE n = r.name
    <3>1. created_files'[n] = r.fh BY <1>2, <1>3, <2>1 DEF TypeOK
    <3> QED BY <1>7, <3>1 DEF Covered, CoveredTo
  <2>2. CASE n # r.name BY <1>1, <1>2, <1>3, <2>2, OtherNames DEF TypeOK, FbsKnown
  <2> QED BY <2>1, <2>2
<1> QED BY <1>3, <1>4, <1>5, <1>6, <1>8, ReturnBlocks

-----------------------------------------------------------------------------
(* ExtendFile *)

\* The file behind a name that no thread works on is apart from all others, and covered.
LEMMA SettledBlocks ==
    ASSUME FbsKnown, BlocksOwned, NEW n \in Names, Free(n), created_files[n] # None
    PROVE  /\ created_files[n] \in Fhs /\ Unheld(created_files[n])
           /\ Covered(created_files[n])
           /\ FileIds(created_files[n]) \cap pool = {}
<1>1. created_files[n] \in Fhs /\ Unheld(created_files[n])
  BY SettledFree DEF FbsKnown, HandlesKnown, Unheld, Held
<1> QED BY <1>1 DEF BlocksOwned, NamedCovered, BlocksApart

\* ExtendFile takes the file, and a FileBlock without ids or that of the file.
LEMMA ExtendStartBlocks ==
    ASSUME FbsKnown, HandlesKnown', BlocksOwned, NEW t \in Threads, NEW n \in Names,
           NEW off \in Offsets, ExtendStart(t, n, off)
    PROVE  BlocksOwned'
<1>1. PICK f : f = created_files[n] OBVIOUS
<1>2. /\ TypeOK /\ loc[t] = NoLoc /\ status' = "up" /\ f # None /\ Free(n) /\ off \in Nat
      /\ UNCHANGED <<fbmeta, item, pool, created_files, fmeta>> /\ fmeta[f].size < off
      /\ FreeFbsSound
  BY <1>1, StoreAssumption DEF ExtendStart, Start, FbsKnown, HandlesKnown, HandlesOwned,
                IdleHoldsNothing, TypeOK, FileMeta, FbsOwned
<1>3. f \in Fhs /\ Unheld(f) /\ Covered(f) /\ FileIds(f) \cap pool = {}
  BY <1>1, <1>2, SettledBlocks
<1>4. PICK r : /\ Moved(t, "extend_blocks", r)
               /\ r.fh = f /\ r.new = None /\ r.ids = <<>> /\ r.off = off
               /\ \/ fmeta[f].size = 0 /\ r.new_fb = TRUE /\ Ids(r.fb) = {}
                  \/ fmeta[f].size > 0 /\ r.new_fb = FALSE /\ r.fb = item[f]
  <2>1. CASE /\ fmeta[f].size = 0 /\ free_fbhs # <<>>
             /\ loc' = [loc EXCEPT ![t].name = n, ![t].fh = f, ![t].off = off,
                                   ![t].fb = Head(free_fbhs), ![t].new_fb = TRUE]
    <3>1. PICK r : r = [NoLoc EXCEPT !.name = n, !.fh = f, !.off = off,
                                     !.fb = Head(free_fbhs), !.new_fb = TRUE]
      OBVIOUS
    <3>2. Moved(t, "extend_blocks", r)
      BY <1>2, <2>1, <3>1 DEF ExtendStart, Goto, Moved, TypeOK, Loc
    <3>3. /\ r.fh = f /\ r.new = None /\ r.ids = <<>> /\ r.off = off /\ r.new_fb = TRUE
          /\ r.fb = Head(free_fbhs)
      BY <3>1 DEF NoLoc
    <3>4. fbmeta[r.fb] = FreshFb BY <1>2, <2>1, <3>3, HeadFbFree
    <3>5. Ids(r.fb) = {} BY <3>4, EmptyList DEF Ids, FreshFb, Range
    <3> QED BY <2>1, <3>2, <3>3, <3>5
  <2>2. CASE /\ fmeta[f].size > 0
             /\ loc' = [loc EXCEPT ![t].name = n, ![t].fh = f, ![t].off = off,
                                   ![t].fb = item[f]]
    <3>1. PICK r : r = [NoLoc EXCEPT !.name = n, !.fh = f, !.off = off, !.fb = item[f]]
      OBVIOUS
    <3>2. Moved(t, "extend_blocks", r)
      BY <1>2, <2>2, <3>1 DEF ExtendStart, Goto, Moved, TypeOK, Loc
    <3>3. /\ r.fh = f /\ r.new = None /\ r.ids = <<>> /\ r.off = off /\ r.new_fb = FALSE
          /\ r.fb = item[f]
      BY <3>1 DEF NoLoc
    <3> QED BY <2>2, <3>2, <3>3
  <2> QED BY <1>1, <2>1, <2>2 DEF ExtendStart
<1>5. Held(t) = {} BY <1>2 DEF Held, NoLoc
<1>6. OwnOnly(t) /\ IdsOnce' BY <1>2 DEF OwnOnly, BlocksOwned, IdsOnce
<1>7. Ids(r.fb)' \subseteq FileIds(f)
  BY <1>2, <1>3, <1>4, HandleNotNone DEF Ids, FileIds
<1>8. ClaimAt("extend_blocks", r)' \subseteq FileIds(f)
  <2>1. FileIds(r.fh)' = FileIds(f) /\ FileIds(r.new)' = {} BY <1>2, <1>4 DEF FileIds
  <2> QED BY <1>4, <1>7, <2>1, EmptyList DEF ClaimAt, Range
<1>9. FileIds(f) \subseteq Within(t, r) /\ pool' \subseteq Within(t, r)
  <2>1. f \in Handles(r) \ Held(t) BY <1>2, <1>4, <1>5 DEF Handles
  <2> QED BY <1>2, <2>1 DEF Within
<1>10. Covered(f)' BY <1>2, <1>3 DEF Covered, CoveredTo
<1>11. BlocksAt("extend_blocks", r)'
  <2>1. fmeta[f].size \in Nat BY <1>2, <1>3 DEF TypeOK, FileMeta
  <2> QED
    BY <1>2, <1>4, <1>10, <2>1 DEF BlocksAt, UnsetAt, CoveredAt, ExtendAt, ShrinkAt, Copied,
                                   Attached
<1> QED BY <1>2, <1>3, <1>4, <1>5, <1>6, <1>8, <1>9, <1>11, BlockStep

\* A list of n blocks of the pool.
LEMMA ChosenBlocks ==
    ASSUME TypeOK, NEW k \in Nat, NEW s \in BlockChoices(k)
    PROVE  s \in Seq(Blocks) /\ Len(s) = k /\ IsInjective(s) /\ Range(s) \subseteq pool
<1>1. s \in [1 .. k -> pool] /\ IsInjective(s) BY DEF BlockChoices, Injection
<1>2. s \in [1 .. k -> Blocks] BY <1>1 DEF TypeOK
<1> QED BY <1>1, <1>2 DEF Range

\* ExtendFile takes blocks of the pool, or returns as it came.
LEMMA ExtendBlocksBlocks ==
    ASSUME FbsKnown, HandlesKnown', BlocksOwned, NEW t \in Threads, ExtendBlocks(t)
    PROVE  BlocksOwned'
<1>1. PICK c, f, size, need :
        /\ c = loc[t] /\ f = c.fh /\ size = fmeta[f].size /\ need = BlocksNeeded(size, c.off)
  OBVIOUS
<1>2. /\ TypeOK /\ pc[t] = "extend_blocks" /\ f \in Fhs /\ c.fb \in Fbs /\ c.new = None
      /\ Covered(f) /\ ExtendAt("extend_blocks", c) /\ IdsOnce /\ Claim(t) \cap pool = {}
      /\ c \in Loc
  BY <1>1, OwnPlace DEF ExtendBlocks, At, Fit, BlocksAt, UnsetAt, CoveredAt, Shrinking, Copied,
                        Attached
<1>3. size \in Nat /\ c.off \in Nat /\ size < c.off
  BY <1>1, <1>2 DEF TypeOK, Loc, FileMeta, ExtendAt
<1>4. need \in Nat BY <1>1, <1>3, BlocksNeededNat
<1>5. status' = "up" /\ UNCHANGED <<fbmeta, item, created_files, fmeta>>
  BY <1>2, BusyIsUp DEF ExtendBlocks
<1>6. OwnOnly(t) /\ IdsOnce' /\ Covered(f)'
  BY <1>2, <1>5 DEF OwnOnly, IdsOnce, Covered, CoveredTo
<1>7. Held(t) = {f} BY <1>1, <1>2, HandleNotNone DEF Held
<1>8. FileIds(f)' \subseteq Claim(t) /\ Ids(c.fb)' \subseteq Claim(t)
  BY <1>1, <1>2, <1>5 DEF FileIds, Ids, Claim, ClaimAt, Released
<1>9. CASE Return(t) /\ UNCHANGED pool
  <2>1. ASSUME NEW n \in Names
        PROVE  \/ Covered(created_files[n])'
               \/ created_files'[n] = created_files[n] /\ created_files[n] \notin Held(t)
    <3>1. CASE created_files[n] = f
      <4>1. created_files'[n] = f BY <1>5, <3>1
      <4> QED BY <1>6, <4>1 DEF Covered, CoveredTo
    <3> QED BY <1>5, <1>7, <3>1
  <2> QED BY <1>5, <1>6, <1>7, <1>8, <1>9, <2>1, ReturnMoved, ReturnBlocks
<1>10. ASSUME NEW s \in BlockChoices(need), pool' = pool \ Range(s),
              loc' = [loc EXCEPT ![t].ids = s],
              Goto(t, IF need > 0 THEN "extend_fb" ELSE "extend_size")
       PROVE  BlocksOwned'
  <2>1. s \in Seq(Blocks) /\ Len(s) = need /\ IsInjective(s) /\ Range(s) \subseteq pool
    BY <1>2, <1>4, ChosenBlocks
  <2>2. PICK l, r : /\ l = (IF need > 0 THEN "extend_fb" ELSE "extend_size")
                    /\ r = [c EXCEPT !.ids = s]
    OBVIOUS
  <2>3. Moved(t, l, r) BY <1>1, <1>2, <1>10, <2>2 DEF Goto, Moved, TypeOK
  <2>4. /\ r.fh = f /\ r.new = None /\ r.fb = c.fb /\ r.ids = s /\ r.off = c.off
        /\ r.new_fb = c.new_fb
    BY <1>1, <1>2, <2>2 DEF Loc
  <2>5. Handles(r) = Held(t) BY <1>2, <1>7, <2>4, HandleNotNone DEF Handles
  <2>6. ClaimAt(l, r)' \subseteq Range(s) \cup Claim(t)
    BY <1>8, <2>4 DEF ClaimAt, FileIds
  <2>7. /\ pool' \subseteq Within(t, r) /\ ClaimAt(l, r)' \subseteq Within(t, r)
        /\ ClaimAt(l, r)' \cap pool' = {}
    BY <1>2, <1>10, <2>1, <2>6 DEF Within
  <2>8. Range(s) \cap Ids(c.fb)' = {} BY <1>2, <1>8, <2>1
  <2>9. ASSUME need = 0 PROVE CoveredTo(item[f], c.off)'
    <3>1. size # 0
      <4>1. 0 <= BlockSize * 0 /\ 0 + need = 0 BY <2>9, StoreAssumption
      <4>2. size = 0 => c.off <= BlockSize * (0 + need) BY <1>1, <1>3, <4>1, NeededCovers
      <4>3. BlockSize * 0 = 0 BY StoreAssumption
      <4> QED BY <1>3, <4>1, <4>2, <4>3
    <3>2. item[f] # None /\ size <= BlockSize * Len(fbmeta[item[f]].ids)
      BY <1>1, <1>2, <3>1 DEF Covered, CoveredTo
    <3>3. item[f] \in Fbs BY <1>2, <3>2 DEF TypeOK
    <3>4. PICK k \in Nat : k = Len(fbmeta[item[f]].ids) BY <1>2, <3>3 DEF TypeOK, FileBlockMeta
    <3>5. c.off <= BlockSize * (k + need) BY <1>1, <1>3, <3>2, <3>4, NeededCovers
    <3>6. k + need = k BY <2>9
    <3>7. c.off <= BlockSize * Len(fbmeta[item[f]].ids) BY <3>4, <3>5, <3>6, Zenon
    <3> QED BY <1>3, <1>5, <3>2, <3>7 DEF CoveredTo
  <2>10. BlocksAt(l, r)'
    <3>1. CASE need > 0
      <4>1. l = "extend_fb" BY <2>2, <3>1
      <4>2. ExtendAt(l, r)'
        BY <1>1, <1>2, <1>5, <2>1, <2>4, <2>8, <4>1 DEF ExtendAt, CoveredTo
      <4> QED BY <1>6, <2>4, <4>1, <4>2 DEF BlocksAt, UnsetAt, CoveredAt, ShrinkAt, Copied,
                                            Attached
    <3>2. CASE need = 0
      <4>1. l = "extend_size" BY <2>2, <3>2
      <4>2. ExtendAt(l, r)' BY <1>5, <2>4, <2>9, <3>2, <4>1 DEF ExtendAt, CoveredTo
      <4> QED BY <2>4, <4>1, <4>2 DEF BlocksAt, UnsetAt, CoveredAt, ShrinkAt, Copied,
                                      Attached
    <3> QED BY <1>4, <3>1, <3>2
  <2>11. \A n \in Names : created_files'[n] \in Handles(r) \/
              (created_files'[n] = created_files[n] /\ created_files[n] \notin Held(t))
    BY <1>5, <2>5
  <2> QED BY <1>5, <1>6, <2>3, <2>5, <2>7, <2>10, <2>11, BlockStep
<1> QED BY <1>1, <1>9, <1>10 DEF ExtendBlocks

\* What ExtendFile leaves in its FileBlock.
LEMMA FilledIds ==
    ASSUME FbsKnown, BlocksOwned, NEW t \in Threads, pc[t] = "extend_fb",
           fbmeta' = [fbmeta EXCEPT ![loc[t].fb] = FilledFb(t)]
    PROVE  /\ IdsOnce' /\ \A c \in Fbs : c # loc[t].fb => fbmeta'[c] = fbmeta[c]
           /\ Range(fbmeta'[loc[t].fb].ids) \subseteq
                Ids(loc[t].fb) \cup Range(loc[t].ids)
           /\ Len(fbmeta'[loc[t].fb].ids) >= Len(fbmeta[loc[t].fb].ids)
           /\ Len(loc[t].ids) <= Room(loc[t].fb) =>
                Len(fbmeta'[loc[t].fb].ids) = Len(fbmeta[loc[t].fb].ids) + Len(loc[t].ids)
<1>1. PICK c, b, old, room : /\ c = loc[t] /\ b = c.fb /\ old = fbmeta[b].ids
                             /\ room = Capacity - Len(old)
  OBVIOUS
<1>2. /\ TypeOK /\ b \in Fbs /\ b # None /\ c \in Loc /\ IdsOnce /\ ExtendAt("extend_fb", c)
  BY <1>1, OwnPlace, FbNotNone DEF Fit, BlocksAt
<1>3. /\ old \in Seq(Blocks) /\ c.ids \in Seq(Blocks) /\ IsInjective(old) /\ IsInjective(c.ids)
      /\ Range(old) \cap Range(c.ids) = {} /\ Len(old) <= Capacity /\ Ids(b) = Range(old)
  BY <1>1, <1>2 DEF TypeOK, FileBlockMeta, Loc, IdsOnce, ExtendAt, Ids
<1>4. room \in Nat /\ Room(b) = room /\ Len(old) \in Nat /\ Len(c.ids) \in Nat
  <2>1. Len(old) \in Nat /\ Len(c.ids) \in Nat BY <1>3
  <2>2. room \in Nat BY <1>1, <1>3, <2>1, StoreAssumption
  <2>3. Room(b) = room BY <1>1 DEF Room
  <2> QED BY <2>1, <2>2, <2>3
<1>5. PICK fits : fits = IF Len(c.ids) <= room THEN c.ids ELSE SubSeq(c.ids, 1, room) OBVIOUS
<1>6. fits \in Seq(Blocks) /\ Len(fits) <= Len(c.ids) /\ Len(fits) \in Nat /\ Len(fits) <= room
      /\ \A i \in 1 .. Len(fits) : fits[i] = c.ids[i]
  BY <1>3, <1>4, <1>5
<1>7. IsInjective(fits) /\ Range(fits) \subseteq Range(c.ids)
  BY <1>3, <1>6, InjectivePrefix
<1>8. IsInjective(old \o fits) /\ Range(old \o fits) = Range(old) \cup Range(fits)
  BY <1>3, <1>6, <1>7, InjectiveConcat
<1>9. Len(old \o fits) = Len(old) + Len(fits) BY <1>3, <1>6
<1>10. fbmeta'[b].ids = old \o fits /\ \A d \in Fbs : d # b => fbmeta'[d] = fbmeta[d]
  <2>1. FilledFb(t).ids = old \o fits BY <1>1, <1>4, <1>5 DEF FilledFb
  <2> QED BY <1>1, <1>2, <2>1 DEF TypeOK
<1>11. Len(old \o fits) <= Capacity BY <1>1, <1>3, <1>4, <1>6, <1>9, StoreAssumption
<1>12. IdsOnce' BY <1>2, <1>8, <1>10, <1>11 DEF IdsOnce
<1>13. Len(c.ids) <= room => fits = c.ids BY <1>5
<1>14. Len(fbmeta'[b].ids) >= Len(old) /\
       (Len(c.ids) <= Room(b) => Len(fbmeta'[b].ids) = Len(old) + Len(c.ids))
  <2>1. Len(fbmeta'[b].ids) = Len(old) + Len(fits) BY <1>9, <1>10
  <2>2. Len(fbmeta'[b].ids) >= Len(old) BY <1>4, <1>6, <2>1
  <2>3. Len(c.ids) <= Room(b) => fits = c.ids BY <1>4, <1>13
  <2> QED BY <2>1, <2>2, <2>3
<1> QED BY <1>1, <1>3, <1>7, <1>8, <1>10, <1>12, <1>14

\* ExtendFile fills its FileBlock and, when that is new, attaches it; if the ids do not
\* fit, the file keeps the size it had.
LEMMA ExtendFbBlocks ==
    ASSUME FbsKnown, HandlesKnown', BlocksOwned, NEW t \in Threads, ExtendFb(t, TRUE)
    PROVE  BlocksOwned'
<1>1. PICK c, f, b, size : c = loc[t] /\ f = c.fh /\ b = c.fb /\ size = fmeta[f].size OBVIOUS
<1>2. /\ TypeOK /\ pc[t] = "extend_fb" /\ f \in Fhs /\ b \in Fbs /\ c.new = None
      /\ Covered(f) /\ ExtendAt("extend_fb", c) /\ IdsOnce /\ Claim(t) \cap pool = {}
      /\ c \in Loc
  BY <1>1, OwnPlace DEF ExtendFb, At, Fit, BlocksAt, UnsetAt, CoveredAt, Shrinking, Copied,
                        Attached
<1>3. /\ status' = "up" /\ UNCHANGED <<pool, created_files, fmeta>>
      /\ fbmeta' = [fbmeta EXCEPT ![loc[t].fb] = FilledFb(t)]
  BY <1>2, BusyIsUp DEF ExtendFb, WriteFbMeta
<1>4. /\ IdsOnce' /\ \A d \in Fbs : d # b => fbmeta'[d] = fbmeta[d]
      /\ Range(fbmeta'[b].ids) \subseteq Ids(b) \cup Range(c.ids)
      /\ Len(fbmeta'[b].ids) >= Len(fbmeta[b].ids)
      /\ Len(c.ids) <= Room(b) => Len(fbmeta'[b].ids) = Len(fbmeta[b].ids) + Len(c.ids)
  BY <1>1, <1>2, <1>3, FilledIds
<1>5. PICK k, j \in Nat : k = Len(fbmeta[b].ids) /\ j = Len(fbmeta'[b].ids)
  <2>1. fbmeta[b].ids \in Seq(Blocks) BY <1>2 DEF TypeOK, FileBlockMeta
  <2>2. fbmeta'[b].ids \in Seq(Blocks) BY <1>2 DEF HandlesKnown, TypeOK, FileBlockMeta
  <2>3. Len(fbmeta[b].ids) \in Nat /\ Len(fbmeta'[b].ids) \in Nat BY <2>1, <2>2
  <2> QED BY <2>3
<1>6. size \in Nat /\ c.off \in Nat /\ size < c.off
  BY <1>1, <1>2 DEF TypeOK, Loc, FileMeta, ExtendAt
<1>7. size <= BlockSize * k
  <2>1. CASE c.new_fb
    <3>1. size = 0 BY <1>1, <1>2, <2>1 DEF ExtendAt
    <3>2. 0 <= BlockSize * k BY StoreAssumption
    <3> QED BY <3>1, <3>2
  <2>2. CASE ~c.new_fb
    BY <1>1, <1>2, <1>5, <2>2, FbNotNone DEF ExtendAt, Covered, CoveredTo
  <2> QED BY <2>1, <2>2
<1>8. Held(t) = {f} BY <1>1, <1>2, HandleNotNone DEF Held
<1>9. b # None /\ Claim(t) = Range(c.ids) \cup FileIds(f) \cup Ids(b)
  BY <1>1, <1>2, FbNotNone DEF Claim, ClaimAt, Released, FileIds
<1>10. Ids(b)' \subseteq Claim(t) BY <1>4, <1>9 DEF Ids
<1>11. item[f] \in {None, b}
  BY <1>1, <1>2 DEF ExtendAt, Covered, CoveredTo
<1>12. CASE /\ Len(c.ids) <= Room(b) /\ Goto(t, "extend_size") /\ UNCHANGED loc
            /\ item' = IF c.new_fb /\ item[f] = None THEN [item EXCEPT ![f] = b] ELSE item
  <2>1. Moved(t, "extend_size", c) BY <1>1, <1>2, <1>12 DEF Goto, Moved, TypeOK
  <2>2. item'[f] = b /\ \A g \in Fhs : g # f => item'[g] = item[g]
    BY <1>1, <1>2, <1>11, <1>12 DEF TypeOK, ExtendAt, Covered, CoveredTo
  <2>3. OwnOnly(t) BY <1>1, <1>3, <1>4, <1>8, <2>2 DEF OwnOnly
  <2>4. ClaimAt("extend_size", c)' \subseteq Claim(t)
    <3>1. FileIds(f)' \subseteq Ids(b)' /\ FileIds(c.new)' = {}
      BY <1>2, <1>9, <2>2 DEF FileIds, Ids
    <3> QED BY <1>1, <1>9, <1>10, <3>1 DEF ClaimAt, Released
  <2>5. CoveredTo(b, c.off)'
    <3>1. j = k + BlocksNeeded(size, c.off)
      BY <1>1, <1>2, <1>4, <1>5, <1>12 DEF ExtendAt
    <3>2. c.off <= BlockSize * (k + BlocksNeeded(size, c.off)) BY <1>6, <1>7, NeededCovers
    <3>3. c.off <= BlockSize * j BY <3>1, <3>2, Zenon
    <3> QED BY <1>5, <1>6, <1>9, <3>3 DEF CoveredTo
  <2>6. BlocksAt("extend_size", c)'
    BY <1>1, <1>2, <2>2, <2>5 DEF BlocksAt, UnsetAt, CoveredAt, ExtendAt, ShrinkAt, Copied,
                                  Attached, CoveredTo
  <2>7. Handles(c) = Held(t) BY <1>1 DEF Handles, Held
  <2>8. /\ pool' \subseteq Within(t, c) /\ ClaimAt("extend_size", c)' \subseteq Within(t, c)
        /\ ClaimAt("extend_size", c)' \cap pool' = {}
    BY <1>2, <1>3, <2>4 DEF Within
  <2>9. \A n \in Names : created_files'[n] \in Handles(c) \/
              (created_files'[n] = created_files[n] /\ created_files[n] \notin Held(t))
    BY <1>3, <2>7
  <2> QED BY <1>3, <1>4, <2>1, <2>3, <2>6, <2>7, <2>8, <2>9, BlockStep
<1>13. CASE Return(t) /\ UNCHANGED item
  <2>1. OwnOnly(t) BY <1>1, <1>3, <1>4, <1>13 DEF OwnOnly
  <2>2. FileIds(f)' \subseteq Claim(t)
    BY <1>9, <1>10, <1>11, <1>13 DEF FileIds, Ids
  <2>3. Covered(f)'
    <3>1. CASE item[f] = None BY <1>2, <1>3, <1>13, <3>1 DEF Covered, CoveredTo
    <3>2. CASE item[f] = b
      <4>1. BlockSize * k <= BlockSize * j /\ BlockSize * k \in Nat /\ BlockSize * j \in Nat
        BY <1>4, <1>5, MoreBlocks
      <4>2. size <= BlockSize * j BY <1>6, <1>7, <4>1
      <4>3. size # 0 BY <1>1, <1>2, <1>9, <3>2 DEF Covered, CoveredTo
      <4> QED BY <1>1, <1>3, <1>5, <1>9, <1>13, <3>2, <4>2, <4>3 DEF Covered, CoveredTo
    <3> QED BY <1>11, <3>1, <3>2
  <2>4. ASSUME NEW n \in Names
        PROVE  \/ Covered(created_files[n])'
               \/ created_files'[n] = created_files[n] /\ created_files[n] \notin Held(t)
    <3>1. CASE created_files[n] = f
      <4>1. created_files'[n] = f BY <1>3, <3>1
      <4> QED BY <2>3, <4>1 DEF Covered, CoveredTo
    <3> QED BY <1>3, <1>8, <3>1
  <2> QED BY <1>3, <1>4, <1>8, <1>13, <2>1, <2>2, <2>4, ReturnMoved, ReturnBlocks
<1> QED BY <1>1, <1>12, <1>13 DEF ExtendFb

\* The table with another size for f.
LEMMA ResizedMeta ==
    ASSUME TypeOK, NEW f \in Fhs, NEW k, NEW fm, fm = [fmeta EXCEPT ![f].size = k]
    PROVE  fm[f].size = k /\ \A g \in Fhs : g # f => fm[g] = fmeta[g]
BY DEF TypeOK, FileMeta

\* ExtendFile sets the size that the blocks now cover.
LEMMA ExtendSizeBlocks ==
    ASSUME FbsKnown, HandlesKnown', BlocksOwned, NEW t \in Threads, ExtendSize(t, TRUE)
    PROVE  BlocksOwned'
<1>1. PICK c, f : c = loc[t] /\ f = c.fh OBVIOUS
<1>2. /\ TypeOK /\ pc[t] = "extend_size" /\ f \in Fhs /\ c.new = None /\ c \in Loc
      /\ CoveredTo(item[f], c.off) /\ IdsOnce
  BY <1>1, OwnPlace DEF ExtendSize, At, Fit, BlocksAt, UnsetAt, ExtendAt, Shrinking, Copied,
                        Attached
<1>3. PICK fm : fm = [fmeta EXCEPT ![f].size = c.off] OBVIOUS
<1>4. /\ status' = "up" /\ UNCHANGED <<pool, created_files, fbmeta, item>>
      /\ WriteMeta(fm, f, TRUE) /\ Moved(t, "idle", NoLoc)
  BY <1>1, <1>2, <1>3, BusyIsUp, ReturnMoved DEF ExtendSize
<1>5. /\ fm \in [Fhs -> FileMeta] /\ fm[f].size = c.off
      /\ \A g \in Fhs : g # f => fm[g] = fmeta[g]
  <2>1. c.off \in Nat BY <1>2 DEF Loc
  <2> QED BY <1>2, <1>3, <2>1, SizeSetType, ResizedMeta
<1>6. fmeta'[f].size = c.off /\ \A g \in Fhs : g # f => fmeta'[g].size = fmeta[g].size
  BY <1>2, <1>4, <1>5, WrittenSizes
<1>7. Held(t) = {f} BY <1>1, <1>2, HandleNotNone DEF Held
<1>8. OwnOnly(t) /\ IdsOnce' BY <1>2, <1>4, <1>6, <1>7 DEF OwnOnly, IdsOnce
<1>9. FileIds(f)' \subseteq Claim(t)
  BY <1>1, <1>2, <1>4 DEF FileIds, Claim, ClaimAt, Released
<1>10. Covered(f)' BY <1>2, <1>4, <1>6 DEF Covered, CoveredTo
<1>11. ASSUME NEW n \in Names
      PROVE  \/ Covered(created_files[n])'
             \/ created_files'[n] = created_files[n] /\ created_files[n] \notin Held(t)
  <2>1. CASE created_files[n] = f
    <3>1. created_files'[n] = f BY <1>4, <2>1
    <3> QED BY <1>10, <3>1 DEF Covered, CoveredTo
  <2> QED BY <1>4, <1>7, <2>1
<1> QED BY <1>4, <1>7, <1>8, <1>9, <1>11, ReturnBlocks

-----------------------------------------------------------------------------
(* unlink and rename *)

\* unlink takes the file, and gives the blocks back to the pool.
LEMMA UnlinkStartBlocks ==
    ASSUME FbsKnown, HandlesKnown', BlocksOwned, NEW t \in Threads, NEW n \in Names,
           UnlinkStart(t, n)
    PROVE  BlocksOwned'
<1>1. PICK f : f = created_files[n] OBVIOUS
<1>2. /\ TypeOK /\ loc[t] = NoLoc /\ status' = "up" /\ f # None /\ Free(n)
      /\ UNCHANGED <<fbmeta, item, created_files, fmeta>>
  BY <1>1 DEF UnlinkStart, Start, FbsKnown, HandlesKnown, HandlesOwned, IdleHoldsNothing
<1>3. f \in Fhs /\ Unheld(f) /\ FileIds(f) \cap pool = {} BY <1>1, <1>2, SettledBlocks
<1>4. PICK l, r : /\ l = (IF item[f] = None THEN "unlink_meta" ELSE "unlink_fb")
                  /\ r = [NoLoc EXCEPT !.name = n, !.fh = f, !.fb = item[f]]
  OBVIOUS
<1>5. Moved(t, l, r)
  <2>1. /\ loc' = [loc EXCEPT ![t].name = n, ![t].fh = f, ![t].fb = item[f]]
        /\ pc' = [pc EXCEPT ![t] = l]
    BY <1>1, <1>4 DEF UnlinkStart, Goto
  <2> QED BY <1>2, <1>4, <2>1 DEF Moved, TypeOK, Loc
<1>6. r.fh = f /\ r.new = None /\ r.fb = item[f] /\ r.ids = <<>> BY <1>4 DEF NoLoc
<1>7. pool' \subseteq pool \cup FileIds(f)
  BY <1>1, <1>2 DEF UnlinkStart, FileIds
<1>8. Held(t) = {} /\ f \in Handles(r) BY <1>2, <1>6 DEF Held, Handles, NoLoc
<1>9. OwnOnly(t) /\ IdsOnce' BY <1>2 DEF OwnOnly, BlocksOwned, IdsOnce
<1>10. ClaimAt(l, r)' = {}
  <2>1. FileIds(r.new)' = {} BY <1>6 DEF FileIds
  <2>2. item[f] = None => FileIds(r.fh)' = {} /\ Ids(r.fb)' = {} BY <1>2, <1>6 DEF FileIds, Ids
  <2>3. item[f] # None => l \in Released BY <1>4 DEF Released
  <2> QED BY <1>6, <2>1, <2>2, <2>3, EmptyList DEF ClaimAt, Range
<1>11. pool' \subseteq Within(t, r) BY <1>7, <1>8 DEF Within
<1>12. BlocksAt(l, r)'
  BY <1>4, <1>6 DEF BlocksAt, UnsetAt, CoveredAt, ExtendAt, ShrinkAt, Copied, Attached
<1> QED BY <1>2, <1>5, <1>8, <1>9, <1>10, <1>11, <1>12, BlockStep

\* What is left of the FileBlocks when b was cleared.
LEMMA ClearedIds ==
    ASSUME TypeOK, IdsOnce, NEW b \in Fbs, fbmeta' = [fbmeta EXCEPT ![b] = FreshFb]
    PROVE  IdsOnce' /\ \A c \in Fbs : c # b => fbmeta'[c] = fbmeta[c]
<1>1. fbmeta'[b] = FreshFb /\ \A c \in Fbs : c # b => fbmeta'[c] = fbmeta[c] BY DEF TypeOK
<1>2. FreshFb.ids = <<>> BY DEF FreshFb
<1>3. IsInjective(<<>>) /\ Len(<<>>) <= Capacity BY StoreAssumption, EmptyList DEF IsInjective
<1> QED BY <1>1, <1>2, <1>3 DEF IdsOnce

\* unlink clears the FileBlock whose blocks it gave back.
LEMMA UnlinkFbBlocks ==
    ASSUME FbsKnown, HandlesKnown', BlocksOwned, NEW t \in Threads, UnlinkFb(t, TRUE)
    PROVE  BlocksOwned'
<1>1. PICK c, r : c = loc[t] /\ r = [c EXCEPT !.fb = None] OBVIOUS
<1>2. /\ TypeOK /\ pc[t] = "unlink_fb" /\ c.fh \in Fhs /\ c.fb \in Fbs /\ c.new = None
      /\ c.ids = <<>> /\ c \in Loc /\ IdsOnce
  BY <1>1, OwnPlace DEF UnlinkFb, At, Fit, BlocksAt, UnsetAt, Shrinking, Copied, Attached
<1>3. /\ status' = "up" /\ UNCHANGED <<pool, created_files, fmeta>>
      /\ fbmeta' = [fbmeta EXCEPT ![c.fb] = FreshFb] /\ item' = [item EXCEPT ![c.fh] = None]
  BY <1>1, <1>2, BusyIsUp DEF UnlinkFb, WriteFbMeta
<1>4. Moved(t, "unlink_meta", r) BY <1>1, <1>2 DEF UnlinkFb, Goto, Moved, TypeOK
<1>5. r.fh = c.fh /\ r.new = None /\ r.fb = None /\ r.ids = <<>> BY <1>1, <1>2 DEF Loc
<1>6. item'[c.fh] = None /\ \A g \in Fhs : g # c.fh => item'[g] = item[g]
  BY <1>2, <1>3 DEF TypeOK
<1>7. IdsOnce' /\ \A b \in Fbs : b # c.fb => fbmeta'[b] = fbmeta[b] BY <1>2, <1>3, ClearedIds
<1>8. Handles(r) = Held(t) /\ c.fh \in Held(t)
  BY <1>1, <1>2, <1>5, HandleNotNone DEF Handles, Held
<1>9. OwnOnly(t) BY <1>1, <1>3, <1>6, <1>7, <1>8 DEF OwnOnly
<1>10. ClaimAt("unlink_meta", r)' = {}
  BY <1>5, <1>6, EmptyList DEF ClaimAt, FileIds, Ids, Range
<1>11. BlocksAt("unlink_meta", r)'
  BY <1>5 DEF BlocksAt, UnsetAt, CoveredAt, ExtendAt, ShrinkAt, Copied, Attached
<1>12. pool' \subseteq Within(t, r) BY <1>3 DEF Within
<1>13. \A n \in Names : created_files'[n] \in Handles(r) \/
            (created_files'[n] = created_files[n] /\ created_files[n] \notin Held(t))
  BY <1>3, <1>8
<1> QED BY <1>3, <1>4, <1>7, <1>8, <1>9, <1>10, <1>11, <1>12, <1>13, BlockStep

\* The sizes when the meta of f was cleared.
LEMMA ClearedSizes ==
    ASSUME TypeOK, NEW f \in Fhs, WriteMeta([fmeta EXCEPT ![f] = ClearMeta(@)], f, TRUE)
    PROVE  \A g \in Fhs : g # f => fmeta'[g].size = fmeta[g].size
<1>1. PICK fm : fm = [fmeta EXCEPT ![f] = ClearMeta(@)] OBVIOUS
<1>2. fm \in [Fhs -> FileMeta] BY <1>1, ClearMetaType
<1>3. \A g \in Fhs : g # f => fm[g] = fmeta[g] BY <1>1 DEF TypeOK
<1> QED BY <1>1, <1>2, <1>3, WrittenSizes

\* unlink clears the meta ...
LEMMA UnlinkMetaBlocks ==
    ASSUME FbsKnown, HandlesKnown', BlocksOwned, NEW t \in Threads, UnlinkMeta(t, TRUE)
    PROVE  BlocksOwned'
<1>1. PICK r : r = loc[t] OBVIOUS
<1>2. /\ TypeOK /\ pc[t] = "unlink_meta" /\ r.fh \in Fhs /\ UnsetAt("unlink_meta", r)
  BY <1>1, OwnPlace DEF UnlinkMeta, At, Fit, BlocksAt
<1>3. /\ status' = "up" /\ UNCHANGED <<pool, fbmeta, item, created_files>>
      /\ WriteMeta([fmeta EXCEPT ![r.fh] = ClearMeta(@)], r.fh, TRUE)
  BY <1>1, <1>2, BusyIsUp DEF UnlinkMeta
<1>4. Moved(t, "unlink_names", r) BY <1>1, <1>2 DEF UnlinkMeta, Goto, Moved, TypeOK
<1>5. r.fh \in Held(t) BY <1>1, <1>2, HandleNotNone DEF Held
<1>6. \A f \in Fhs : f \notin Held(t) => fmeta'[f].size = fmeta[f].size
  BY <1>2, <1>3, <1>5, ClearedSizes
<1>7. BlocksAt("unlink_names", r)'
  BY <1>2 DEF BlocksAt, UnsetAt, CoveredAt, ExtendAt, ShrinkAt, Copied, Attached, Shrinking
<1>8. pc[t] \notin Released BY <1>2 DEF Released
<1> QED BY <1>1, <1>3, <1>4, <1>6, <1>7, <1>8, KeepBlocks

\* ... and takes the name away.
LEMMA UnlinkNamesBlocks ==
    ASSUME FbsKnown, HandlesKnown', BlocksOwned, NEW t \in Threads, UnlinkNames(t)
    PROVE  BlocksOwned'
<1>1. PICK c : c = loc[t] OBVIOUS
<1>2. /\ TypeOK /\ pc[t] = "unlink_names" /\ c.fh \in Fhs /\ c.name \in Names
      /\ c.new = None /\ IdsOnce
  BY <1>1, OwnPlace DEF UnlinkNames, At, Fit, BlocksAt, UnsetAt, Shrinking, Copied, Attached
<1>3. /\ status' = "up" /\ UNCHANGED <<pool, fbmeta, item, fmeta>>
      /\ created_files' = [created_files EXCEPT ![c.name] = None]
      /\ Moved(t, "idle", NoLoc)
  BY <1>1, <1>2, BusyIsUp, ReturnMoved DEF UnlinkNames
<1>4. OwnOnly(t) /\ IdsOnce' BY <1>2, <1>3 DEF OwnOnly, IdsOnce, TypeOK
<1>5. Held(t) = {c.fh} BY <1>1, <1>2, HandleNotNone DEF Held
<1>6. FileIds(c.fh)' \subseteq Claim(t)
  BY <1>1, <1>2, <1>3 DEF FileIds, Claim, ClaimAt, Released
<1>7. ASSUME NEW n \in Names
      PROVE  \/ created_files'[n] = None
             \/ created_files'[n] = created_files[n] /\ created_files[n] \notin Held(t)
  BY <1>1, <1>2, <1>3, OtherNames DEF TypeOK, FbsKnown
<1> QED BY <1>3, <1>4, <1>5, <1>6, <1>7, ReturnBlocks

\* rename changes the name of a file and nothing else.
LEMMA RenameBlocks ==
    ASSUME FbsKnown, HandlesKnown', BlocksOwned, NEW t \in Threads, NEW n \in Names,
           NEW m \in Names, RenameFile(t, n, m, TRUE)
    PROVE  BlocksOwned'
<1>1. PICK f, fm : f = created_files[n] /\ fm = [fmeta EXCEPT ![f].name = m] OBVIOUS
<1>2. /\ TypeOK /\ pc[t] = "idle" /\ loc[t] = NoLoc /\ status' = "up" /\ f # None /\ Free(n)
      /\ n # m /\ UNCHANGED <<fbmeta, item, pool, pc, loc>> /\ WriteMeta(fm, f, TRUE)
      /\ created_files' = [created_files EXCEPT ![n] = None, ![m] = f]
  BY <1>1 DEF RenameFile, Start, FbsKnown, HandlesKnown, HandlesOwned, IdleHoldsNothing
<1>3. f \in Fhs /\ Covered(f) /\ Unheld(f) BY <1>1, <1>2, SettledBlocks
<1>4. fm \in [Fhs -> FileMeta] /\ \A g \in Fhs : fm[g].size = fmeta[g].size
  <2>1. fm \in [Fhs -> FileMeta]
    <3>1. fmeta \in [Fhs -> FileMeta] /\ f \in Fhs BY <1>2, <1>3 DEF TypeOK
    <3>2. [fmeta EXCEPT ![f].name = m] \in [Fhs -> FileMeta] BY <3>1 DEF FileMeta
    <3> QED BY <1>1, <3>2
  <2>2. fm[f].size = fmeta[f].size BY <1>1, <1>2, <1>3 DEF TypeOK, FileMeta
  <2>3. \A g \in Fhs : g # f => fm[g] = fmeta[g] BY <1>1, <1>2 DEF TypeOK
  <2> QED BY <2>1, <2>2, <2>3
<1>5. \A g \in Fhs : fmeta'[g].size = fmeta[g].size BY <1>2, <1>3, <1>4, WrittenSizes
<1>6. Moved(t, "idle", NoLoc) BY <1>2 DEF Moved, TypeOK
<1>7. OwnOnly(t) /\ IdsOnce'
  <2>1. \A k \in Names : created_files'[k] \in {created_files[k], None, f} BY <1>2 DEF TypeOK
  <2> QED BY <1>2, <1>3, <1>5, <2>1 DEF OwnOnly, BlocksOwned, IdsOnce
<1>8. Held(t) = {} BY <1>2 DEF Held, NoLoc
<1>9. Covered(f)' BY <1>2, <1>3, <1>5 DEF Covered, CoveredTo
<1>10. ASSUME NEW k \in Names
       PROVE  \/ created_files'[k] = None
              \/ Covered(created_files[k])'
              \/ created_files'[k] = created_files[k]
  <2>1. CASE k = m
    <3>1. created_files'[k] = f BY <1>2, <2>1 DEF TypeOK
    <3> QED BY <1>9, <3>1 DEF Covered, CoveredTo
  <2>2. CASE k # m BY <1>2, <2>2 DEF TypeOK
  <2> QED BY <2>1, <2>2
<1> QED BY <1>2, <1>6, <1>7, <1>8, <1>10, ReturnBlocks

-----------------------------------------------------------------------------
(* ShrinkFile *)

\* ShrinkFile takes the file and a free meta.
LEMMA ShrinkStartBlocks ==
    ASSUME FbsKnown, HandlesKnown', BlocksOwned, NEW t \in Threads, NEW n \in Names,
           NEW off \in Offsets, ShrinkStart(t, n, off)
    PROVE  BlocksOwned'
<1>1. PICK f, g, r : /\ f = created_files[n] /\ g = Head(free_fhs)
                     /\ r = [NoLoc EXCEPT !.name = n, !.fh = f, !.new = g, !.off = off]
  OBVIOUS
<1>2. /\ TypeOK /\ loc[t] = NoLoc /\ status' = "up" /\ f # None /\ Free(n) /\ free_fhs # <<>>
      /\ UNCHANGED <<fbmeta, item, pool, created_files>> /\ off < fmeta[f].size
      /\ fmeta' = [fmeta EXCEPT ![g] = ClaimedMeta(@, n)]
  BY <1>1 DEF ShrinkStart, Start, FbsKnown, HandlesKnown, HandlesOwned, IdleHoldsNothing
<1>3. f \in Fhs /\ Unheld(f) /\ Covered(f) /\ FileIds(f) \cap pool = {}
  BY <1>1, <1>2, SettledBlocks
<1>4. /\ g \in Fhs /\ g # None /\ item[g] = None
      /\ \A m \in Names : created_files[m] # g
  BY <1>1, <1>2, HeadFree DEF FbsKnown, HandlesKnown
<1>5. Moved(t, "shrink_fb", r)
  <2>1. /\ loc' = [loc EXCEPT ![t].name = n, ![t].fh = f, ![t].new = g, ![t].off = off]
        /\ pc' = [pc EXCEPT ![t] = "shrink_fb"]
    BY <1>1 DEF ShrinkStart, Goto
  <2> QED BY <1>1, <1>2, <2>1 DEF Moved, TypeOK, Loc
<1>6. r.fh = f /\ r.new = g /\ r.fb = None /\ r.ids = <<>> /\ r.off = off BY <1>1 DEF NoLoc
<1>7. Held(t) = {} /\ f \in Handles(r) BY <1>2, <1>6 DEF Held, Handles, NoLoc
<1>8. \A h \in Fhs : fmeta'[h].size = fmeta[h].size
  BY <1>2, <1>4 DEF TypeOK, ClaimedMeta, FileMeta
<1>9. OwnOnly(t) /\ IdsOnce' BY <1>2, <1>8 DEF OwnOnly, BlocksOwned, IdsOnce
<1>10. ClaimAt("shrink_fb", r)' \subseteq FileIds(f)
  <2>1. FileIds(r.new)' = {} /\ FileIds(r.fh)' = FileIds(f) /\ Ids(r.fb)' = {}
    BY <1>2, <1>4, <1>6 DEF FileIds, Ids
  <2> QED BY <1>6, <2>1, EmptyList DEF ClaimAt, Range
<1>11. pool' \subseteq Within(t, r) /\ FileIds(f) \subseteq Within(t, r)
  BY <1>2, <1>7 DEF Within
<1>12. Covered(f)' BY <1>2, <1>3, <1>8 DEF Covered, CoveredTo
<1>13. BlocksAt("shrink_fb", r)'
  BY <1>2, <1>3, <1>4, <1>6, <1>8, <1>12
     DEF BlocksAt, UnsetAt, CoveredAt, ExtendAt, ShrinkAt, Copied, Attached, Shrinking
<1> QED BY <1>2, <1>3, <1>5, <1>7, <1>9, <1>10, <1>11, <1>13, BlockStep

\* The file that ShrinkFile cuts has a FileBlock, with more blocks than it will keep.
LEMMA CutFile ==
    ASSUME TypeOK, IdsOnce, NEW f \in Fhs, NEW off \in Nat, Covered(f), off < fmeta[f].size
    PROVE  /\ item[f] \in Fbs /\ item[f] # None
           /\ KeptBlocks(off) \in Nat /\ KeptBlocks(off) < Capacity
           /\ KeptBlocks(off) < Len(fbmeta[item[f]].ids)
<1>1. PICK size \in Nat : size = fmeta[f].size BY DEF TypeOK, FileMeta
<1>2. size # 0 BY <1>1
<1>3. item[f] # None /\ size <= BlockSize * Len(fbmeta[item[f]].ids)
  BY <1>1, <1>2 DEF Covered, CoveredTo
<1>4. item[f] \in Fbs BY <1>3 DEF TypeOK
<1>5. fbmeta[item[f]].ids \in Seq(Blocks) BY <1>4 DEF TypeOK, FileBlockMeta
<1>6. PICK k \in Nat : k = Len(fbmeta[item[f]].ids) BY <1>5
<1>7. BlockSize * k \in Nat BY StoreAssumption
<1>8. off < BlockSize * k BY <1>1, <1>3, <1>6, <1>7
<1>9. KeptBlocks(off) \in Nat /\ KeptBlocks(off) < k BY <1>8, KeptFewer
<1>10. k <= Capacity BY <1>4, <1>6 DEF IdsOnce
<1>11. KeptBlocks(off) < Capacity BY <1>9, <1>10, StoreAssumption
<1> QED BY <1>3, <1>4, <1>6, <1>9, <1>11

\* Where no FileBlock is made, the new size is 0; where a FileBlock is made and no block
\* is cut, the kept blocks hold the new size.
LEMMA CutSize ==
    ASSUME NEW off \in Nat, KeptBlocks(off) \in Nat, KeptBlocks(off) < Capacity
    PROVE  /\ ~ShrinkNeedsFb(off) => off = 0
           /\ ShrinkNeedsFb(off) => off # 0
           /\ ~(off % BlockSize > 0) => off <= BlockSize * KeptBlocks(off)
<1>1. PICK q, m \in Nat : /\ q = KeptBlocks(off) /\ m = off % BlockSize
                          /\ m < BlockSize /\ off = BlockSize * q + m
  BY BlockDiv, Zenon DEF KeptBlocks
<1>2. BlockSize \in Nat /\ BlockSize > 0 /\ Capacity \in Nat /\ Capacity > 0 BY StoreAssumption
<1>3. q % Capacity = q
  <2>1. q \in Nat /\ q < Capacity BY <1>1
  <2> QED BY <1>2, <2>1
<1>4. ShrinkNeedsFb(off) <=> q > 0 \/ m > 0
  <2>1. ShrinkNeedsFb(off) <=> q % Capacity > 0 \/ m > 0 BY <1>1, Zenon DEF ShrinkNeedsFb
  <2> QED BY <1>3, <2>1
<1>5. BlockSize * q \in Nat BY <1>2
<1>6. ~(q > 0) => BlockSize * q = 0
  <2>1. ~(q > 0) => q = 0 OBVIOUS
  <2>2. BlockSize * 0 = 0 BY <1>2
  <2> QED BY <2>1, <2>2
<1>7. q > 0 => BlockSize * q > 0
  <2>1. q >= 1 => BlockSize * q >= BlockSize BY <1>2
  <2> QED BY <1>2, <1>5, <2>1
<1>8. ~ShrinkNeedsFb(off) => off = 0 BY <1>1, <1>4, <1>5, <1>6
<1>9. ShrinkNeedsFb(off) => off # 0 BY <1>1, <1>4, <1>5, <1>7
<1>10. ~(m > 0) => off <= BlockSize * q BY <1>1, <1>5
<1> QED BY <1>1, <1>8, <1>9, <1>10, Zenon

\* The FileBlock that ShrinkFile fills has the first ids of the old one, and none of
\* the others.
LEMMA FirstIdsPrefix ==
    ASSUME TypeOK, IdsOnce, NEW b \in Fbs, NEW k \in Nat, k < Len(fbmeta[b].ids)
    PROVE  /\ FirstIds(b, k) \in Seq(Blocks) /\ Len(FirstIds(b, k)) = k
           /\ IsInjective(FirstIds(b, k)) /\ Range(FirstIds(b, k)) \subseteq Range(fbmeta[b].ids)
           /\ Range(FirstIds(b, k)) \cap Uninherited(b, k) = {}
<1>1. PICK s, p : s = fbmeta[b].ids /\ p = FirstIds(b, k) OBVIOUS
<1>2. s \in Seq(Blocks) /\ IsInjective(s) BY <1>1 DEF TypeOK, FileBlockMeta, IdsOnce
<1>3. Len(s) \in Nat /\ DOMAIN s = 1 .. Len(s) /\ k < Len(s)
      /\ \A i \in 1 .. Len(s) : s[i] \in Blocks
  BY <1>1, <1>2
<1>4. p = [i \in 1 .. k |-> s[i]]
  <2>1. \A i \in 1 .. k : i <= Len(s) BY <1>3
  <2> QED BY <1>1, <2>1 DEF FirstIds
<1>5. \A i \in 1 .. k : s[i] \in Blocks BY <1>3
<1>6. p \in Seq(Blocks) /\ Len(p) = k /\ \A i \in 1 .. k : p[i] = s[i] BY <1>4, <1>5
<1>7. IsInjective(p) /\ Range(p) = {s[i] : i \in 1 .. k} /\ Range(p) \subseteq Range(s)
  BY <1>2, <1>3, <1>6, InjectivePrefix
<1>8. ASSUME NEW x \in Range(p), x \in Uninherited(b, k) PROVE FALSE
  <2>1. PICK i \in 1 .. k : x = s[i] BY <1>7
  <2>2. PICK j \in DOMAIN s : j > k /\ x = s[j] BY <1>1, <1>8 DEF Uninherited
  <2>3. i \in DOMAIN s /\ i # j BY <1>3, <2>2
  <2> QED BY <1>2, <2>1, <2>2, <2>3 DEF IsInjective
<1> QED BY <1>1, <1>6, <1>7, <1>8

\* A thread that gives a shrink up before the new file has the name.
LEMMA GiveUpShrink ==
    ASSUME FbsKnown, HandlesKnown', BlocksOwned, NEW t \in Threads,
           pc[t] \in {"shrink_fb", "shrink_copy"}, Moved(t, "idle", NoLoc),
           UNCHANGED <<status, pool, fbmeta, item, created_files>>,
           \A f \in Fhs : f # loc[t].new => fmeta'[f].size = fmeta[f].size
    PROVE  BlocksOwned'
<1>1. PICK c, f, g : c = loc[t] /\ f = c.fh /\ g = c.new OBVIOUS
<1>2. /\ TypeOK /\ f \in Fhs /\ g \in Fhs /\ Covered(f) /\ item[g] = None /\ IdsOnce
      /\ \A n \in Names : created_files[n] # g
  BY <1>1, OwnPlace DEF Fit, BlocksAt, CoveredAt, ShrinkAt, Copied
<1>3. status' = "up" BY BusyIsUp
<1>4. f # g BY <1>1, <1>2, HandleNotNone DEF FbsKnown, HandlesKnown, HandlesOwned, NewIsNew
<1>5. Held(t) = {f, g} BY <1>1, <1>2, HandleNotNone DEF Held
<1>6. OwnOnly(t) /\ IdsOnce' BY <1>1, <1>2, <1>5 DEF OwnOnly, IdsOnce
<1>7. FileIds(f)' \subseteq Claim(t) /\ FileIds(g)' = {}
  BY <1>1, <1>2 DEF FileIds, Claim, ClaimAt, Released
<1>8. Covered(f)' BY <1>1, <1>2, <1>4 DEF Covered, CoveredTo
<1>9. ASSUME NEW n \in Names
      PROVE  \/ Covered(created_files[n])'
             \/ created_files'[n] = created_files[n] /\ created_files[n] \notin Held(t)
  <2>1. CASE created_files[n] = f
    <3>1. created_files'[n] = f BY <2>1
    <3> QED BY <1>8, <3>1 DEF Covered, CoveredTo
  <2> QED BY <1>2, <1>5, <2>1
<1> QED BY <1>3, <1>5, <1>6, <1>7, <1>9, ReturnBlocks

\* ShrinkFile makes a FileBlock with the ids that stay, or needs none, or finds none.
LEMMA ShrinkFbBlocks ==
    ASSUME FbsKnown, HandlesKnown', BlocksOwned, NEW t \in Threads, ShrinkFb(t)
    PROVE  BlocksOwned'
<1>1. PICK c, f, g, old, kept : /\ c = loc[t] /\ f = c.fh /\ g = c.new /\ old = item[f]
                                /\ kept = KeptBlocks(c.off)
  OBVIOUS
<1>2. /\ TypeOK /\ pc[t] = "shrink_fb" /\ f \in Fhs /\ g \in Fhs /\ c \in Loc /\ IdsOnce
      /\ Covered(f) /\ c.off < fmeta[f].size /\ item[g] = None /\ c.ids = <<>> /\ c.fb = None
      /\ Claim(t) \cap pool = {} /\ \A n \in Names : created_files[n] # g
  BY <1>1, OwnPlace DEF ShrinkFb, At, Fit, BlocksAt, UnsetAt, CoveredAt, ShrinkAt, Copied, FbAt
<1>3. /\ status' = "up" /\ UNCHANGED <<pool, item, created_files>>
      /\ fmeta' = [fmeta EXCEPT ![g].size = kept * BlockSize]
  BY <1>1, <1>2, BusyIsUp DEF ShrinkFb
<1>4. c.off \in Nat BY <1>2 DEF Loc
<1>5. old \in Fbs /\ old # None /\ kept \in Nat /\ kept < Capacity /\ kept < Len(fbmeta[old].ids)
  BY <1>1, <1>2, <1>4, CutFile
<1>6. /\ ~ShrinkNeedsFb(c.off) => c.off = 0
      /\ ShrinkNeedsFb(c.off) => c.off # 0
      /\ ~(c.off % BlockSize > 0) => c.off <= BlockSize * kept
  BY <1>1, <1>4, <1>5, CutSize
<1>7. \A h \in Fhs : h # g => fmeta'[h].size = fmeta[h].size
  <2>1. PICK fm : fm = fmeta' OBVIOUS
  <2>2. \A h \in Fhs : h # g => fm[h] = fmeta[h] BY <1>2, <1>3, <2>1, ResizedMeta
  <2> QED BY <2>1, <2>2
<1>8. f # g /\ Held(t) = {f, g}
  BY <1>1, <1>2, HandleNotNone DEF FbsKnown, HandlesKnown, HandlesOwned, NewIsNew, Held
<1>9. Covered(f)' <=> CoveredTo(old, fmeta[f].size)'
  BY <1>1, <1>2, <1>3, <1>7, <1>8 DEF Covered, CoveredTo
<1>10. CASE /\ ~ShrinkNeedsFb(c.off) /\ Goto(t, "shrink_detach") /\ UNCHANGED <<fbmeta, loc>>
  <2>1. Moved(t, "shrink_detach", c) BY <1>1, <1>2, <1>10 DEF Goto, Moved, TypeOK
  <2>2. CoveredTo(c.fb, c.off)' BY <1>2, <1>6, <1>10 DEF CoveredTo
  <2>3. Ids(c.fb)' = {} BY <1>2 DEF Ids
  <2>4. BlocksAt("shrink_detach", c)'
    BY <1>1, <1>2, <1>3, <2>2, <2>3 DEF BlocksAt, UnsetAt, CoveredAt, ExtendAt, ShrinkAt,
                                        Copied, Attached, Shrinking
  <2>5. pc[t] \notin Released BY <1>2 DEF Released
  <2> QED BY <1>1, <1>3, <1>7, <1>8, <1>10, <2>1, <2>4, <2>5, KeepBlocks
<1>11. CASE Return(t) /\ UNCHANGED fbmeta
  BY <1>1, <1>2, <1>3, <1>7, <1>11, BusyIsUp, ReturnMoved, GiveUpShrink
<1>12. CASE /\ ShrinkNeedsFb(c.off) /\ free_fbhs # <<>>
            /\ fbmeta' = [fbmeta EXCEPT ![Head(free_fbhs)] =
                            [used |-> TRUE, fh |-> g, ids |-> FirstIds(old, kept)]]
            /\ loc' = [loc EXCEPT ![t].fb = Head(free_fbhs)]
            /\ Goto(t, IF c.off % BlockSize > 0 THEN "shrink_copy" ELSE "shrink_detach")
  <2>1. PICK b, l, r : /\ b = Head(free_fbhs)
                       /\ l = (IF c.off % BlockSize > 0 THEN "shrink_copy" ELSE "shrink_detach")
                       /\ r = [c EXCEPT !.fb = b]
    OBVIOUS
  <2>2. /\ b \in Fbs /\ b # None /\ b \in Range(free_fbhs) /\ \A h \in Fhs : item[h] # b
    BY <1>2, <1>12, <2>1, HeadFbFree DEF FbsKnown, FbsOwned
  <2>3. Moved(t, l, r) BY <1>1, <1>2, <1>12, <2>1 DEF Goto, Moved, TypeOK
  <2>4. r.fh = f /\ r.new = g /\ r.fb = b /\ r.ids = <<>> /\ r.off = c.off
    BY <1>1, <1>2, <2>1 DEF Loc
  <2>5. /\ fbmeta'[b].ids = FirstIds(old, kept)
        /\ \A d \in Fbs : d # b => fbmeta'[d] = fbmeta[d]
    BY <1>2, <1>12, <2>1, <2>2 DEF TypeOK
  <2>6. b # old /\ fbmeta'[old] = fbmeta[old] BY <1>1, <1>2, <1>5, <2>2, <2>5
  <2>7. /\ Len(FirstIds(old, kept)) = kept /\ IsInjective(FirstIds(old, kept))
        /\ Range(FirstIds(old, kept)) \subseteq Range(fbmeta[old].ids)
        /\ Range(FirstIds(old, kept)) \cap Uninherited(old, kept) = {}
    BY <1>2, <1>5, FirstIdsPrefix
  <2>8. IdsOnce'
    <3>1. \A d \in Fbs : d # b => IsInjective(fbmeta'[d].ids) /\ Len(fbmeta'[d].ids) <= Capacity
      BY <1>2, <2>5 DEF IdsOnce
    <3>2. IsInjective(fbmeta'[b].ids) /\ Len(fbmeta'[b].ids) <= Capacity
      BY <1>5, <2>5, <2>7, StoreAssumption
    <3> QED BY <3>1, <3>2 DEF IdsOnce
  <2>9. OwnOnly(t) BY <1>3, <1>7, <1>8, <2>2, <2>5 DEF OwnOnly
  <2>10. Handles(r) = Held(t) BY <1>1, <2>4 DEF Handles, Held
  <2>11. FileIds(f)' = Range(fbmeta[old].ids) /\ FileIds(f) = Range(fbmeta[old].ids)
    BY <1>1, <1>2, <1>3, <1>5, <2>6, HandleNotNone DEF FileIds
  <2>12. FileIds(g)' = {} BY <1>2, <1>3 DEF FileIds
  <2>13. Ids(b)' = Range(FirstIds(old, kept)) BY <2>2, <2>5 DEF Ids
  <2>14. ClaimAt(l, r)' \subseteq FileIds(f)
    BY <2>4, <2>7, <2>11, <2>12, <2>13, EmptyList DEF ClaimAt, Range
  <2>15. FileIds(f) \subseteq Claim(t) BY <1>1, <1>2 DEF Claim, ClaimAt, Released
  <2>16. /\ pool' \subseteq Within(t, r) /\ ClaimAt(l, r)' \subseteq Within(t, r)
         /\ ClaimAt(l, r)' \cap pool' = {}
    BY <1>2, <1>3, <2>14, <2>15 DEF Within
  <2>17. (Ids(b) \cap Uninherited(item[f], kept) = {})'
    <3>1. Uninherited(item[f], kept)' = Uninherited(old, kept)
      BY <1>1, <1>3, <2>6 DEF Uninherited
    <3> QED BY <2>7, <2>13, <3>1
  <2>18. Covered(f)'
    <3>1. CoveredTo(old, fmeta[f].size) BY <1>1, <1>2 DEF Covered
    <3>2. fmeta'[f].size = fmeta[f].size BY <1>2, <1>7, <1>8
    <3> QED BY <1>9, <2>6, <3>1, <3>2 DEF CoveredTo
  <2>19. CASE c.off % BlockSize > 0
    <3>1. l = "shrink_copy" BY <2>1, <2>19
    <3>2. ShrinkAt(l, r)'
      <4>1. Len(fbmeta'[b].ids) = kept BY <2>5, <2>7
      <4> QED BY <1>1, <1>2, <1>3, <1>5, <1>6, <1>12, <2>4, <2>17, <3>1, <4>1
                 DEF ShrinkAt, Copied, Attached
    <3>3. UnsetAt(l, r)' /\ CoveredAt(l, r)' /\ ExtendAt(l, r)'
      BY <2>4, <2>18, <3>1 DEF UnsetAt, CoveredAt, ExtendAt, Copied, Attached, Shrinking
    <3>4. BlocksAt(l, r)' BY <3>2, <3>3 DEF BlocksAt
    <3> QED BY <1>3, <2>3, <2>8, <2>9, <2>10, <2>16, <3>4, BlockStep
  <2>20. CASE ~(c.off % BlockSize > 0)
    <3>1. l = "shrink_detach" BY <2>1, <2>20
    <3>2. CoveredTo(b, c.off)' BY <1>6, <1>12, <2>2, <2>5, <2>7, <2>20 DEF CoveredTo
    <3>3. ShrinkAt(l, r)'
      BY <1>1, <1>2, <1>3, <2>4, <2>17, <3>1, <3>2 DEF ShrinkAt, Copied, Attached
    <3>4. UnsetAt(l, r)' /\ CoveredAt(l, r)' /\ ExtendAt(l, r)'
      BY <2>4, <3>1 DEF UnsetAt, CoveredAt, ExtendAt, Copied, Attached, Shrinking
    <3>5. BlocksAt(l, r)' BY <3>3, <3>4 DEF BlocksAt
    <3> QED BY <1>3, <2>3, <2>8, <2>9, <2>10, <2>16, <3>5, BlockStep
  <2> QED BY <2>19, <2>20
<1> QED BY <1>1, <1>10, <1>11, <1>12 DEF ShrinkFb

\* ShrinkFile adds a block of the pool for the one that is cut, or gives up.
LEMMA ShrinkCopyBlocks ==
    ASSUME FbsKnown, HandlesKnown', BlocksOwned, NEW t \in Threads, ShrinkCopy(t, TRUE)
    PROVE  BlocksOwned'
<1>1. PICK c, f, g, b, kept : /\ c = loc[t] /\ f = c.fh /\ g = c.new /\ b = c.fb
                              /\ kept = KeptBlocks(c.off)
  OBVIOUS
<1>2. /\ TypeOK /\ pc[t] = "shrink_copy" /\ f \in Fhs /\ g \in Fhs /\ b \in Fbs /\ c \in Loc
      /\ IdsOnce /\ ShrinkAt("shrink_copy", c) /\ c.ids = <<>> /\ Unattached(b)
      /\ Claim(t) \cap pool = {}
  BY <1>1, OwnPlace DEF ShrinkCopy, At, Fit, BlocksAt, UnsetAt, FbAt
<1>3. /\ Len(fbmeta[b].ids) = kept /\ kept < Capacity /\ c.off # 0 /\ item[g] = None
      /\ item[f] # None => Ids(b) \cap Uninherited(item[f], kept) = {}
  BY <1>1, <1>2 DEF ShrinkAt, Copied
<1>4. status' = "up" /\ UNCHANGED <<status, item, created_files, fmeta>>
  BY <1>2, BusyIsUp DEF ShrinkCopy
<1>5. c.off \in Nat /\ b # None /\ kept \in Nat BY <1>1, <1>2, FbNotNone, DivNat DEF Loc, KeptBlocks
<1>6. CASE Return(t) /\ UNCHANGED <<pool, fbmeta>>
  BY <1>2, <1>4, <1>6, ReturnMoved, GiveUpShrink
<1>7. ASSUME NEW id \in pool, pool' = pool \ {id},
             fbmeta' = [fbmeta EXCEPT ![b].ids = IF Full(b) THEN @ ELSE Append(@, id)],
             Goto(t, "shrink_detach"), UNCHANGED loc
      PROVE  BlocksOwned'
  <2>1. PICK s : s = fbmeta[b].ids OBVIOUS
  <2>2. s \in Seq(Blocks) /\ IsInjective(s) /\ Len(s) = kept /\ id \in Blocks
    BY <1>2, <1>3, <1>7, <2>1 DEF TypeOK, FileBlockMeta, IdsOnce
  <2>3. ~Full(b)
    <3>1. kept # Capacity BY <1>3, <1>5, StoreAssumption
    <3> QED BY <1>3, <3>1 DEF Full
  <2>4. /\ fbmeta'[b].ids = Append(s, id)
        /\ \A d \in Fbs : d # b => fbmeta'[d] = fbmeta[d]
    BY <1>2, <1>7, <2>1, <2>3 DEF TypeOK, FileBlockMeta
  <2>5. Ids(b) = Range(s) /\ Range(s) \subseteq Claim(t) /\ FileIds(f) \subseteq Claim(t)
    BY <1>1, <1>2, <1>5, <2>1 DEF Ids, Claim, ClaimAt, Released
  <2>6. id \notin Range(s) /\ id \notin FileIds(f) BY <1>2, <1>7, <2>5
  <2>7. IsInjective(Append(s, id)) /\ Range(Append(s, id)) = Range(s) \cup {id}
    BY <2>2, <2>6, InjectiveAppend
  <2>8. Len(Append(s, id)) = kept + 1 BY <2>2
  <2>9. IdsOnce'
    <3>1. \A d \in Fbs : d # b => IsInjective(fbmeta'[d].ids) /\ Len(fbmeta'[d].ids) <= Capacity
      BY <1>2, <2>4 DEF IdsOnce
    <3>2. kept + 1 <= Capacity BY <1>3, <1>5, StoreAssumption
    <3>3. IsInjective(fbmeta'[b].ids) /\ Len(fbmeta'[b].ids) <= Capacity
      BY <2>4, <2>7, <2>8, <3>2
    <3> QED BY <3>1, <3>3 DEF IdsOnce
  <2>10. Moved(t, "shrink_detach", c) BY <1>1, <1>2, <1>7 DEF Goto, Moved, TypeOK
  <2>11. OwnOnly(t) BY <1>1, <1>4, <2>4 DEF OwnOnly
  <2>12. Handles(c) = Held(t) BY <1>1 DEF Handles, Held
  <2>13. item[f] # None => item[f] \in Fbs /\ item[f] # b /\ fbmeta'[item[f]] = fbmeta[item[f]]
    BY <1>2, <1>5, <2>4 DEF Unattached, TypeOK
  <2>14. FileIds(f)' = FileIds(f) /\ FileIds(g)' = {} /\ Ids(b)' = Range(s) \cup {id}
    BY <1>3, <1>4, <1>5, <2>4, <2>7, <2>13 DEF FileIds, Ids
  <2>15. ClaimAt("shrink_detach", c)' \subseteq Claim(t) \cup {id}
    <3>1. Range(c.ids) = {} BY <1>2, EmptyList DEF Range
    <3> QED BY <1>1, <2>5, <2>14, <3>1 DEF ClaimAt
  <2>16. /\ pool' \subseteq Within(t, c) /\ ClaimAt("shrink_detach", c)' \subseteq Within(t, c)
         /\ ClaimAt("shrink_detach", c)' \cap pool' = {}
    BY <1>2, <1>7, <2>15 DEF Within
  <2>17. CoveredTo(b, c.off)'
    <3>1. c.off <= BlockSize * (kept + 1) BY <1>1, <1>5, KeptCovers
    <3>2. Len(fbmeta'[b].ids) = kept + 1 BY <2>4, <2>8
    <3>3. c.off <= BlockSize * Len(fbmeta'[b].ids) BY <3>1, <3>2, Zenon
    <3> QED BY <1>3, <1>5, <3>3 DEF CoveredTo
  <2>18. (item[f] # None => Ids(b) \cap Uninherited(item[f], kept) = {})'
    <3>1. ASSUME item[f] # None
          PROVE  Uninherited(item[f], kept)' \subseteq FileIds(f) /\
                 Uninherited(item[f], kept)' = Uninherited(item[f], kept)
      <4>1. Uninherited(item[f], kept)' = Uninherited(item[f], kept)
        BY <1>4, <2>13, <3>1 DEF Uninherited
      <4>2. Uninherited(item[f], kept) \subseteq FileIds(f)
        BY <1>2, <3>1, HandleNotNone DEF Uninherited, FileIds, Range
      <4> QED BY <4>1, <4>2
    <3> QED BY <1>3, <1>4, <2>5, <2>6, <2>14, <3>1
  <2>19. ShrinkAt("shrink_detach", c)'
    BY <1>1, <1>3, <1>4, <2>17, <2>18 DEF ShrinkAt, Copied, Attached
  <2>20. BlocksAt("shrink_detach", c)'
    BY <1>2, <2>19 DEF BlocksAt, UnsetAt, CoveredAt, ExtendAt, Copied, Attached, Shrinking
  <2> QED BY <1>4, <2>9, <2>10, <2>11, <2>12, <2>16, <2>20, BlockStep
<1> QED BY <1>1, <1>6, <1>7 DEF ShrinkCopy

\* ShrinkFile takes the name from the old file ...
LEMMA ShrinkDetachBlocks ==
    ASSUME FbsKnown, HandlesKnown', BlocksOwned, NEW t \in Threads, ShrinkDetach(t)
    PROVE  BlocksOwned'
<1>1. PICK r : r = loc[t] OBVIOUS
<1>2. /\ TypeOK /\ pc[t] = "shrink_detach" /\ r.fh \in Fhs /\ r.name \in Names
      /\ BlocksAt("shrink_detach", r)
  BY <1>1, OwnPlace DEF ShrinkDetach, At, Fit
<1>3. /\ status' = "up" /\ UNCHANGED <<pool, fbmeta, item>>
      /\ fmeta' = [fmeta EXCEPT ![r.fh].child = r.new, ![r.fh].ok = FALSE]
      /\ created_files' = [created_files EXCEPT ![r.name] = None]
  BY <1>1, <1>2, BusyIsUp DEF ShrinkDetach
<1>4. Moved(t, "shrink_attach", r) BY <1>1, <1>2 DEF ShrinkDetach, Goto, Moved, TypeOK
<1>5. r.fh \in Held(t) BY <1>1, <1>2, HandleNotNone DEF Held
<1>6. \A f \in Fhs : f \notin Held(t) => fmeta'[f].size = fmeta[f].size
  BY <1>2, <1>3, <1>5 DEF TypeOK
<1>7. ShrinkAt("shrink_attach", r)'
  BY <1>2, <1>3 DEF BlocksAt, ShrinkAt, Copied, Attached, CoveredTo, Ids, Uninherited
<1>8. /\ UnsetAt("shrink_attach", r)' /\ CoveredAt("shrink_attach", r)'
      /\ ExtendAt("shrink_attach", r)'
  BY <1>2 DEF BlocksAt, UnsetAt, CoveredAt, ExtendAt, Copied, Attached, Shrinking
<1>9. BlocksAt("shrink_attach", r)' BY <1>7, <1>8 DEF BlocksAt
<1>10. pc[t] \notin Released BY <1>2 DEF Released
<1>11. \A n \in Names : created_files'[n] = created_files[n] \/ created_files'[n] = None
  BY <1>2, <1>3 DEF TypeOK
<1> QED BY <1>1, <1>3, <1>4, <1>6, <1>9, <1>10, <1>11, KeepBlocks

\* ... and gives it to the new one, with the new FileBlock and the size that it covers.
LEMMA ShrinkAttachBlocks ==
    ASSUME FbsKnown, HandlesKnown', BlocksOwned, NEW t \in Threads, ShrinkAttach(t)
    PROVE  BlocksOwned'
<1>1. PICK c, f, g : c = loc[t] /\ f = c.fh /\ g = c.new OBVIOUS
<1>2. /\ TypeOK /\ pc[t] = "shrink_attach" /\ f \in Fhs /\ g \in Fhs /\ c.name \in Names
      /\ c \in Loc /\ IdsOnce /\ ShrinkAt("shrink_attach", c) /\ c.ids = <<>>
      /\ Claim(t) \cap pool = {}
  BY <1>1, OwnPlace DEF ShrinkAttach, At, Fit, BlocksAt, UnsetAt
<1>3. /\ status' = "up" /\ UNCHANGED <<pool, fbmeta>>
      /\ fmeta' = [fmeta EXCEPT ![g].size = c.off] /\ item' = [item EXCEPT ![g] = c.fb]
      /\ created_files' = [created_files EXCEPT ![c.name] = g]
  BY <1>1, <1>2, BusyIsUp DEF ShrinkAttach
<1>4. Moved(t, "shrink_write", c) BY <1>1, <1>2 DEF ShrinkAttach, Goto, Moved, TypeOK
<1>5. f # g /\ Held(t) = {f, g} /\ Handles(c) = {f, g}
  BY <1>1, <1>2, HandleNotNone
     DEF FbsKnown, HandlesKnown, HandlesOwned, NewIsNew, Held, Handles
<1>6. fmeta'[g].size = c.off /\ \A h \in Fhs : h # g => fmeta'[h].size = fmeta[h].size
  <2>1. PICK fm : fm = fmeta' OBVIOUS
  <2>2. fm = [fmeta EXCEPT ![g].size = c.off] /\ TypeOK /\ g \in Fhs BY <1>2, <1>3, <2>1
  <2>3. fm[g].size = c.off BY <2>2, ResizedMeta
  <2>4. \A h \in Fhs : h # g => fm[h] = fmeta[h] BY <2>2, ResizedMeta
  <2> QED BY <2>1, <2>3, <2>4
<1>7. item'[g] = c.fb /\ \A h \in Fhs : h # g => item'[h] = item[h] BY <1>2, <1>3 DEF TypeOK
<1>8. \A n \in Names : created_files'[n] \in {created_files[n], g} BY <1>2, <1>3 DEF TypeOK
<1>9. OwnOnly(t) /\ IdsOnce' BY <1>2, <1>3, <1>5, <1>6, <1>7, <1>8 DEF OwnOnly, IdsOnce
<1>10. item'[f] = item[f] BY <1>2, <1>5, <1>7
<1>11. ClaimAt("shrink_write", c)' \subseteq Claim(t)
  <2>1. FileIds(f)' = FileIds(f) /\ FileIds(g)' \subseteq Ids(c.fb) /\ Ids(c.fb)' = Ids(c.fb)
    BY <1>3, <1>7, <1>10 DEF FileIds, Ids
  <2>2. FileIds(f) \subseteq Claim(t) /\ Ids(c.fb) \subseteq Claim(t)
    BY <1>1, <1>2 DEF Claim, ClaimAt, Released
  <2>3. Range(c.ids) = {} BY <1>2, EmptyList DEF Range
  <2> QED BY <1>1, <2>1, <2>2, <2>3 DEF ClaimAt
<1>12. /\ pool' \subseteq Within(t, c) /\ ClaimAt("shrink_write", c)' \subseteq Within(t, c)
       /\ ClaimAt("shrink_write", c)' \cap pool' = {}
  BY <1>2, <1>3, <1>11 DEF Within
<1>13. Covered(g)'
  BY <1>2, <1>3, <1>6, <1>7 DEF ShrinkAt, Covered, CoveredTo
<1>14. ShrinkAt("shrink_write", c)'
  BY <1>1, <1>2, <1>3, <1>7, <1>10 DEF ShrinkAt, Copied, Attached, Ids, Uninherited
<1>15. UnsetAt("shrink_write", c)' /\ CoveredAt("shrink_write", c)' /\ ExtendAt("shrink_write", c)'
  BY <1>1, <1>2, <1>13 DEF UnsetAt, CoveredAt, ExtendAt, Copied, Attached, Shrinking
<1>16. BlocksAt("shrink_write", c)' BY <1>14, <1>15 DEF BlocksAt
<1>17. \A n \in Names : created_files'[n] \in Handles(c) \/
            (created_files'[n] = created_files[n] /\ created_files[n] \notin Held(t))
  BY <1>5, <1>8
<1> QED BY <1>3, <1>4, <1>5, <1>9, <1>12, <1>16, <1>17, BlockStep

\* While ShrinkFile persists the metas, the blocks stay where they are.
LEMMA AttachedStep ==
    ASSUME FbsKnown, HandlesKnown', BlocksOwned, NEW t \in Threads, NEW l, NEW r,
           Moved(t, l, r), pc[t] \in Attached, l \in Attached,
           r.fh = loc[t].fh, r.new = loc[t].new, r.fb = loc[t].fb, r.ids = loc[t].ids,
           r.off = loc[t].off, UNCHANGED <<status, pool, fbmeta, item, created_files>>,
           \A f \in Fhs : fmeta'[f].size = fmeta[f].size
    PROVE  BlocksOwned'
<1>1. PICK c, k : c = loc[t] /\ k = pc[t] OBVIOUS
<1>2. k \in Attached /\ r.new \in Fhs /\ BlocksAt(k, c) /\ k # "idle"
  BY <1>1, OwnPlace DEF Fit, Attached
<1>3. status' = "up" BY <1>1, <1>2, BusyIsUp
<1>4. pc[t] \notin Released BY <1>1, <1>2 DEF Released, Attached
<1>5. Covered(r.new)' BY <1>1, <1>2 DEF BlocksAt, CoveredAt, Covered, CoveredTo
<1>6. r.ids = <<>> BY <1>1, <1>2 DEF BlocksAt, UnsetAt, Attached
<1>7. /\ item'[r.new] = r.fb
      /\ item'[r.fh] # None => (Ids(r.fb) \cap Uninherited(item[r.fh], KeptBlocks(r.off)) = {})'
  BY <1>1, <1>2 DEF BlocksAt, ShrinkAt, Ids, Uninherited
<1>8. ShrinkAt(l, r)' BY <1>7 DEF ShrinkAt, Copied, Attached
<1>9. UnsetAt(l, r)' /\ CoveredAt(l, r)' /\ ExtendAt(l, r)'
  BY <1>5, <1>6 DEF UnsetAt, CoveredAt, ExtendAt, Copied, Attached, Shrinking
<1>10. BlocksAt(l, r)' BY <1>8, <1>9 DEF BlocksAt
<1> QED BY <1>3, <1>4, <1>10, KeepBlocks

\* Computing a crc changes no size.
LEMMA SealedSizes ==
    ASSUME TypeOK, NEW f \in Fhs
    PROVE  \A g \in Fhs : Sealed(fmeta, f)[g].size = fmeta[g].size
BY DEF Sealed, TypeOK, FileMeta

\* The page reads and writes of ShrinkFile, and the write of the new FileBlock.
LEMMA ShrinkWritesBlocks ==
    ASSUME FbsKnown, HandlesKnown', BlocksOwned, NEW t \in Threads,
           \/ ShrinkWrite(t) \/ ShrinkLand(t, TRUE) \/ ShrinkWriteFb(t, TRUE)
           \/ ShrinkWriteOld(t) \/ ShrinkLandOld(t, TRUE)
    PROVE  BlocksOwned'
<1>1. PICK c : c = loc[t] OBVIOUS
<1>2. TypeOK /\ c \in Loc /\ Fit(pc[t], c) BY <1>1, OwnPlace
<1>3. /\ UNCHANGED <<status, pool, fbmeta, item, created_files>> /\ pc[t] \in Attached
  BY DEF ShrinkWrite, ShrinkLand, ShrinkWriteFb, ShrinkWriteOld, ShrinkLandOld, WriteFbMeta,
         memory, At, Attached
<1>4. \A f \in Fhs : fmeta'[f].size = fmeta[f].size
  <2>1. \/ fmeta' = fmeta \/ fmeta' = Sealed(fmeta, loc[t].new) \/ fmeta' = Sealed(fmeta, loc[t].fh)
    BY DEF ShrinkWrite, ShrinkLand, ShrinkWriteFb, ShrinkWriteOld, ShrinkLandOld, memory,
           UnguardedRead
  <2>2. loc[t].new \in Fhs /\ loc[t].fh \in Fhs BY <1>1, <1>2, <1>3 DEF Fit, Attached
  <2> QED BY <1>2, <2>1, <2>2, SealedSizes
<1>5. PICK l \in Attached : \E p : Moved(t, l, [c EXCEPT !.page = p])
  <2>1. CASE ShrinkWrite(t)
    BY <1>1, <1>2, <2>1 DEF ShrinkWrite, UnguardedRead, Goto, Moved, TypeOK, Loc, Attached
  <2>2. CASE ShrinkLand(t, TRUE)
    BY <1>1, <1>2, <2>2 DEF ShrinkLand, Goto, Moved, TypeOK, Loc, Attached
  <2>3. CASE ShrinkWriteOld(t)
    BY <1>1, <1>2, <2>3 DEF ShrinkWriteOld, UnguardedRead, Goto, Moved, TypeOK, Loc, Attached
  <2>4. CASE ShrinkLandOld(t, TRUE)
    BY <1>1, <1>2, <2>4 DEF ShrinkLandOld, Goto, Moved, TypeOK, Loc, Attached
  <2>5. CASE ShrinkWriteFb(t, TRUE)
    <3>1. Moved(t, "shrink_write_old", c) BY <1>1, <1>2, <2>5 DEF ShrinkWriteFb, Goto, Moved, TypeOK
    <3>2. c = [c EXCEPT !.page = c.page] BY <1>2 DEF Loc
    <3> QED BY <3>1, <3>2 DEF Attached
  <2> QED BY <2>1, <2>2, <2>3, <2>4, <2>5
<1>6. PICK p, r : Moved(t, l, r) /\ r = [c EXCEPT !.page = p] BY <1>5
<1>7. /\ r.fh = c.fh /\ r.new = c.new /\ r.fb = c.fb /\ r.ids = c.ids /\ r.off = c.off
  BY <1>2, <1>6 DEF Loc
<1> QED BY <1>1, <1>3, <1>4, <1>6, <1>7, AttachedStep

-----------------------------------------------------------------------------
(* ParentFile::Recycle *)

\* Recycle gives back what the child did not inherit.
LEMMA RecycleBlocksBlocks ==
    ASSUME FbsKnown, HandlesKnown', BlocksOwned, NEW t \in Threads, RecycleBlocks(t)
    PROVE  BlocksOwned'
<1>1. PICK c, f, g, old, kept : /\ c = loc[t] /\ f = c.fh /\ g = c.new /\ old = item[f]
                                /\ kept = KeptBlocks(c.off)
  OBVIOUS
<1>2. /\ TypeOK /\ pc[t] = "recycle_blocks" /\ f \in Fhs /\ g \in Fhs /\ c \in Loc
      /\ BlocksAt("recycle_blocks", c) /\ Claim(t) \cap pool = {}
  BY <1>1, OwnPlace DEF RecycleBlocks, At, Fit
<1>3. /\ c.ids = <<>> /\ Covered(g) /\ item[g] = c.fb
      /\ old # None => Ids(c.fb) \cap Uninherited(old, kept) = {}
  BY <1>1, <1>2 DEF BlocksAt, UnsetAt, CoveredAt, ShrinkAt, Attached
<1>4. /\ status' = "up" /\ UNCHANGED <<fbmeta, item, created_files, fmeta>>
      /\ pool' = IF old = None THEN pool ELSE pool \cup Uninherited(old, kept)
  BY <1>1, <1>2, BusyIsUp DEF RecycleBlocks
<1>5. PICK l, r : /\ l = (IF old = None THEN "recycle_meta" ELSE "recycle_fb")
                  /\ r = [c EXCEPT !.fb = old]
  OBVIOUS
<1>6. Moved(t, l, r) BY <1>1, <1>2, <1>5 DEF RecycleBlocks, Goto, Moved, TypeOK
<1>7. r.fh = f /\ r.new = g /\ r.fb = old /\ r.ids = <<>> BY <1>1, <1>2, <1>3, <1>5 DEF Loc
<1>8. Handles(r) = Held(t) BY <1>1, <1>7 DEF Handles, Held
<1>9. OwnOnly(t) /\ IdsOnce' BY <1>4 DEF OwnOnly, BlocksOwned, IdsOnce
<1>10. /\ FileIds(g) \subseteq Claim(t) /\ FileIds(f) \subseteq Claim(t)
       /\ FileIds(g) = Ids(c.fb)
  <2>1. g # None BY <1>2, HandleNotNone
  <2> QED BY <1>1, <1>2, <1>3, <2>1 DEF Claim, ClaimAt, Released, FileIds, Ids
<1>11. old # None => Uninherited(old, kept) \subseteq FileIds(f)
  BY <1>1, <1>2, HandleNotNone DEF Uninherited, FileIds, Range
<1>12. ClaimAt(l, r)' = FileIds(g)
  <2>1. FileIds(g)' = FileIds(g) /\ Range(r.ids) = {}
    BY <1>4, <1>7, EmptyList DEF FileIds, Range
  <2>2. CASE old = None
    BY <1>1, <1>4, <1>7, <2>1, <2>2 DEF ClaimAt, FileIds, Ids
  <2>3. CASE old # None
    <3>1. l \in Released BY <1>5, <2>3 DEF Released
    <3> QED BY <1>7, <2>1, <3>1 DEF ClaimAt
  <2> QED BY <2>2, <2>3
<1>13. /\ pool' \subseteq Within(t, r) /\ ClaimAt(l, r)' \subseteq Within(t, r)
       /\ ClaimAt(l, r)' \cap pool' = {}
  <2>1. pool' \subseteq pool \cup FileIds(f) BY <1>4, <1>11
  <2>2. FileIds(g) \cap pool' = {} BY <1>2, <1>3, <1>4, <1>10
  <2> QED BY <1>10, <1>12, <2>1, <2>2 DEF Within
<1>14. Covered(g)' BY <1>3, <1>4 DEF Covered, CoveredTo
<1>15. BlocksAt(l, r)'
  BY <1>5, <1>7, <1>14 DEF BlocksAt, UnsetAt, CoveredAt, ExtendAt, ShrinkAt, Copied, Attached,
                           Shrinking
<1>16. \A n \in Names : created_files'[n] \in Handles(r) \/
            (created_files'[n] = created_files[n] /\ created_files[n] \notin Held(t))
  BY <1>4, <1>8
<1> QED BY <1>4, <1>6, <1>8, <1>9, <1>13, <1>15, <1>16, BlockStep

\* Recycle clears the FileBlock of the parent.
LEMMA RecycleFbBlocks ==
    ASSUME FbsKnown, HandlesKnown', BlocksOwned, NEW t \in Threads, RecycleFb(t, TRUE)
    PROVE  BlocksOwned'
<1>1. PICK c, f, g, b, r : /\ c = loc[t] /\ f = c.fh /\ g = c.new /\ b = c.fb
                           /\ r = [c EXCEPT !.fb = None]
  OBVIOUS
<1>2. /\ TypeOK /\ pc[t] = "recycle_fb" /\ f \in Fhs /\ g \in Fhs /\ b \in Fbs /\ c \in Loc
      /\ c.ids = <<>> /\ Covered(g) /\ item[f] = b /\ IdsOnce /\ Claim(t) \cap pool = {}
  BY <1>1, OwnPlace DEF RecycleFb, At, Fit, BlocksAt, UnsetAt, CoveredAt, FbAt
<1>3. /\ status' = "up" /\ UNCHANGED <<pool, created_files, fmeta>>
      /\ fbmeta' = [fbmeta EXCEPT ![b] = FreshFb] /\ item' = [item EXCEPT ![f] = None]
  BY <1>1, <1>2, BusyIsUp DEF RecycleFb, WriteFbMeta
<1>4. Moved(t, "recycle_meta", r) BY <1>1, <1>2 DEF RecycleFb, Goto, Moved, TypeOK
<1>5. r.fh = f /\ r.new = g /\ r.fb = None /\ r.ids = <<>> BY <1>1, <1>2 DEF Loc
<1>6. item'[f] = None /\ \A h \in Fhs : h # f => item'[h] = item[h] BY <1>2, <1>3 DEF TypeOK
<1>7. IdsOnce' /\ \A d \in Fbs : d # b => fbmeta'[d] = fbmeta[d] BY <1>2, <1>3, ClearedIds
<1>8. f # g /\ Held(t) = {f, g} /\ Handles(r) = {f, g}
  BY <1>1, <1>2, <1>5, HandleNotNone
     DEF FbsKnown, HandlesKnown, HandlesOwned, NewIsNew, Held, Handles
<1>9. OwnOnly(t) BY <1>1, <1>3, <1>6, <1>7, <1>8 DEF OwnOnly
<1>10. item'[g] = item[g] /\ (item[g] # None => fbmeta'[item[g]] = fbmeta[item[g]])
  <2>1. item[g] # b BY <1>2, <1>8, FbNotNone DEF FbsKnown, FbsOwned, ItemOnce
  <2> QED BY <1>2, <1>6, <1>7, <1>8, <2>1 DEF TypeOK
<1>11. FileIds(g)' = FileIds(g) /\ Covered(g)'
  BY <1>2, <1>3, <1>10 DEF FileIds, Covered, CoveredTo
<1>12. FileIds(g) \subseteq Claim(t) BY <1>1 DEF Claim, ClaimAt
<1>13. ClaimAt("recycle_meta", r)' = FileIds(g)
  <2>1. FileIds(f)' = {} BY <1>6 DEF FileIds
  <2>2. Ids(r.fb)' = {} /\ Range(r.ids) = {} BY <1>5, EmptyList DEF Ids, Range
  <2> QED BY <1>5, <1>11, <2>1, <2>2 DEF ClaimAt
<1>14. /\ pool' \subseteq Within(t, r) /\ ClaimAt("recycle_meta", r)' \subseteq Within(t, r)
       /\ ClaimAt("recycle_meta", r)' \cap pool' = {}
  BY <1>2, <1>3, <1>12, <1>13 DEF Within
<1>15. BlocksAt("recycle_meta", r)'
  BY <1>5, <1>11 DEF BlocksAt, UnsetAt, CoveredAt, ExtendAt, ShrinkAt, Copied, Attached,
                     Shrinking
<1>16. \A n \in Names : created_files'[n] \in Handles(r) \/
            (created_files'[n] = created_files[n] /\ created_files[n] \notin Held(t))
  BY <1>3, <1>8
<1> QED BY <1>3, <1>4, <1>7, <1>8, <1>9, <1>14, <1>15, <1>16, BlockStep

\* Recycle clears the parent's meta, which has no FileBlock and no name any more.
LEMMA RecycleMetaBlocks ==
    ASSUME FbsKnown, HandlesKnown', BlocksOwned, NEW t \in Threads, RecycleMeta(t, TRUE)
    PROVE  BlocksOwned'
<1>1. PICK c, f, g, r : /\ c = loc[t] /\ f = c.fh /\ g = c.new /\ r = [c EXCEPT !.fh = None]
  OBVIOUS
<1>2. /\ TypeOK /\ pc[t] = "recycle_meta" /\ f \in Fhs /\ g \in Fhs /\ c \in Loc
      /\ c.ids = <<>> /\ Covered(g) /\ c.fb = None /\ IdsOnce /\ Claim(t) \cap pool = {}
  BY <1>1, OwnPlace DEF RecycleMeta, At, Fit, BlocksAt, UnsetAt, CoveredAt, FbAt
<1>3. item[f] = None /\ \A n \in Names : created_files[n] # f
  <2>1. item[f] = None /\ created_files[c.name] # f
    BY <1>1, <1>2 DEF FbsKnown, HandlesKnown, HandlesOwned, OldDetached, Detached
  <2>2. f \in Held(t) BY <1>1, <1>2, HandleNotNone DEF Held
  <2>3. \A n \in Names : n # c.name => created_files[n] # f
    BY <1>1, <2>2, OtherNames DEF FbsKnown
  <2> QED BY <2>1, <2>3
<1>4. /\ status' = "up" /\ UNCHANGED <<pool, fbmeta, item, created_files>>
      /\ WriteMeta([fmeta EXCEPT ![f] = ClearMeta(@)], f, TRUE)
  BY <1>1, <1>2, BusyIsUp DEF RecycleMeta
<1>5. Moved(t, "recycle_child", r) BY <1>1, <1>2 DEF RecycleMeta, Goto, Moved, TypeOK
<1>6. r.fh = None /\ r.new = g /\ r.fb = None /\ r.ids = <<>> BY <1>1, <1>2 DEF Loc
<1>7. f # g /\ Held(t) = {f, g} /\ Handles(r) = {g}
  BY <1>1, <1>2, <1>6, HandleNotNone
     DEF FbsKnown, HandlesKnown, HandlesOwned, NewIsNew, Held, Handles
<1>8. \A h \in Fhs : h # f => fmeta'[h].size = fmeta[h].size BY <1>2, <1>4, ClearedSizes
<1>9. OwnOnly(t) /\ IdsOnce' BY <1>2, <1>4, <1>7, <1>8 DEF OwnOnly, IdsOnce
<1>10. FileIds(g)' = FileIds(g) /\ FileIds(f)' = {} /\ Covered(g)'
  BY <1>2, <1>3, <1>4, <1>7, <1>8 DEF FileIds, Covered, CoveredTo
<1>11. FileIds(g) \subseteq Claim(t) BY <1>1 DEF Claim, ClaimAt
<1>12. ClaimAt("recycle_child", r)' = FileIds(g)
  BY <1>6, <1>10, EmptyList DEF ClaimAt, FileIds, Ids, Range
<1>13. /\ pool' \subseteq Within(t, r) /\ ClaimAt("recycle_child", r)' \subseteq Within(t, r)
       /\ ClaimAt("recycle_child", r)' \cap pool' = {}
  BY <1>2, <1>4, <1>11, <1>12 DEF Within
<1>14. BlocksAt("recycle_child", r)'
  BY <1>6, <1>10 DEF BlocksAt, UnsetAt, CoveredAt, ExtendAt, ShrinkAt, Copied, Attached,
                     Shrinking
<1>15. Held(t) \ Handles(r) = {f} BY <1>7
<1>16. \A n \in Names : created_files'[n] \in Handles(r) \/
            (created_files'[n] = created_files[n] /\ created_files[n] \notin Held(t))
  BY <1>3, <1>4, <1>7
<1> QED BY <1>4, <1>5, <1>9, <1>10, <1>13, <1>14, <1>15, <1>16, BlockStep

\* Recycle ends with the child.
LEMMA RecycleChildBlocks ==
    ASSUME FbsKnown, HandlesKnown', BlocksOwned, NEW t \in Threads, RecycleChild(t, TRUE)
    PROVE  BlocksOwned'
<1>1. PICK c, g : c = loc[t] /\ g = c.new OBVIOUS
<1>2. /\ TypeOK /\ pc[t] = "recycle_child" /\ g \in Fhs /\ c.fh = None /\ Covered(g) /\ IdsOnce
  BY <1>1, OwnPlace DEF RecycleChild, At, Fit, BlocksAt, UnsetAt, CoveredAt
<1>3. /\ status' = "up" /\ UNCHANGED <<pool, created_files, fbmeta, item>>
      /\ WriteMeta(fmeta, g, TRUE) /\ Moved(t, "idle", NoLoc)
  BY <1>1, <1>2, BusyIsUp, ReturnMoved DEF RecycleChild
<1>4. \A h \in Fhs : fmeta'[h].size = fmeta[h].size BY <1>2, <1>3, WrittenSizes DEF TypeOK
<1>5. Held(t) = {g} BY <1>1, <1>2, HandleNotNone DEF Held
<1>6. OwnOnly(t) /\ IdsOnce' BY <1>2, <1>3, <1>4 DEF OwnOnly, IdsOnce
<1>7. FileIds(g)' \subseteq Claim(t) BY <1>1, <1>3 DEF FileIds, Claim, ClaimAt
<1>8. Covered(g)' BY <1>2, <1>3, <1>4 DEF Covered, CoveredTo
<1>9. ASSUME NEW n \in Names
      PROVE  \/ Covered(created_files[n])'
             \/ created_files'[n] = created_files[n] /\ created_files[n] \notin Held(t)
  <2>1. CASE created_files[n] = g
    <3>1. created_files'[n] = g BY <1>3, <2>1
    <3> QED BY <1>8, <3>1 DEF Covered, CoveredTo
  <2> QED BY <1>3, <1>5, <2>1
<1> QED BY <1>3, <1>5, <1>6, <1>7, <1>9, ReturnBlocks

-----------------------------------------------------------------------------
(* Mount, and the two theorems *)

\* Every thread is idle, and no file has a FileBlock or a name.
Untouched ==
    /\ \A t \in Threads : pc[t] = "idle" /\ loc[t] = NoLoc
    /\ \A f \in Fhs : item[f] = None
    /\ \A n \in Names : created_files[n] = None
    /\ \A b \in Fbs : fbmeta[b] = FreshFb

\* Then no block has an owner.
LEMMA NothingOwned == Untouched => BlocksApart /\ IdsOnce /\ NamedCovered /\ BlocksPlaced
<1> SUFFICES ASSUME Untouched PROVE BlocksApart /\ IdsOnce /\ NamedCovered /\ BlocksPlaced
  OBVIOUS
<1>1. ASSUME NEW t \in Threads
      PROVE  Claim(t) = {} /\ Held(t) = {} /\ BlocksAt(pc[t], loc[t])
  <2>1. PICK r : r = NoLoc OBVIOUS
  <2>2. pc[t] = "idle" /\ loc[t] = r /\ r.fh = None /\ r.new = None /\ r.fb = None /\ r.ids = <<>>
    BY <2>1 DEF Untouched, NoLoc
  <2>3. Claim(t) = {} BY <2>2, EmptyList DEF Claim, ClaimAt, FileIds, Ids, Range
  <2>4. Held(t) = {} BY <2>2 DEF Held
  <2>5. BlocksAt(pc[t], loc[t])
    BY <2>2 DEF BlocksAt, UnsetAt, CoveredAt, ExtendAt, ShrinkAt, Copied, Attached, Shrinking
  <2> QED BY <2>3, <2>4, <2>5
<1>2. \A f \in Fhs : FileIds(f) = {} BY DEF Untouched, FileIds
<1>3. BlocksApart BY <1>1, <1>2 DEF BlocksApart
<1>4. IdsOnce
  <2>1. FreshFb.ids = <<>> BY DEF FreshFb
  <2>2. IsInjective(<<>>) /\ Len(<<>>) <= Capacity BY StoreAssumption, EmptyList DEF IsInjective
  <2> QED BY <2>1, <2>2 DEF Untouched, IdsOnce
<1>5. NamedCovered BY DEF Untouched, NamedCovered
<1>6. BlocksPlaced BY <1>1 DEF BlocksPlaced
<1> QED BY <1>3, <1>4, <1>5, <1>6

\* The formatted device.
LEMMA InitBlocks == Init => BlocksOwned
<1> SUFFICES ASSUME Init PROVE BlocksOwned OBVIOUS
<1>1. FirstMount BY DEF Init, FirstMount
<1>2. Untouched BY DEF Init, Untouched
<1> QED BY <1>1, <1>2, NothingOwned DEF BlocksOwned

\* The mount of a formatted device finds no file and no FileBlock.
LEMMA MountBlocks ==
    ASSUME FbsKnown, BlocksOwned, Mount
    PROVE  BlocksOwned'
<1>1. UsedFhs = {} /\ UsedFbs = {}
  <2>1. ~FreshFile.used /\ ~FreshFb.used BY DEF FreshFile, FreshFb
  <2> QED BY <2>1 DEF Mount, BlocksOwned, FirstMount, UsedFhs, UsedFbs
<1>2. \A t \in Threads : pc'[t] = "idle" /\ loc'[t] = NoLoc
  BY DEF Mount, FbsKnown, HandlesKnown, HandlesOwned, IdleHoldsNothing
<1>3. \A f \in Fhs : item'[f] = None
  <2>1. First({}) = None BY DEF First
  <2>2. \A f \in Fhs : LoadedFb(f) = None
    <3>1. \A f \in Fhs : {b \in UsedFbs : disk_fbmeta[b].fh = f} = {} BY <1>1
    <3> QED BY <2>1, <3>1 DEF LoadedFb
  <2> QED BY <2>2 DEF Mount
<1>4. \A n \in Names : created_files'[n] = None
  <2>1. Last({}) = None BY DEF Last
  <2>2. \A n \in Names : LoadedFile(n) = None
    <3>1. \A n \in Names : NamedFhs(n) = {} BY <1>1 DEF NamedFhs
    <3> QED BY <2>1, <3>1 DEF LoadedFile
  <2> QED BY <2>2 DEF Mount
<1>5. \A b \in Fbs : fbmeta'[b] = FreshFb BY DEF Mount, BlocksOwned, FirstMount
<1>6. Untouched' BY <1>2, <1>3, <1>4, <1>5 DEF Untouched
<1>7. (BlocksApart /\ IdsOnce /\ NamedCovered /\ BlocksPlaced)' BY <1>6, NothingOwned, PTL
<1>8. FirstMount' BY DEF Mount, FirstMount
<1> QED BY <1>7, <1>8 DEF BlocksOwned

\* The file that ShrinkFile cuts has a FileBlock: the code does not dereference none.
LEMMA NoShrinkFault ==
    ASSUME FbsKnown, BlocksOwned, NEW t \in Threads
    PROVE  ~ShrinkFault(t)
<1> SUFFICES ASSUME ShrinkFault(t) PROVE FALSE OBVIOUS
<1>1. PICK c : c = loc[t] OBVIOUS
<1>2. /\ TypeOK /\ IdsOnce /\ c.fh \in Fhs /\ c \in Loc /\ Covered(c.fh)
      /\ c.off < fmeta[c.fh].size /\ item[c.fh] = None
  BY <1>1, OwnPlace DEF ShrinkFault, At, Fit, BlocksAt, CoveredAt, ShrinkAt
<1>3. c.off \in Nat BY <1>2 DEF Loc
<1> QED BY <1>2, <1>3, CutFile

\* Every step of the system that leaves it calm keeps the blocks' owners.
LEMMA NextBlocks ==
    ASSUME FbsKnown, HandlesKnown', Calm => BlocksOwned, [Next]_vars, Calm'
    PROVE  BlocksOwned'
<1>1. TypeOK BY DEF FbsKnown, HandlesKnown
<1>2. CASE Mount
  <2>1. Calm BY <1>2 DEF Mount, Calm
  <2> QED BY <1>2, <2>1, MountBlocks
<1>3. CASE Crash BY <1>1, <1>3 DEF Crash, Calm, TypeOK
<1>4. ASSUME NEW t \in Threads, Begin(t) PROVE BlocksOwned'
  <2>1. ASSUME NEW n \in Names, CreateNew(t, n) \/ UnlinkStart(t, n) PROVE BlocksOwned'
    <3>1. Calm BY <2>1 DEF CreateNew, UnlinkStart, Calm
    <3> QED BY <2>1, <3>1, CreateNewBlocks, UnlinkStartBlocks
  <2>2. ASSUME NEW n \in Names, NEW off \in Offsets,
               ExtendStart(t, n, off) \/ ShrinkStart(t, n, off)
        PROVE  BlocksOwned'
    <3>1. Calm BY <2>2 DEF ExtendStart, ShrinkStart, Calm
    <3> QED BY <2>2, <3>1, ExtendStartBlocks, ShrinkStartBlocks
  <2>3. ASSUME NEW n \in Names, NEW m \in Names, NEW good \in BOOLEAN,
               RenameFile(t, n, m, good)
        PROVE  BlocksOwned'
    <3>1. DeviceWrite(good) /\ UNCHANGED crashes BY <2>3 DEF RenameFile, WriteMeta
    <3>2. good = TRUE /\ Calm BY <1>1, <3>1, GoodWrite DEF Calm
    <3> QED BY <2>3, <3>2, RenameBlocks
  <2> QED BY <1>4, <2>1, <2>2, <2>3 DEF Begin
<1>5. ASSUME NEW t \in Threads, Continue(t) PROVE BlocksOwned'
  <2>1. CASE \/ CreateAdd(t) \/ ExtendBlocks(t) \/ UnlinkNames(t)
             \/ ShrinkFb(t) \/ ShrinkDetach(t) \/ ShrinkAttach(t) \/ RecycleBlocks(t)
             \/ ShrinkWrite(t) \/ ShrinkWriteOld(t)
    <3>1. UNCHANGED <<crashes, failures>>
      BY <2>1 DEF CreateAdd, ExtendBlocks, UnlinkNames, ShrinkFb, ShrinkDetach, ShrinkAttach,
                  RecycleBlocks, ShrinkWrite, ShrinkWriteOld
    <3>2. BlocksOwned BY <3>1 DEF Calm
    <3> QED BY <2>1, <3>2, CreateAddBlocks, ExtendBlocksBlocks, UnlinkNamesBlocks, ShrinkFbBlocks,
               ShrinkDetachBlocks, ShrinkAttachBlocks, RecycleBlocksBlocks, ShrinkWritesBlocks
  <2>2. CASE ShrinkFault(t)
    <3>1. Calm BY <2>2 DEF ShrinkFault, Calm
    <3> QED BY <2>2, <3>1, NoShrinkFault
  <2>3. ASSUME NEW good \in BOOLEAN,
               \/ CreateWrite(t, good) \/ ExtendFb(t, good) \/ ExtendSize(t, good)
               \/ UnlinkFb(t, good) \/ UnlinkMeta(t, good) \/ ShrinkCopy(t, good)
               \/ ShrinkLand(t, good) \/ ShrinkWriteFb(t, good)
               \/ ShrinkLandOld(t, good) \/ RecycleFb(t, good)
               \/ RecycleMeta(t, good) \/ RecycleChild(t, good)
        PROVE  BlocksOwned'
    <3>1. /\ DeviceWrite(good) \/ (good /\ UNCHANGED failures)
          /\ UNCHANGED crashes
      BY <2>3 DEF CreateWrite, ExtendFb, ExtendSize, UnlinkFb, UnlinkMeta, ShrinkCopy, ShrinkLand,
                  ShrinkWriteFb, ShrinkLandOld, RecycleFb, RecycleMeta, RecycleChild, WriteMeta,
                  WriteFbMeta, UnguardedLand
    <3>2. good = TRUE /\ BlocksOwned BY <1>1, <3>1, GoodWrite DEF Calm
    <3> QED BY <2>3, <3>2, CreateWriteBlocks, ExtendFbBlocks, ExtendSizeBlocks, UnlinkFbBlocks,
               UnlinkMetaBlocks, ShrinkCopyBlocks, ShrinkWritesBlocks, RecycleFbBlocks,
               RecycleMetaBlocks, RecycleChildBlocks
  <2> QED BY <1>5, <2>1, <2>2, <2>3 DEF Continue
<1>6. CASE UNCHANGED vars
  <2>1. UNCHANGED <<status, disk_fmeta, disk_fbmeta, fmeta, fbmeta, item, pool, created_files,
                    pc, loc, crashes, failures>>
    BY <1>6 DEF vars, memory, disk
  <2>2. BlocksOwned BY <2>1 DEF Calm
  <2>3. /\ \A f : FileIds(f)' = FileIds(f)
        /\ \A b : Ids(b)' = Ids(b)
        /\ \A f : Covered(f)' <=> Covered(f)
        /\ \A b, s : CoveredTo(b, s)' <=> CoveredTo(b, s)
        /\ \A b, k : Uninherited(b, k)' = Uninherited(b, k)
    BY <2>1 DEF FileIds, Ids, Covered, CoveredTo, Uninherited
  <2>4. \A u : Claim(u)' = Claim(u) BY <2>1, <2>3 DEF Claim, ClaimAt
  <2>5. \A u : Held(u)' = Held(u) BY <2>1 DEF Held
  <2>6. \A f : Unheld(f)' <=> Unheld(f) BY <2>5 DEF Unheld
  <2>7. BlocksApart' BY <2>1, <2>2, <2>3, <2>4, <2>6 DEF BlocksOwned, BlocksApart
  <2>8. IdsOnce' BY <2>1, <2>2 DEF BlocksOwned, IdsOnce
  <2>9. NamedCovered' BY <2>1, <2>2, <2>3, <2>6 DEF BlocksOwned, NamedCovered
  <2>10. FirstMount' BY <2>1, <2>2 DEF BlocksOwned, FirstMount
  <2>11. BlocksPlaced'
    <3> SUFFICES ASSUME NEW u \in Threads PROVE BlocksAt(pc[u], loc[u])'
      BY DEF BlocksPlaced
    <3>1. PICK l, r : l = pc[u] /\ r = loc[u] OBVIOUS
    <3>2. l = pc'[u] /\ r = loc'[u] BY <2>1, <3>1
    <3>3. UnsetAt(l, r) /\ CoveredAt(l, r) /\ ExtendAt(l, r) /\ ShrinkAt(l, r)
      BY <2>2, <3>1 DEF BlocksOwned, BlocksPlaced, BlocksAt
    <3>4. UnsetAt(pc[u], loc[u])' BY <3>2, <3>3 DEF UnsetAt
    <3>5. CoveredAt(pc[u], loc[u])' BY <2>3, <3>2, <3>3 DEF CoveredAt
    <3>6. ExtendAt(pc[u], loc[u])' BY <2>1, <2>3, <3>2, <3>3 DEF ExtendAt
    <3>7. ShrinkAt(pc[u], loc[u])' BY <2>1, <2>3, <3>2, <3>3 DEF ShrinkAt
    <3> QED BY <3>4, <3>5, <3>6, <3>7 DEF BlocksAt
  <2> QED BY <2>7, <2>8, <2>9, <2>10, <2>11 DEF BlocksOwned
<1> QED BY <1>2, <1>3, <1>4, <1>5, <1>6 DEF Next

\* The blocks' owners are known in every state before the first crash and failure.
LEMMA BlocksInvariant == Spec => [](FbsKnown /\ (Calm => BlocksOwned))
<1>1. Init => (Calm => BlocksOwned) BY InitBlocks
<1>2. FbsKnown /\ FbsKnown' /\ (Calm => BlocksOwned) /\ [Next]_vars => (Calm => BlocksOwned)'
  <2> SUFFICES ASSUME FbsKnown, FbsKnown', Calm => BlocksOwned, [Next]_vars, Calm'
               PROVE  BlocksOwned'
    OBVIOUS
  <2> QED BY NextBlocks DEF FbsKnown
<1>3. HandlesKnown /\ FbsOwned => FbsKnown BY DEF FbsKnown
<1> QED BY <1>1, <1>2, <1>3, FbsInvariant, PTL DEF Spec

\* Before the first crash and the first failed device write, whatever the interleaving: no
\* block belongs to two files that no thread is working on, none is in the pool while such
\* a file has it, and none that GetFreeBlockIdLock gave to a thread is also in the pool,
\* another thread's or such a file's.
THEOREM BlocksAreExclusive == Spec => [](Calm => BlockExclusive)
<1>1. ASSUME FbsKnown, Calm => BlocksOwned, Calm PROVE BlockExclusive
  <2>1. BlocksApart /\ TypeOK BY <1>1 DEF BlocksOwned, FbsKnown, HandlesKnown
  <2>2. \A n \in Settled : /\ created_files[n] \in Fhs /\ Unheld(created_files[n])
                           /\ \A m \in Names : created_files[m] = created_files[n] => m = n
    BY <1>1, SettledFree DEF Settled, FbsKnown, HandlesKnown, Unheld, Held
  <2>3. \A t \in Threads : Range(loc[t].ids) \subseteq Claim(t) BY DEF Claim, ClaimAt
  <2>4. \A n, m \in Settled :
            n # m => FileIds(created_files[n]) \cap FileIds(created_files[m]) = {}
    BY <2>1, <2>2 DEF BlocksApart, Settled
  <2>5. \A n \in Settled : FileIds(created_files[n]) \cap pool = {}
    BY <2>1, <2>2 DEF BlocksApart
  <2>6. ASSUME NEW t \in Threads
        PROVE  /\ Range(loc[t].ids) \cap pool = {}
               /\ \A n \in Settled : Range(loc[t].ids) \cap FileIds(created_files[n]) = {}
               /\ \A u \in Threads : t # u => Range(loc[t].ids) \cap Range(loc[u].ids) = {}
    BY <2>1, <2>2, <2>3 DEF BlocksApart
  <2> QED BY <2>4, <2>5, <2>6 DEF BlockExclusive
<1>2. FbsKnown /\ (Calm => BlocksOwned) => (Calm => BlockExclusive) BY <1>1
<1> QED BY <1>2, BlocksInvariant, PTL

\* Before the first crash and the first failed device write, a file that no thread is
\* working on has a block for every byte below its size: ReadData and WriteData find a
\* block id, and ShrinkFile a FileBlock.
THEOREM SizesAreCovered == Spec => []SizeCovered
<1>1. ASSUME FbsKnown, Calm => BlocksOwned PROVE SizeCovered
  <2>1. ASSUME crashes = 0, failures = 0, NEW n \in Settled PROVE Covered(created_files[n])
    BY <1>1, <2>1, SettledBlocks DEF Calm, Settled
  <2> QED BY <2>1 DEF SizeCovered, Covered, CoveredTo
<1>2. FbsKnown /\ (Calm => BlocksOwned) => SizeCovered BY <1>1
<1> QED BY <1>2, BlocksInvariant, PTL
=============================================================================
