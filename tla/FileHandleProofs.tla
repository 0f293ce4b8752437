-------------------------- MODULE FileHandleProofs --------------------------
(***************************************************************************)
(* The free list of file handles is sound, for every value of the          *)
(* constants: no thread, however the operations interleave, fail and       *)
(* crash, takes from free_fhs_ the handle of a file that exists; and as    *)
(* long as no device write fails, the list never gets stuck at a meta that *)
(* NewFreeFileNolock refuses.                                              *)
(***************************************************************************)
EXTENDS FileStoreProofs

-----------------------------------------------------------------------------
(* The inductive invariant *)

\* A thread that is between two operations holds nothing, and only threads of
\* a mounted file system are within one.
IdleHoldsNothing ==
    /\ \A t \in Threads : pc[t] = "idle" => loc[t] = NoLoc
    /\ status = "down" => \A t \in Threads : pc[t] = "idle"

\* The handles of a thread: the file it works on and the one that a shrink
\* makes.
Held(t) == {loc[t].fh, loc[t].new} \ {None}

\* No two threads hold a handle in common, nor are they at work on one name.
HeldApart ==
    \A t, u \in Threads : t # u =>
        /\ Held(t) \cap Held(u) = {}
        /\ loc[t].name = None \/ loc[t].name # loc[u].name

\* The file that a shrink makes is another one than the file it replaces.
NewIsNew == \A t \in Threads : loc[t].fh # None => loc[t].fh # loc[t].new

\* A handle has one name, and a thread's handle has at most the thread's name.
NamedOnce ==
    /\ \A n, m \in Names : created_files[n] # None /\ created_files[n] = created_files[m] => n = m
    /\ \A t \in Threads, n \in Names : created_files[n] \in Held(t) => n = loc[t].name

\* The places of ShrinkFile where the old file is out of the maps.
Detached == {"shrink_attach", "shrink_write", "shrink_land", "shrink_write_fb",
             "shrink_write_old", "shrink_land_old", "recycle_blocks",
             "recycle_fb", "recycle_meta"}

\* There the name is not the old file's any more, and before the old meta is
\* given back, it has lost its FileBlock.
OldDetached ==
    \A t \in Threads :
        /\ pc[t] \in Detached => created_files[loc[t].name] # loc[t].fh
        /\ pc[t] = "recycle_meta" => item[loc[t].fh] = None

HandlesOwned ==
    /\ IdleHoldsNothing /\ HeldApart /\ NewIsNew /\ NamedOnce /\ OldDetached
    /\ FreeFhsSound

-----------------------------------------------------------------------------
(* Sequences without repetition *)

\* Taking the head of a list without repetition.
LEMMA InjectiveTail ==
    ASSUME NEW S, NEW s \in Seq(S), s # <<>>, IsInjective(s)
    PROVE  /\ IsInjective(Tail(s)) /\ Head(s) \in Range(s)
           /\ Range(Tail(s)) \subseteq Range(s) \ {Head(s)}
<1>1. /\ Tail(s) \in Seq(S) /\ Len(s) \in Nat \ {0} /\ Len(Tail(s)) = Len(s) - 1
      /\ \A i \in 1 .. Len(s) - 1 : Tail(s)[i] = s[i + 1]
      /\ Head(s) = s[1] /\ DOMAIN s = 1 .. Len(s) /\ DOMAIN Tail(s) = 1 .. Len(s) - 1
    OBVIOUS
<1>2. IsInjective(Tail(s))
    BY <1>1 DEF IsInjective
<1>3. Head(s) \in Range(s)
    BY <1>1 DEF Range
<1>4. ASSUME NEW x \in Range(Tail(s))
      PROVE  x \in Range(s) \ {Head(s)}
    <2>1. PICK i \in 1 .. Len(s) - 1 : x = s[i + 1]
        BY <1>1 DEF Range
    <2>2. i + 1 \in DOMAIN s /\ 1 \in DOMAIN s /\ i + 1 # 1
        BY <1>1
    <2>3. QED
        BY <1>1, <2>1, <2>2 DEF Range, IsInjective
<1>5. QED
    BY <1>2, <1>3, <1>4

\* Appending what is not in the list yet.
LEMMA InjectiveAppend ==
    ASSUME NEW S, NEW s \in Seq(S), NEW x \in S, x \notin Range(s), IsInjective(s)
    PROVE  IsInjective(Append(s, x)) /\ Range(Append(s, x)) = Range(s) \cup {x}
<1> DEFINE a == Append(s, x)
<1>1. /\ Len(s) \in Nat /\ DOMAIN s = 1 .. Len(s) /\ DOMAIN a = 1 .. Len(s) + 1
      /\ \A i \in 1 .. Len(s) : a[i] = s[i]
      /\ a[Len(s) + 1] = x
    OBVIOUS
<1> HIDE DEF a
<1>2. \A i \in 1 .. Len(s) : a[i] # x
    BY <1>1 DEF Range
<1>3. IsInjective(a)
    <2> SUFFICES ASSUME NEW i \in DOMAIN a, NEW j \in DOMAIN a, a[i] = a[j]
                 PROVE  i = j
        BY DEF IsInjective
    <2>1. CASE i \in 1 .. Len(s) /\ j \in 1 .. Len(s)
        BY <1>1, <2>1 DEF IsInjective
    <2>2. CASE i = Len(s) + 1 \/ j = Len(s) + 1
        BY <1>1, <1>2, <2>2
    <2>3. QED
        BY <1>1, <2>1, <2>2
<1>4. Range(a) = Range(s) \cup {x}
    <2>1. ASSUME NEW y \in Range(a)
          PROVE  y \in Range(s) \cup {x}
        <3>1. PICK i \in DOMAIN a : y = a[i]
            BY DEF Range
        <3>2. QED
            BY <1>1, <3>1 DEF Range
    <2>2. ASSUME NEW y \in Range(s) \cup {x}
          PROVE  y \in Range(a)
        <3>1. CASE y = x
            <4>1. Len(s) + 1 \in DOMAIN a
                BY <1>1
            <4>2. QED
                BY <1>1, <3>1, <4>1 DEF Range
        <3>2. CASE y \in Range(s)
            <4>1. PICK i \in DOMAIN s : y = s[i]
                BY <3>2 DEF Range
            <4>2. i \in DOMAIN a /\ a[i] = y
                BY <1>1, <4>1
            <4>3. QED
                BY <4>2 DEF Range
        <3>3. QED
            BY <3>1, <3>2
    <2>3. QED
        BY <2>1, <2>2
<1>5. QED
    BY <1>3, <1>4 DEF a

\* An ascending list has no repetition and lists only members of the set.
LEMMA AscendingInjective ==
    ASSUME NEW S \in SUBSET Nat, Cardinality(S) \in Nat, NEW s \in Ascending(S)
    PROVE  IsInjective(s) /\ Range(s) \subseteq S
<1>1. Cardinality(S) \in Nat
    OBVIOUS
<1>2. s \in [1 .. Cardinality(S) -> S] /\ \A i, j \in DOMAIN s : i < j => s[i] < s[j]
    BY DEF Ascending
<1>3. \A i \in DOMAIN s : i \in Int /\ s[i] \in Int
    <2>1. \A x \in S : x \in Int
        OBVIOUS
    <2>2. DOMAIN s = 1 .. Cardinality(S) /\ \A i \in DOMAIN s : s[i] \in S
        BY <1>2
    <2>3. \A i \in 1 .. Cardinality(S) : i \in Int
        BY <1>1
    <2>4. QED
        BY <2>1, <2>2, <2>3
<1>4. IsInjective(s)
    <2> SUFFICES ASSUME NEW i \in DOMAIN s, NEW j \in DOMAIN s, s[i] = s[j]
                 PROVE  i = j
        BY DEF IsInjective
    <2>1. ~(i < j) /\ ~(j < i)
        BY <1>2, <1>3
    <2>2. QED
        BY <1>3, <2>1
<1>5. QED
    BY <1>2, <1>4 DEF Range

\* A handle is not None.
LEMMA HandleNotNone == \A f \in Fhs : f # None
BY StoreAssumption DEF Fhs, None

\* free_fhs_ lists handles of the table.
LEMMA FreeAreHandles ==
    ASSUME TypeOK
    PROVE  \A f \in Range(free_fhs) : f \in Fhs /\ f # None
<1>1. \A i \in DOMAIN free_fhs : free_fhs[i] \in Fhs
    BY DEF TypeOK
<1>2. QED
    BY <1>1, HandleNotNone DEF Range

-----------------------------------------------------------------------------
(* Steps that neither take nor give up a handle *)

\* What a thread's move to label l with locals r keeps of the other threads.
LEMMA OthersKept ==
    ASSUME TypeOK, NEW t \in Threads, NEW l, NEW r, Moved(t, l, r)
    PROVE  /\ pc'[t] = l /\ loc'[t] = r
           /\ \A u \in Threads : u # t => pc'[u] = pc[u] /\ loc'[u] = loc[u]
BY DEF TypeOK, Moved

\* A thread that goes on with the handles it has, or returns, and changes no
\* FileBlock but its own file's, keeps the ownership of the handles.
LEMMA KeptOwned ==
    ASSUME TypeOK, LocalsSet, HandlesOwned, NEW t \in Threads, NEW l, NEW r,
           Moved(t, l, r), pc[t] # "idle",
           \/ l # "idle" /\ r.name = loc[t].name /\ r.fh = loc[t].fh /\ r.new = loc[t].new
           \/ l = "idle" /\ r = NoLoc,
           UNCHANGED <<status, free_fhs, created_files>>,
           \A f \in Fhs : f # loc[t].fh => item'[f] = item[f],
           l \in Detached => pc[t] \in Detached,
           l = "recycle_meta" => item'[loc[t].fh] = None
    PROVE  HandlesOwned'
<1>1. /\ pc'[t] = l /\ loc'[t] = r
      /\ \A u \in Threads : u # t => pc'[u] = pc[u] /\ loc'[u] = loc[u]
    BY OthersKept
<1>2. \/ r.name = loc[t].name /\ r.fh = loc[t].fh /\ r.new = loc[t].new
      \/ r.name = None /\ r.fh = None /\ r.new = None
    BY DEF NoLoc
<1>3. \A u \in Threads :
        \/ /\ loc'[u].name = loc[u].name /\ loc'[u].fh = loc[u].fh
           /\ loc'[u].new = loc[u].new
        \/ loc'[u].name = None /\ loc'[u].fh = None /\ loc'[u].new = None
    BY <1>1, <1>2
<1>4. IdleHoldsNothing'
    BY <1>1 DEF HandlesOwned, IdleHoldsNothing
<1>5. \A u \in Threads : Held(u)' \subseteq Held(u)
    BY <1>3 DEF Held
<1>6. HeldApart'
    BY <1>3, <1>5 DEF HandlesOwned, HeldApart
<1>7. NewIsNew'
    BY <1>3 DEF HandlesOwned, NewIsNew
<1>8. NamedOnce'
    <2>1. ASSUME NEW u \in Threads, NEW n \in Names, created_files[n] \in Held(u)'
          PROVE  n = loc'[u].name
        BY <1>3, <1>5, <2>1 DEF HandlesOwned, NamedOnce, Held
    <2>2. QED
        BY <2>1 DEF HandlesOwned, NamedOnce
<1>9. OldDetached'
    <2>1. ASSUME NEW u \in Threads
          PROVE  /\ pc'[u] \in Detached => created_files[loc'[u].name] # loc'[u].fh
                 /\ pc'[u] = "recycle_meta" => item'[loc'[u].fh] = None
        <3>1. CASE u = t
            BY <1>1, <3>1 DEF HandlesOwned, OldDetached, Detached
        <3>2. CASE u # t
            <4>1. pc'[u] = pc[u] /\ loc'[u] = loc[u]
                BY <1>1, <3>2
            <4>2. ASSUME pc[u] = "recycle_meta"
                  PROVE  item'[loc[u].fh] = None
                <5>1. loc[u].fh \in Fhs
                    BY <4>2 DEF LocalsSet, Fit
                <5>2. loc[u].fh # None
                    BY <5>1 DEF Fhs, None
                <5>3. loc[u].fh # loc[t].fh
                    BY <3>2, <5>2 DEF HandlesOwned, HeldApart, Held
                <5>4. QED
                    BY <4>2, <5>1, <5>3 DEF HandlesOwned, OldDetached
            <4>3. QED
                BY <4>1, <4>2 DEF HandlesOwned, OldDetached
        <3>3. QED
            BY <3>1, <3>2
    <2>2. QED
        BY <2>1 DEF OldDetached
<1>10. FreeFhsSound'
    <2>1. ASSUME NEW f \in Range(free_fhs)
          PROVE  /\ item'[f] = None
                 /\ \A n \in Names : created_files[n] # f
                 /\ \A u \in Threads : loc'[u].fh # f /\ loc'[u].new # f
        <3>1. f \in Fhs /\ f # None
            BY FreeAreHandles
        <3>2. QED
            BY <1>3, <3>1 DEF HandlesOwned, FreeFhsSound
    <2>2. QED
        BY <2>1 DEF HandlesOwned, FreeFhsSound
<1>11. QED
    BY <1>4, <1>6, <1>7, <1>8, <1>9, <1>10 DEF HandlesOwned

\* CreateFile persists the meta it has claimed.
LEMMA CreateWriteOwned ==
    ASSUME TypeOK, LocalsSet, HandlesOwned, NEW t \in Threads, NEW good \in BOOLEAN,
           CreateWrite(t, good)
    PROVE  HandlesOwned'
<1>1. Moved(t, "create_add", loc[t]) \/ Moved(t, "idle", NoLoc)
    BY ReturnMoved DEF CreateWrite, Goto, Moved, TypeOK
<1>2. QED
    BY <1>1, KeptOwned DEF CreateWrite, At, Detached

\* ExtendFile takes block ids, or returns without them.
LEMMA ExtendBlocksOwned ==
    ASSUME TypeOK, LocalsSet, HandlesOwned, NEW t \in Threads, ExtendBlocks(t)
    PROVE  HandlesOwned'
<1>1. pc[t] = "extend_blocks" /\ UNCHANGED <<status, free_fhs, created_files, item>>
    BY DEF ExtendBlocks, At
<1>2. CASE \E s : loc' = [loc EXCEPT ![t].ids = s] /\
                  (Goto(t, "extend_fb") \/ Goto(t, "extend_size"))
    <2>1. PICK s : loc' = [loc EXCEPT ![t].ids = s] /\
                   (Goto(t, "extend_fb") \/ Goto(t, "extend_size"))
        BY <1>2
    <2> DEFINE r == [loc[t] EXCEPT !.ids = s]
    <2>2. Moved(t, "extend_fb", r) \/ Moved(t, "extend_size", r)
        BY <2>1 DEF Goto, Moved, TypeOK, Loc
    <2>3. r.name = loc[t].name /\ r.fh = loc[t].fh /\ r.new = loc[t].new
        BY DEF TypeOK, Loc
    <2> HIDE DEF r
    <2>4. QED
        BY <1>1, <2>2, <2>3, KeptOwned DEF Detached
<1>3. CASE Return(t)
    BY <1>1, <1>3, ReturnMoved, KeptOwned DEF Detached
<1>4. QED
    BY <1>2, <1>3 DEF ExtendBlocks

\* ExtendFile enters the FileBlock of its own file only.
LEMMA ExtendFbOwned ==
    ASSUME TypeOK, LocalsSet, HandlesOwned, NEW t \in Threads, NEW good \in BOOLEAN,
           ExtendFb(t, good)
    PROVE  HandlesOwned'
<1>1. Moved(t, "extend_size", loc[t]) \/ Moved(t, "idle", NoLoc)
    BY ReturnMoved DEF ExtendFb, Goto, Moved, TypeOK
<1>2. \A f \in Fhs : f # loc[t].fh => item'[f] = item[f]
    BY DEF ExtendFb, TypeOK
<1>3. pc[t] = "extend_fb" /\ UNCHANGED <<status, free_fhs, created_files>>
    BY DEF ExtendFb, At
<1>4. QED
    BY <1>1, <1>2, <1>3, KeptOwned DEF Detached

\* ExtendFile sets the size and returns.
LEMMA ExtendSizeOwned ==
    ASSUME TypeOK, LocalsSet, HandlesOwned, NEW t \in Threads, NEW good \in BOOLEAN,
           ExtendSize(t, good)
    PROVE  HandlesOwned'
BY ReturnMoved, KeptOwned DEF ExtendSize, At, Detached

\* unlink detaches the FileBlock of its own file.
LEMMA UnlinkFbOwned ==
    ASSUME TypeOK, LocalsSet, HandlesOwned, NEW t \in Threads, NEW good \in BOOLEAN,
           UnlinkFb(t, good)
    PROVE  HandlesOwned'
<1> DEFINE r == [loc[t] EXCEPT !.fb = None]
<1>1. Moved(t, "unlink_meta", r) \/ Moved(t, "idle", NoLoc)
    BY ReturnMoved DEF UnlinkFb, Goto, Moved, TypeOK, Loc
<1>2. r.name = loc[t].name /\ r.fh = loc[t].fh /\ r.new = loc[t].new
    BY DEF TypeOK, Loc
<1>3. \A f \in Fhs : f # loc[t].fh => item'[f] = item[f]
    BY DEF UnlinkFb, TypeOK
<1>4. pc[t] = "unlink_fb" /\ UNCHANGED <<status, free_fhs, created_files>>
    BY DEF UnlinkFb, At
<1> HIDE DEF r
<1>5. QED
    BY <1>1, <1>2, <1>3, <1>4, KeptOwned DEF Detached

\* unlink clears the meta of its own file.
LEMMA UnlinkMetaOwned ==
    ASSUME TypeOK, LocalsSet, HandlesOwned, NEW t \in Threads, NEW good \in BOOLEAN,
           UnlinkMeta(t, good)
    PROVE  HandlesOwned'
<1>1. Moved(t, "unlink_names", loc[t]) \/ Moved(t, "idle", NoLoc)
    BY ReturnMoved DEF UnlinkMeta, Goto, Moved, TypeOK
<1>2. QED
    BY <1>1, KeptOwned DEF UnlinkMeta, At, Detached

\* ShrinkFile takes a FileBlock for the new file, or returns without one.
LEMMA ShrinkFbOwned ==
    ASSUME TypeOK, LocalsSet, HandlesOwned, NEW t \in Threads, ShrinkFb(t)
    PROVE  HandlesOwned'
<1> DEFINE r == [loc[t] EXCEPT !.fb = Head(free_fbhs)]
<1>1. \/ Moved(t, "shrink_detach", loc[t]) \/ Moved(t, "idle", NoLoc)
      \/ Moved(t, "shrink_copy", r) \/ Moved(t, "shrink_detach", r)
    BY ReturnMoved DEF ShrinkFb, Goto, Moved, TypeOK, Loc
<1>2. r.name = loc[t].name /\ r.fh = loc[t].fh /\ r.new = loc[t].new
    BY DEF TypeOK, Loc
<1>3. pc[t] = "shrink_fb" /\ UNCHANGED <<status, free_fhs, created_files, item>>
    BY DEF ShrinkFb, At
<1> HIDE DEF r
<1>4. QED
    BY <1>1, <1>2, <1>3, KeptOwned DEF Detached

\* ShrinkFile copies the block that is cut.
LEMMA ShrinkCopyOwned ==
    ASSUME TypeOK, LocalsSet, HandlesOwned, NEW t \in Threads, NEW good \in BOOLEAN,
           ShrinkCopy(t, good)
    PROVE  HandlesOwned'
<1>1. Moved(t, "shrink_detach", loc[t]) \/ Moved(t, "idle", NoLoc)
    BY ReturnMoved DEF ShrinkCopy, Goto, Moved, TypeOK
<1>2. QED
    BY <1>1, KeptOwned DEF ShrinkCopy, At, Detached

\* The page reads and writes that ShrinkFile makes outside the mutex.
LEMMA ShrinkWritesOwned ==
    ASSUME TypeOK, LocalsSet, HandlesOwned, NEW t \in Threads, NEW good \in BOOLEAN,
           \/ ShrinkWrite(t) \/ ShrinkLand(t, good)
           \/ ShrinkWriteOld(t) \/ ShrinkLandOld(t, good)
    PROVE  HandlesOwned'
<1>1. pc[t] \in Detached /\ pc[t] # "idle" /\ UNCHANGED <<status, free_fhs, created_files, item>>
    BY DEF ShrinkWrite, ShrinkLand, ShrinkWriteOld, ShrinkLandOld, At, Detached, memory
<1>2. \/ Moved(t, "idle", NoLoc)
      \/ \E l \in Detached \ {"recycle_meta"} :
            \E p : Moved(t, l, [loc[t] EXCEPT !.page = p])
    <2>1. CASE ShrinkWrite(t)
        BY <2>1 DEF ShrinkWrite, UnguardedRead, Goto, Moved, Detached, TypeOK, Loc
    <2>2. CASE ShrinkLand(t, good)
        BY <2>2, ReturnMoved DEF ShrinkLand, Goto, Moved, Detached, TypeOK, Loc
    <2>3. CASE ShrinkWriteOld(t)
        BY <2>3 DEF ShrinkWriteOld, UnguardedRead, Goto, Moved, Detached, TypeOK, Loc
    <2>4. CASE ShrinkLandOld(t, good)
        BY <2>4, ReturnMoved DEF ShrinkLandOld, Goto, Moved, Detached, TypeOK, Loc
    <2>5. QED
        BY <2>1, <2>2, <2>3, <2>4
<1>3. CASE Moved(t, "idle", NoLoc)
    BY <1>1, <1>3, KeptOwned DEF Detached
<1>4. ASSUME NEW l \in Detached \ {"recycle_meta"}, NEW p,
             Moved(t, l, [loc[t] EXCEPT !.page = p])
      PROVE  HandlesOwned'
    <2> DEFINE r == [loc[t] EXCEPT !.page = p]
    <2>1. r.name = loc[t].name /\ r.fh = loc[t].fh /\ r.new = loc[t].new
        BY DEF TypeOK, Loc
    <2>2. l # "idle"
        BY DEF Detached
    <2> HIDE DEF r
    <2>3. Moved(t, l, r)
        BY <1>4 DEF r
    <2>4. QED
        BY <1>1, <2>1, <2>2, <2>3, KeptOwned
<1>5. QED
    BY <1>2, <1>3, <1>4

\* ShrinkFile persists the new FileBlock.
LEMMA ShrinkWriteFbOwned ==
    ASSUME TypeOK, LocalsSet, HandlesOwned, NEW t \in Threads, NEW good \in BOOLEAN,
           ShrinkWriteFb(t, good)
    PROVE  HandlesOwned'
<1>1. Moved(t, "shrink_write_old", loc[t]) \/ Moved(t, "idle", NoLoc)
    BY ReturnMoved DEF ShrinkWriteFb, Goto, Moved, TypeOK
<1>2. QED
    BY <1>1, KeptOwned DEF ShrinkWriteFb, At, Detached

\* Recycle gives blocks back; a parent without a FileBlock is ready to go.
LEMMA RecycleBlocksOwned ==
    ASSUME TypeOK, LocalsSet, HandlesOwned, NEW t \in Threads, RecycleBlocks(t)
    PROVE  HandlesOwned'
<1> DEFINE r == [loc[t] EXCEPT !.fb = item[loc[t].fh]]
<1>1. \/ Moved(t, "recycle_fb", r)
      \/ Moved(t, "recycle_meta", r) /\ item[loc[t].fh] = None
    BY DEF RecycleBlocks, Goto, Moved, TypeOK, Loc
<1>2. r.name = loc[t].name /\ r.fh = loc[t].fh /\ r.new = loc[t].new
    BY DEF TypeOK, Loc
<1>3. /\ pc[t] = "recycle_blocks" /\ pc[t] \in Detached
      /\ UNCHANGED <<status, free_fhs, created_files, item>>
    BY DEF RecycleBlocks, At, Detached
<1> HIDE DEF r
<1>4. QED
    BY <1>1, <1>2, <1>3, KeptOwned

\* Recycle detaches the parent's FileBlock.
LEMMA RecycleFbOwned ==
    ASSUME TypeOK, LocalsSet, HandlesOwned, NEW t \in Threads, NEW good \in BOOLEAN,
           RecycleFb(t, good)
    PROVE  HandlesOwned'
<1> DEFINE r == [loc[t] EXCEPT !.fb = None]
<1>1. Moved(t, "recycle_meta", r)
    BY DEF RecycleFb, Goto, Moved, TypeOK, Loc
<1>2. r.name = loc[t].name /\ r.fh = loc[t].fh /\ r.new = loc[t].new
    BY DEF TypeOK, Loc
<1>3. /\ pc[t] = "recycle_fb" /\ pc[t] \in Detached
      /\ UNCHANGED <<status, free_fhs, created_files>>
    BY DEF RecycleFb, At, Detached
<1>4. loc[t].fh \in Fhs
    BY <1>3 DEF LocalsSet, Fit
<1>5. item'[loc[t].fh] = None /\ \A f \in Fhs : f # loc[t].fh => item'[f] = item[f]
    BY <1>4 DEF RecycleFb, TypeOK
<1> HIDE DEF r
<1>6. QED
    BY <1>1, <1>2, <1>3, <1>5, KeptOwned

\* The child is persisted and the shrink returns.
LEMMA RecycleChildOwned ==
    ASSUME TypeOK, LocalsSet, HandlesOwned, NEW t \in Threads, NEW good \in BOOLEAN,
           RecycleChild(t, good)
    PROVE  HandlesOwned'
BY ReturnMoved, KeptOwned DEF RecycleChild, At, Detached

-----------------------------------------------------------------------------
(* Steps that take a handle *)

\* The handle at the head of the list is nobody's.
LEMMA HeadFree ==
    ASSUME TypeOK, HandlesOwned, free_fhs # <<>>
    PROVE  /\ IsInjective(Tail(free_fhs)) /\ Head(free_fhs) \in Fhs
           /\ Head(free_fhs) # None /\ item[Head(free_fhs)] = None
           /\ \A n \in Names : created_files[n] # Head(free_fhs)
           /\ \A u \in Threads : loc[u].fh # Head(free_fhs) /\ loc[u].new # Head(free_fhs)
           /\ Range(Tail(free_fhs)) \subseteq Range(free_fhs) \ {Head(free_fhs)}
<1>1. /\ IsInjective(Tail(free_fhs)) /\ Head(free_fhs) \in Range(free_fhs)
      /\ Range(Tail(free_fhs)) \subseteq Range(free_fhs) \ {Head(free_fhs)}
    BY InjectiveTail DEF TypeOK, HandlesOwned, FreeFhsSound
<1>2. QED
    BY <1>1, FreeAreHandles DEF HandlesOwned, FreeFhsSound

\* A file that no thread is working on is in no thread's hands, and has no
\* other name.
LEMMA SettledFree ==
    ASSUME TypeOK, HandlesOwned, NEW n \in Names, Free(n), created_files[n] # None
    PROVE  /\ created_files[n] \in Fhs
           /\ created_files[n] \notin Range(free_fhs)
           /\ \A u \in Threads : loc[u].fh # created_files[n] /\ loc[u].new # created_files[n]
           /\ \A m \in Names : created_files[m] = created_files[n] => m = n
<1>1. created_files[n] \in Fhs
    BY DEF TypeOK
<1>2. created_files[n] \notin Range(free_fhs)
    BY DEF HandlesOwned, FreeFhsSound
<1>3. ASSUME NEW u \in Threads
      PROVE  loc[u].fh # created_files[n] /\ loc[u].new # created_files[n]
    BY DEF HandlesOwned, NamedOnce, Held, Free
<1>4. QED
    BY <1>1, <1>2, <1>3 DEF HandlesOwned, NamedOnce

\* An idle thread starts on a name that no other works on, with handles that
\* no other has and that have no other name, taken out of the free list.
LEMMA StartOwned ==
    ASSUME TypeOK, LocalsSet, HandlesOwned, NEW t \in Threads, NEW l, NEW r,
           Moved(t, l, r), status = "up", pc[t] = "idle",
           l \notin Detached \cup {"idle"},
           r.name \in Names, Free(r.name),
           r.fh # None, r.fh # r.new,
           \A u \in Threads : {r.fh, r.new} \cap Held(u) = {},
           \A m \in Names : created_files[m] \in {r.fh, r.new} \ {None} => m = r.name,
           IsInjective(free_fhs'), Range(free_fhs') \subseteq Range(free_fhs) \ {r.fh, r.new},
           UNCHANGED <<status, created_files, item>>
    PROVE  HandlesOwned'
<1>1. /\ pc'[t] = l /\ loc'[t] = r
      /\ \A u \in Threads : u # t => pc'[u] = pc[u] /\ loc'[u] = loc[u]
    BY OthersKept
<1>2. IdleHoldsNothing'
    BY <1>1 DEF HandlesOwned, IdleHoldsNothing
<1>3. /\ Held(t)' = {r.fh, r.new} \ {None}
      /\ \A u \in Threads : u # t => Held(u)' = Held(u)
    BY <1>1 DEF Held
<1>4. HeldApart'
    <2> SUFFICES ASSUME NEW u \in Threads, NEW v \in Threads, u # v
                 PROVE  /\ Held(u)' \cap Held(v)' = {}
                        /\ loc'[u].name = None \/ loc'[u].name # loc'[v].name
        BY DEF HeldApart
    <2>1. Held(u)' \cap Held(v)' = {}
        BY <1>3 DEF HandlesOwned, HeldApart
    <2>2. loc'[u].name = None \/ loc'[u].name # loc'[v].name
        BY <1>1 DEF HandlesOwned, HeldApart, Free
    <2>3. QED
        BY <2>1, <2>2
<1>5. NewIsNew'
    BY <1>1 DEF HandlesOwned, NewIsNew
<1>6. NamedOnce'
    <2>1. ASSUME NEW u \in Threads, NEW m \in Names, created_files[m] \in Held(u)'
          PROVE  m = loc'[u].name
        BY <1>1, <1>3, <2>1 DEF HandlesOwned, NamedOnce
    <2>2. QED
        BY <2>1 DEF HandlesOwned, NamedOnce
<1>7. OldDetached'
    BY <1>1 DEF HandlesOwned, OldDetached, Detached
<1>8. FreeFhsSound'
    BY <1>1 DEF HandlesOwned, FreeFhsSound
<1>9. QED
    BY <1>2, <1>4, <1>5, <1>6, <1>7, <1>8 DEF HandlesOwned

\* CreateFile claims the head of the list.
LEMMA CreateNewOwned ==
    ASSUME TypeOK, LocalsSet, HandlesOwned, NEW t \in Threads, NEW n \in Names,
           CreateNew(t, n)
    PROVE  HandlesOwned'
<1> DEFINE h == Head(free_fhs)
           r == [loc[t] EXCEPT !.name = n, !.fh = h]
<1>1. /\ pc[t] = "idle" /\ loc[t] = NoLoc /\ status = "up" /\ Free(n)
      /\ free_fhs # <<>> /\ free_fhs' = Tail(free_fhs)
      /\ UNCHANGED <<status, created_files, item>>
    BY DEF CreateNew, Start, HandlesOwned, IdleHoldsNothing
<1>2. Moved(t, "create_write", r)
    BY DEF CreateNew, Goto, Moved, TypeOK, Loc
<1>3. r.name = n /\ r.fh = h /\ r.new = None
    BY <1>1 DEF NoLoc
<1>4. /\ IsInjective(Tail(free_fhs)) /\ h \in Fhs /\ h # None
      /\ \A m \in Names : created_files[m] # h
      /\ \A u \in Threads : loc[u].fh # h /\ loc[u].new # h
      /\ Range(Tail(free_fhs)) \subseteq Range(free_fhs) \ {h}
    BY <1>1, HeadFree
<1>5. None \notin Range(free_fhs)
    BY FreeAreHandles
<1> HIDE DEF r, h
<1>6. \A u \in Threads : {r.fh, r.new} \cap Held(u) = {}
    BY <1>3, <1>4 DEF Held
<1>7. Range(free_fhs') \subseteq Range(free_fhs) \ {r.fh, r.new}
    BY <1>1, <1>3, <1>4, <1>5
<1>8. QED
    BY <1>1, <1>2, <1>3, <1>4, <1>6, <1>7, StartOwned DEF Detached

\* ExtendFile starts on a settled file.
LEMMA ExtendStartOwned ==
    ASSUME TypeOK, LocalsSet, HandlesOwned, NEW t \in Threads, NEW n \in Names,
           NEW off \in Offsets, ExtendStart(t, n, off)
    PROVE  HandlesOwned'
<1> DEFINE f == created_files[n]
<1>1. /\ pc[t] = "idle" /\ loc[t] = NoLoc /\ status = "up" /\ Free(n) /\ f # None
      /\ UNCHANGED <<status, free_fhs, created_files, item>>
    BY DEF ExtendStart, Start, HandlesOwned, IdleHoldsNothing
<1>2. PICK r : /\ Moved(t, "extend_blocks", r)
               /\ r.name = n /\ r.fh = f /\ r.new = loc[t].new
    <2>1. CASE loc' = [loc EXCEPT ![t].name = n, ![t].fh = f, ![t].off = off,
                                  ![t].fb = Head(free_fbhs), ![t].new_fb = TRUE]
        <3> DEFINE r == [loc[t] EXCEPT !.name = n, !.fh = f, !.off = off,
                                       !.fb = Head(free_fbhs), !.new_fb = TRUE]
        <3>1. Moved(t, "extend_blocks", r)
            BY <2>1 DEF ExtendStart, Goto, Moved, TypeOK, Loc
        <3>2. r.name = n /\ r.fh = f /\ r.new = loc[t].new
            BY DEF TypeOK, Loc
        <3> HIDE DEF r
        <3>3. QED
            BY <3>1, <3>2
    <2>2. CASE loc' = [loc EXCEPT ![t].name = n, ![t].fh = f, ![t].off = off,
                                  ![t].fb = item[f]]
        <3> DEFINE r == [loc[t] EXCEPT !.name = n, !.fh = f, !.off = off, !.fb = item[f]]
        <3>1. Moved(t, "extend_blocks", r)
            BY <2>2 DEF ExtendStart, Goto, Moved, TypeOK, Loc
        <3>2. r.name = n /\ r.fh = f /\ r.new = loc[t].new
            BY DEF TypeOK, Loc
        <3> HIDE DEF r
        <3>3. QED
            BY <3>1, <3>2
    <2>3. QED
        BY <2>1, <2>2 DEF ExtendStart
<1>3. r.new = None
    BY <1>1, <1>2 DEF NoLoc
<1>4. /\ f \in Fhs /\ f \notin Range(free_fhs)
      /\ \A u \in Threads : loc[u].fh # f /\ loc[u].new # f
      /\ \A m \in Names : created_files[m] = f => m = n
    BY <1>1, SettledFree
<1>5. None \notin Range(free_fhs)
    BY FreeAreHandles
<1> HIDE DEF f
<1>6. \A u \in Threads : {r.fh, r.new} \cap Held(u) = {}
    BY <1>2, <1>3, <1>4 DEF Held
<1>7. IsInjective(free_fhs') /\ Range(free_fhs') \subseteq Range(free_fhs) \ {r.fh, r.new}
    BY <1>1, <1>2, <1>3, <1>4, <1>5 DEF HandlesOwned, FreeFhsSound
<1>8. QED
    BY <1>1, <1>2, <1>3, <1>4, <1>6, <1>7, StartOwned DEF Detached

\* unlink starts on a settled file.
LEMMA UnlinkStartOwned ==
    ASSUME TypeOK, LocalsSet, HandlesOwned, NEW t \in Threads, NEW n \in Names,
           UnlinkStart(t, n)
    PROVE  HandlesOwned'
<1> DEFINE f == created_files[n]
           r == [loc[t] EXCEPT !.name = n, !.fh = f, !.fb = item[f]]
<1>1. /\ pc[t] = "idle" /\ loc[t] = NoLoc /\ status = "up" /\ Free(n) /\ f # None
      /\ UNCHANGED <<status, free_fhs, created_files, item>>
    BY DEF UnlinkStart, Start, HandlesOwned, IdleHoldsNothing
<1>2. Moved(t, "unlink_meta", r) \/ Moved(t, "unlink_fb", r)
    BY DEF UnlinkStart, Goto, Moved, TypeOK, Loc
<1>3. r.name = n /\ r.fh = f /\ r.new = None
    BY <1>1 DEF NoLoc
<1>4. /\ f \in Fhs /\ f \notin Range(free_fhs)
      /\ \A u \in Threads : loc[u].fh # f /\ loc[u].new # f
      /\ \A m \in Names : created_files[m] = f => m = n
    BY <1>1, SettledFree
<1>5. None \notin Range(free_fhs)
    BY FreeAreHandles
<1> HIDE DEF f, r
<1>6. \A u \in Threads : {r.fh, r.new} \cap Held(u) = {}
    BY <1>3, <1>4 DEF Held
<1>7. IsInjective(free_fhs') /\ Range(free_fhs') \subseteq Range(free_fhs) \ {r.fh, r.new}
    BY <1>1, <1>3, <1>4, <1>5 DEF HandlesOwned, FreeFhsSound
<1>8. QED
    BY <1>1, <1>2, <1>3, <1>4, <1>6, <1>7, StartOwned DEF Detached

\* ShrinkFile starts on a settled file and claims the head of the list.
LEMMA ShrinkStartOwned ==
    ASSUME TypeOK, LocalsSet, HandlesOwned, NEW t \in Threads, NEW n \in Names,
           NEW off \in Offsets, ShrinkStart(t, n, off)
    PROVE  HandlesOwned'
<1> DEFINE f == created_files[n]
           h == Head(free_fhs)
           r == [loc[t] EXCEPT !.name = n, !.fh = f, !.new = h, !.off = off]
<1>1. /\ pc[t] = "idle" /\ loc[t] = NoLoc /\ status = "up" /\ Free(n) /\ f # None
      /\ free_fhs # <<>> /\ free_fhs' = Tail(free_fhs)
      /\ UNCHANGED <<status, created_files, item>>
    BY DEF ShrinkStart, Start, HandlesOwned, IdleHoldsNothing
<1>2. Moved(t, "shrink_fb", r)
    BY DEF ShrinkStart, Goto, Moved, TypeOK, Loc
<1>3. r.name = n /\ r.fh = f /\ r.new = h
    BY <1>1 DEF NoLoc
<1>4. /\ IsInjective(Tail(free_fhs)) /\ h \in Fhs /\ h # None
      /\ \A m \in Names : created_files[m] # h
      /\ \A u \in Threads : loc[u].fh # h /\ loc[u].new # h
      /\ Range(Tail(free_fhs)) \subseteq Range(free_fhs) \ {h}
    BY <1>1, HeadFree
<1>5. /\ f \in Fhs /\ f \notin Range(free_fhs)
      /\ \A u \in Threads : loc[u].fh # f /\ loc[u].new # f
      /\ \A m \in Names : created_files[m] = f => m = n
    BY <1>1, SettledFree
<1>6. f # h
    BY <1>4
<1> HIDE DEF f, h, r
<1>7. \A u \in Threads : {r.fh, r.new} \cap Held(u) = {}
    BY <1>3, <1>4, <1>5 DEF Held
<1>8. Range(free_fhs') \subseteq Range(free_fhs) \ {r.fh, r.new}
    BY <1>1, <1>3, <1>4, <1>5
<1>9. QED
    BY <1>1, <1>2, <1>3, <1>4, <1>5, <1>6, <1>7, <1>8, StartOwned DEF Detached

-----------------------------------------------------------------------------
(* Steps that change the names *)

\* A thread that goes on, or returns, after it gave its own name to none or to
\* one of its own handles.
LEMMA NamedOwned ==
    ASSUME TypeOK, LocalsSet, HandlesOwned, NEW t \in Threads, NEW l, NEW r,
           NEW f \in Held(t) \cup {None},
           Moved(t, l, r), pc[t] # "idle",
           \/ l # "idle" /\ r.name = loc[t].name /\ r.fh = loc[t].fh /\ r.new = loc[t].new
           \/ l = "idle" /\ r = NoLoc,
           UNCHANGED <<status, free_fhs>>,
           created_files' = [created_files EXCEPT ![loc[t].name] = f],
           \A g \in Fhs : g # loc[t].new => item'[g] = item[g],
           l \in Detached => f # loc[t].fh, l # "recycle_meta"
    PROVE  HandlesOwned'
<1> DEFINE n == loc[t].name
<1>1. /\ pc'[t] = l /\ loc'[t] = r
      /\ \A u \in Threads : u # t => pc'[u] = pc[u] /\ loc'[u] = loc[u]
    BY OthersKept
<1>2. n \in Names /\ created_files'[n] = f
      /\ \A m \in Names : m # n => created_files'[m] = created_files[m]
    BY DEF LocalsSet, Fit, TypeOK
<1>3. \A u \in Threads :
        \/ /\ loc'[u].name = loc[u].name /\ loc'[u].fh = loc[u].fh
           /\ loc'[u].new = loc[u].new
        \/ loc'[u].name = None /\ loc'[u].fh = None /\ loc'[u].new = None
    BY <1>1 DEF NoLoc
<1>4. \A u \in Threads : Held(u)' \subseteq Held(u)
    BY <1>3 DEF Held
<1>5. IdleHoldsNothing'
    BY <1>1 DEF HandlesOwned, IdleHoldsNothing
<1>6. HeldApart'
    BY <1>3, <1>4 DEF HandlesOwned, HeldApart
<1>7. NewIsNew'
    BY <1>3 DEF HandlesOwned, NewIsNew
<1>8. NamedOnce'
    <2>1. ASSUME NEW m \in Names, NEW k \in Names,
                 created_files'[m] # None, created_files'[m] = created_files'[k]
          PROVE  m = k
        <3>1. CASE m # n /\ k # n
            BY <1>2, <2>1, <3>1 DEF HandlesOwned, NamedOnce
        <3>2. CASE (m = n \/ k = n) /\ m # k
            <4>1. PICK j \in Names : j # n /\ created_files[j] = f
                BY <1>2, <2>1, <3>2
            <4>2. f \in Held(t)
                BY <1>2, <2>1, <3>2
            <4>3. QED
                BY <4>1, <4>2 DEF HandlesOwned, NamedOnce
        <3>3. QED
            BY <3>1, <3>2
    <2>2. ASSUME NEW u \in Threads, NEW m \in Names, created_files'[m] \in Held(u)'
          PROVE  m = loc'[u].name
        <3>1. created_files'[m] \in Held(u) /\ Held(u)' # {}
            BY <1>4, <2>2
        <3>2. loc'[u].name = loc[u].name
            BY <1>3, <3>1 DEF Held
        <3>3. CASE m # n
            BY <1>2, <3>1, <3>2, <3>3 DEF HandlesOwned, NamedOnce
        <3>4. CASE m = n
            <4>1. f \in Held(u)
                BY <1>2, <3>1, <3>4
            <4>2. f \in Held(t)
                BY <4>1 DEF Held
            <4>3. u = t
                BY <4>1, <4>2 DEF HandlesOwned, HeldApart
            <4>4. QED
                BY <3>2, <3>4, <4>3
        <3>5. QED
            BY <3>3, <3>4
    <2>3. QED
        BY <2>1, <2>2 DEF NamedOnce
<1>9. OldDetached'
    <2>1. ASSUME NEW u \in Threads
          PROVE  /\ pc'[u] \in Detached => created_files'[loc'[u].name] # loc'[u].fh
                 /\ pc'[u] = "recycle_meta" => item'[loc'[u].fh] = None
        <3>1. CASE u = t
            BY <1>1, <1>2, <3>1 DEF Detached
        <3>2. CASE u # t
            <4>1. pc'[u] = pc[u] /\ loc'[u] = loc[u]
                BY <1>1, <3>2
            <4>2. ASSUME pc[u] \in Detached
                  PROVE  created_files'[loc[u].name] # loc[u].fh
                <5>1. loc[u].name \in Names
                    BY <4>2 DEF LocalsSet, Fit, Detached
                <5>2. loc[u].name # n
                    BY <3>2, <5>1, StoreAssumption DEF HandlesOwned, HeldApart
                <5>3. QED
                    BY <1>2, <4>2, <5>1, <5>2 DEF HandlesOwned, OldDetached
            <4>3. ASSUME pc[u] = "recycle_meta"
                  PROVE  item'[loc[u].fh] = None
                <5>1. loc[u].fh \in Fhs
                    BY <4>3 DEF LocalsSet, Fit
                <5>2. loc[u].fh # loc[t].new
                    BY <3>2, <5>1, HandleNotNone DEF HandlesOwned, HeldApart, Held
                <5>3. QED
                    BY <4>3, <5>1, <5>2 DEF HandlesOwned, OldDetached
            <4>4. QED
                BY <4>1, <4>2, <4>3
        <3>3. QED
            BY <3>1, <3>2
    <2>2. QED
        BY <2>1 DEF OldDetached
<1>10. FreeFhsSound'
    <2>1. ASSUME NEW g \in Range(free_fhs)
          PROVE  /\ item'[g] = None
                 /\ \A m \in Names : created_files'[m] # g
                 /\ \A u \in Threads : loc'[u].fh # g /\ loc'[u].new # g
        <3>1. g \in Fhs /\ g # None
            BY FreeAreHandles
        <3>2. g # loc[t].fh /\ g # loc[t].new /\ item[g] = None
            BY DEF HandlesOwned, FreeFhsSound
        <3>3. g # f
            BY <3>1, <3>2 DEF Held
        <3>4. \A m \in Names : created_files'[m] # g
            BY <1>2, <3>3 DEF HandlesOwned, FreeFhsSound
        <3>5. QED
            BY <1>3, <3>1, <3>2, <3>4 DEF HandlesOwned, FreeFhsSound
    <2>2. QED
        BY <2>1 DEF HandlesOwned, FreeFhsSound
<1>11. QED
    BY <1>5, <1>6, <1>7, <1>8, <1>9, <1>10 DEF HandlesOwned

\* AddFileToDirectory at the end of a create.
LEMMA CreateAddOwned ==
    ASSUME TypeOK, LocalsSet, HandlesOwned, NEW t \in Threads, CreateAdd(t)
    PROVE  HandlesOwned'
<1>1. pc[t] = "create_add" /\ Moved(t, "idle", NoLoc)
    BY ReturnMoved DEF CreateAdd, At
<1>2. loc[t].fh \in Held(t) \cup {None}
    BY DEF Held
<1>3. QED
    BY <1>1, <1>2, NamedOwned DEF CreateAdd, Detached

\* RemoveFileFromoDirectory at the end of an unlink.
LEMMA UnlinkNamesOwned ==
    ASSUME TypeOK, LocalsSet, HandlesOwned, NEW t \in Threads, UnlinkNames(t)
    PROVE  HandlesOwned'
<1>1. pc[t] = "unlink_names" /\ Moved(t, "idle", NoLoc)
    BY ReturnMoved DEF UnlinkNames, At
<1>2. QED
    BY <1>1, NamedOwned DEF UnlinkNames, Detached

\* ShrinkFile takes the old file out of the maps.
LEMMA ShrinkDetachOwned ==
    ASSUME TypeOK, LocalsSet, HandlesOwned, NEW t \in Threads, ShrinkDetach(t)
    PROVE  HandlesOwned'
<1>1. pc[t] = "shrink_detach" /\ Moved(t, "shrink_attach", loc[t])
    BY DEF ShrinkDetach, At, Goto, Moved, TypeOK
<1>2. loc[t].fh # None
    BY <1>1, HandleNotNone DEF LocalsSet, Fit
<1>3. QED
    BY <1>1, <1>2, NamedOwned DEF ShrinkDetach

\* ShrinkFile enters the new file, with its FileBlock, under the name.
LEMMA ShrinkAttachOwned ==
    ASSUME TypeOK, LocalsSet, HandlesOwned, NEW t \in Threads, ShrinkAttach(t)
    PROVE  HandlesOwned'
<1>1. pc[t] = "shrink_attach" /\ Moved(t, "shrink_write", loc[t])
    BY DEF ShrinkAttach, At, Goto, Moved, TypeOK
<1>2. loc[t].fh # None /\ loc[t].fh # loc[t].new
    BY <1>1, HandleNotNone DEF LocalsSet, Fit, HandlesOwned, NewIsNew
<1>3. loc[t].new \in Held(t) \cup {None}
    BY DEF Held
<1>4. \A g \in Fhs : g # loc[t].new => item'[g] = item[g]
    BY DEF ShrinkAttach, TypeOK
<1>5. QED
    BY <1>1, <1>2, <1>3, <1>4, NamedOwned DEF ShrinkAttach

\* rename of a settled file moves it to a name that is free.
LEMMA RenameFileOwned ==
    ASSUME TypeOK, LocalsSet, HandlesOwned, NEW t \in Threads, NEW n \in Names,
           NEW m \in Names, NEW good \in BOOLEAN, RenameFile(t, n, m, good)
    PROVE  HandlesOwned'
<1> DEFINE f == created_files[n]
<1>1. /\ Free(n) /\ Free(m) /\ f # None /\ created_files[m] = None /\ n # m
      /\ UNCHANGED <<status, free_fhs, item, pc, loc>>
    BY DEF RenameFile
<1>2. /\ f \in Fhs /\ f \notin Range(free_fhs)
      /\ \A u \in Threads : loc[u].fh # f /\ loc[u].new # f
      /\ \A k \in Names : created_files[k] = f => k = n
    BY <1>1, SettledFree
<1>3. /\ created_files'[n] = None /\ created_files'[m] = f
      /\ \A k \in Names : k # n /\ k # m => created_files'[k] = created_files[k]
    BY <1>1 DEF RenameFile, TypeOK
<1> HIDE DEF f
<1>4. IdleHoldsNothing' /\ HeldApart' /\ NewIsNew'
    BY <1>1 DEF HandlesOwned, IdleHoldsNothing, HeldApart, NewIsNew, Held
<1>5. NamedOnce'
    <2>1. ASSUME NEW j \in Names, NEW k \in Names,
                 created_files'[j] # None, created_files'[j] = created_files'[k]
          PROVE  j = k
        BY <1>2, <1>3, <2>1 DEF HandlesOwned, NamedOnce
    <2>2. ASSUME NEW u \in Threads, NEW k \in Names, created_files'[k] \in Held(u)
          PROVE  k = loc[u].name
        <3>1. k # n /\ k # m
            BY <1>2, <1>3, <2>2 DEF Held
        <3>2. QED
            BY <1>3, <2>2, <3>1 DEF HandlesOwned, NamedOnce
    <2>3. QED
        BY <1>1, <2>1, <2>2 DEF NamedOnce, Held
<1>6. OldDetached'
    <2>1. ASSUME NEW u \in Threads, pc[u] \in Detached
          PROVE  created_files'[loc[u].name] # loc[u].fh
        <3>1. loc[u].name \in Names /\ loc[u].name # n /\ loc[u].name # m
            BY <1>1, <2>1 DEF LocalsSet, Fit, Detached, Free
        <3>2. QED
            BY <1>3, <2>1, <3>1 DEF HandlesOwned, OldDetached
    <2>2. QED
        BY <1>1, <2>1 DEF HandlesOwned, OldDetached
<1>7. FreeFhsSound'
    <2>1. ASSUME NEW g \in Range(free_fhs), NEW k \in Names
          PROVE  created_files'[k] # g
        <3>1. g # None
            BY FreeAreHandles
        <3>2. QED
            BY <1>2, <1>3, <3>1 DEF HandlesOwned, FreeFhsSound
    <2>2. QED
        BY <1>1, <2>1 DEF HandlesOwned, FreeFhsSound
<1>8. QED
    BY <1>4, <1>5, <1>6, <1>7 DEF HandlesOwned

-----------------------------------------------------------------------------
(* The step that gives a handle back, and the steps of the whole process *)

\* The old meta of a shrink goes back into the list: it has no FileBlock, no
\* name and no other thread any more.
LEMMA RecycleMetaOwned ==
    ASSUME TypeOK, LocalsSet, HandlesOwned, NEW t \in Threads, NEW good \in BOOLEAN,
           RecycleMeta(t, good)
    PROVE  HandlesOwned'
<1> DEFINE f == loc[t].fh
           r == [loc[t] EXCEPT !.fh = None]
<1>1. pc[t] = "recycle_meta" /\ UNCHANGED <<status, created_files, item>>
    BY DEF RecycleMeta, At
<1>2. f \in Fhs /\ f # None /\ loc[t].name \in Names
    BY <1>1, HandleNotNone DEF LocalsSet, Fit
<1>3. CASE ~good
    BY <1>1, <1>3, ReturnMoved, KeptOwned DEF RecycleMeta, Detached
<1>4. CASE good
    <2>1. Moved(t, "recycle_child", r) /\ free_fhs' = Append(free_fhs, f)
        BY <1>4 DEF RecycleMeta, Recycled, Goto, Moved, TypeOK, Loc
    <2>2. r.name = loc[t].name /\ r.fh = None /\ r.new = loc[t].new
        BY DEF TypeOK, Loc
    <2> HIDE DEF r
    <2>3. /\ pc'[t] = "recycle_child" /\ loc'[t] = r
          /\ \A u \in Threads : u # t => pc'[u] = pc[u] /\ loc'[u] = loc[u]
        BY <2>1, OthersKept
    <2>4. /\ f \notin Range(free_fhs) /\ item[f] = None /\ f # loc[t].new
          /\ \A n \in Names : created_files[n] # f
          /\ \A u \in Threads : u # t => loc[u].fh # f /\ loc[u].new # f
        <3>1. f \notin Range(free_fhs)
            BY DEF HandlesOwned, FreeFhsSound
        <3>2. item[f] = None /\ f # loc[t].new
            BY <1>1, <1>2 DEF HandlesOwned, OldDetached, NewIsNew
        <3>3. ASSUME NEW n \in Names, created_files[n] = f
              PROVE  FALSE
            <4>1. n = loc[t].name
                BY <1>2, <3>3 DEF HandlesOwned, NamedOnce, Held
            <4>2. QED
                BY <1>1, <3>3, <4>1 DEF HandlesOwned, OldDetached, Detached
        <3>4. \A u \in Threads : u # t => loc[u].fh # f /\ loc[u].new # f
            BY <1>2 DEF HandlesOwned, HeldApart, Held
        <3>5. QED
            BY <3>1, <3>2, <3>3, <3>4
    <2>5. IsInjective(free_fhs') /\ Range(free_fhs') = Range(free_fhs) \cup {f}
        BY <1>2, <2>1, <2>4, InjectiveAppend DEF TypeOK, HandlesOwned, FreeFhsSound
    <2> HIDE DEF f
    <2>6. \A u \in Threads : Held(u)' \subseteq Held(u) /\ loc'[u].name = loc[u].name
        BY <2>2, <2>3 DEF Held
    <2>7. IdleHoldsNothing'
        BY <1>1, <2>3 DEF HandlesOwned, IdleHoldsNothing
    <2>8. HeldApart'
        BY <2>6 DEF HandlesOwned, HeldApart
    <2>9. NewIsNew'
        BY <2>2, <2>3 DEF HandlesOwned, NewIsNew
    <2>10. NamedOnce'
        BY <1>1, <2>6 DEF HandlesOwned, NamedOnce
    <2>11. OldDetached'
        BY <1>1, <2>3 DEF HandlesOwned, OldDetached, Detached
    <2>12. FreeFhsSound'
        <3>1. ASSUME NEW g \in Range(free_fhs')
              PROVE  /\ item[g] = None
                     /\ \A n \in Names : created_files[n] # g
                     /\ \A u \in Threads : loc'[u].fh # g /\ loc'[u].new # g
            <4>1. CASE g = f
                BY <1>2, <2>2, <2>3, <2>4, <4>1
            <4>2. CASE g \in Range(free_fhs)
                <5>1. g # None
                    BY <4>2, FreeAreHandles
                <5>2. QED
                    BY <2>2, <2>3, <4>2, <5>1 DEF HandlesOwned, FreeFhsSound
            <4>3. QED
                BY <2>5, <4>1, <4>2
        <3>2. QED
            BY <1>1, <2>5, <3>1 DEF FreeFhsSound
    <2>13. QED
        BY <2>7, <2>8, <2>9, <2>10, <2>11, <2>12 DEF HandlesOwned
<1>5. QED
    BY <1>3, <1>4

\* Without threads at work and without names, ownership says only that the
\* list is sound.
LEMMA NothingHeld ==
    ASSUME \A t \in Threads : pc[t] = "idle" /\ loc[t] = NoLoc,
           \A n, m \in Names :
                created_files[n] # None /\ created_files[n] = created_files[m] => n = m,
           IsInjective(free_fhs), Range(free_fhs) \subseteq Fhs,
           \A f \in Range(free_fhs) :
                item[f] = None /\ \A n \in Names : created_files[n] # f
    PROVE  HandlesOwned
<1>1. \A t \in Threads : loc[t].fh = None /\ loc[t].new = None /\ loc[t].name = None
    BY DEF NoLoc
<1>2. \A t \in Threads : Held(t) = {}
    BY <1>1 DEF Held
<1>3. IdleHoldsNothing /\ OldDetached
    BY DEF IdleHoldsNothing, OldDetached, Detached
<1>4. HeldApart /\ NewIsNew /\ NamedOnce
    BY <1>1, <1>2 DEF HeldApart, NewIsNew, NamedOnce
<1>5. FreeFhsSound
    BY <1>1, HandleNotNone DEF FreeFhsSound
<1>6. QED
    BY <1>3, <1>4, <1>5 DEF HandlesOwned

\* An empty list is sound.
LEMMA EmptyList == IsInjective(<<>>) /\ Range(<<>>) = {}
BY DEF IsInjective, Range

\* The formatted device.
LEMMA InitOwned == Init => HandlesOwned
BY EmptyList, NothingHeld DEF Init

\* The process ends: nobody holds anything and nothing is listed.
LEMMA ProcessEndsOwned ==
    ASSUME ProcessEnds
    PROVE  HandlesOwned'
<1>1. /\ \A t \in Threads : pc'[t] = "idle" /\ loc'[t] = NoLoc
      /\ \A n \in Names : created_files'[n] = None
      /\ free_fhs' = <<>> /\ status' = "down"
    BY DEF ProcessEnds
<1>2. \A t \in Threads : loc'[t].fh = None /\ loc'[t].new = None /\ loc'[t].name = None
    BY <1>1 DEF NoLoc
<1>3. \A t \in Threads : Held(t)' = {}
    BY <1>2 DEF Held
<1>4. IdleHoldsNothing' /\ OldDetached'
    BY <1>1 DEF IdleHoldsNothing, OldDetached, Detached
<1>5. HeldApart' /\ NewIsNew' /\ NamedOnce'
    BY <1>1, <1>2, <1>3 DEF HeldApart, NewIsNew, NamedOnce
<1>6. FreeFhsSound'
    BY <1>1, EmptyList DEF FreeFhsSound
<1>7. QED
    BY <1>4, <1>5, <1>6 DEF HandlesOwned

\* The mount lists the unused metas; a used FileBlock names a used meta, so no
\* unused one has a FileBlock.
LEMMA MountOwned ==
    ASSUME TypeOK, LocalsSet, HandlesOwned, Mount
    PROVE  HandlesOwned'
<1>1. \A t \in Threads : pc'[t] = "idle" /\ loc'[t] = NoLoc
    BY DEF Mount, HandlesOwned, IdleHoldsNothing
<1>2. \A t \in Threads : loc'[t].fh = None /\ loc'[t].new = None /\ loc'[t].name = None
    BY <1>1 DEF NoLoc
<1>3. \A t \in Threads : Held(t)' = {}
    BY <1>2 DEF Held
<1>4. IsInjective(free_fhs') /\ Range(free_fhs') \subseteq Fhs \ UsedFhs
    <2>1. free_fhs' \in Ascending(Fhs \ UsedFhs)
        BY DEF Mount
    <2>2. Fhs \ UsedFhs \in SUBSET Nat /\ Cardinality(Fhs \ UsedFhs) \in Nat
        BY HandlesFinite DEF Fhs
    <2>3. QED
        BY <2>1, <2>2, AscendingInjective
<1>5. \A n \in Names : created_files'[n] = None \/ created_files'[n] \in NamedFhs(n)
    BY DEF Mount, LoadedFile, Last
<1>6. ASSUME NEW n \in Names, NEW m \in Names,
             created_files'[n] # None, created_files'[n] = created_files'[m]
      PROVE  n = m
    BY <1>5, <1>6 DEF NamedFhs
<1>7. ASSUME NEW f \in Range(free_fhs')
      PROVE  item'[f] = None
    <2>1. f \in Fhs /\ f \notin UsedFhs
        BY <1>4
    <2>2. {b \in UsedFbs : disk_fbmeta[b].fh = f} = {}
        BY <2>1 DEF Mount, MountOk, FbsHaveFiles
    <2>3. QED
        BY <2>1, <2>2 DEF Mount, LoadedFb, First
<1>8. IdleHoldsNothing' /\ OldDetached'
    BY <1>1 DEF IdleHoldsNothing, OldDetached, Detached
<1>9. HeldApart' /\ NewIsNew' /\ NamedOnce'
    BY <1>2, <1>3, <1>6 DEF HeldApart, NewIsNew, NamedOnce
<1>10. FreeFhsSound'
    <2>1. ASSUME NEW f \in Range(free_fhs'), NEW n \in Names
          PROVE  created_files'[n] # f
        <3>1. f \notin UsedFhs /\ f # None
            BY <1>4, HandleNotNone
        <3>2. QED
            BY <1>5, <3>1 DEF NamedFhs
    <2>2. \A f \in Range(free_fhs') : f # None
        BY <1>4, HandleNotNone
    <2>3. QED
        BY <1>2, <1>4, <1>7, <2>1, <2>2 DEF FreeFhsSound
<1>11. QED
    BY <1>8, <1>9, <1>10 DEF HandlesOwned

-----------------------------------------------------------------------------
(* The theorem *)

\* Every step of the system keeps the ownership of the handles.
LEMMA NextOwned ==
    ASSUME TypeOK, LocalsSet, HandlesOwned, [Next]_vars
    PROVE  HandlesOwned'
<1>1. CASE Mount
    BY <1>1, MountOwned
<1>2. CASE Crash
    BY <1>2, ProcessEndsOwned DEF Crash
<1>3. ASSUME NEW t \in Threads, Begin(t)
      PROVE  HandlesOwned'
    BY <1>3, CreateNewOwned, UnlinkStartOwned, ExtendStartOwned, ShrinkStartOwned,
       RenameFileOwned DEF Begin
<1>4. ASSUME NEW t \in Threads, Continue(t)
      PROVE  HandlesOwned'
    <2>1. CASE \/ CreateAdd(t) \/ ExtendBlocks(t) \/ UnlinkNames(t)
               \/ ShrinkFb(t) \/ ShrinkDetach(t) \/ ShrinkAttach(t) \/ RecycleBlocks(t)
        BY <2>1, CreateAddOwned, ExtendBlocksOwned, UnlinkNamesOwned, ShrinkFbOwned,
           ShrinkDetachOwned, ShrinkAttachOwned, RecycleBlocksOwned
    <2>2. CASE ShrinkFault(t)
        BY <2>2, ProcessEndsOwned DEF ShrinkFault
    <2>3. CASE ShrinkWrite(t) \/ ShrinkWriteOld(t)
        BY <2>3, ShrinkWritesOwned
    <2>4. ASSUME NEW good \in BOOLEAN,
                 \/ CreateWrite(t, good) \/ ExtendFb(t, good) \/ ExtendSize(t, good)
                 \/ UnlinkFb(t, good) \/ UnlinkMeta(t, good) \/ ShrinkCopy(t, good)
                 \/ ShrinkLand(t, good) \/ ShrinkWriteFb(t, good)
                 \/ ShrinkLandOld(t, good) \/ RecycleFb(t, good)
                 \/ RecycleMeta(t, good) \/ RecycleChild(t, good)
          PROVE  HandlesOwned'
        BY <2>4, CreateWriteOwned, ExtendFbOwned, ExtendSizeOwned, UnlinkFbOwned,
           UnlinkMetaOwned, ShrinkCopyOwned, ShrinkWritesOwned, ShrinkWriteFbOwned,
           RecycleFbOwned, RecycleMetaOwned, RecycleChildOwned
    <2>5. QED
        BY <1>4, <2>1, <2>2, <2>3, <2>4 DEF Continue
<1>5. CASE UNCHANGED vars
    <2>1. UNCHANGED <<status, free_fhs, created_files, item, pc, loc>>
        BY <1>5 DEF vars, memory
    <2>2. QED
        BY <2>1 DEF HandlesOwned, IdleHoldsNothing, HeldApart, NewIsNew, NamedOnce,
                    OldDetached, FreeFhsSound, Held
<1>6. QED
    BY <1>1, <1>2, <1>3, <1>4, <1>5 DEF Next

\* NewFile and NewFreeFileMeta never hand out a file handle that a file, a
\* FileBlock or another thread still has, and no handle is listed twice,
\* whatever the interleaving of creates, truncates, renames and unlinks, with
\* any number of failed writes, crashes and mounts.
THEOREM FreeFhsAreFree == Spec => []FreeFhsSound
<1>1. Init => HandlesOwned
    BY InitOwned
<1>2. TypeOK /\ LocalsSet /\ HandlesOwned /\ [Next]_vars => HandlesOwned'
    BY NextOwned
<1>3. HandlesOwned => FreeFhsSound
    BY DEF HandlesOwned
<1>4. QED
    BY <1>1, <1>2, <1>3, TypeCorrect, PTL DEF Spec

-----------------------------------------------------------------------------
(* The metas in the free list pass the check of NewFreeFileNolock *)

\* What TypeCorrect and FreeFhsAreFree have shown.
HandlesKnown == TypeOK /\ LocalsSet /\ HandlesOwned

\* A meta that is not used has no size, in memory, on the device and in the page that
\* a thread is about to write.
Sized(m) == m.used \/ m.size = 0
TablesSized == \A f \in Fhs : Sized(fmeta[f]) /\ Sized(disk_fmeta[f])
PagesSized == \A t \in Threads, f \in Fhs : Sized(loc[t].page[f])

FreeUnused == \A f \in Range(free_fhs) : ~fmeta[f].used

\* The places where a thread's file is cleared, or where it has none.
Cleared == {"idle", "unlink_names", "recycle_child"}

\* The metas of a thread at label l with locals r are used.
UsedAt(l, r) ==
    /\ l \notin Cleared => fmeta[r.fh].used
    /\ r.new # None => fmeta[r.new].used
HeldUsed == \A t \in Threads : UsedAt(pc[t], loc[t])

\* A named file is used, until unlink is about to take its name away.
NamedUsed ==
    \A n \in Names : created_files[n] # None =>
        \/ fmeta[created_files[n]].used
        \/ \E t \in Threads : pc[t] = "unlink_names" /\ loc[t].fh = created_files[n]

MetasUsed == TablesSized /\ PagesSized /\ FreeUnused /\ HeldUsed /\ NamedUsed

\* Thread t goes on to label l with locals r; it changes no meta's use but that of its
\* own, and lists and names only what it has.
LEMMA MetaStep ==
    ASSUME HandlesKnown, HandlesKnown', MetasUsed, NEW t \in Threads, NEW l, NEW r,
           Moved(t, l, r), TablesSized', \A f \in Fhs : Sized(r.page[f]), UsedAt(l, r)',
           \A f \in Fhs : f \notin Held(t) \cup Held(t)' => fmeta'[f].used = fmeta[f].used,
           \A f \in Range(free_fhs') : f \in Range(free_fhs) \/ ~fmeta'[f].used,
           \A n \in Names : created_files'[n] # None =>
                \/ fmeta'[created_files'[n]].used
                \/ l = "unlink_names" /\ r.fh = created_files'[n]
                \/ /\ created_files'[n] = created_files[n]
                   /\ created_files[n] \notin Held(t) \cup Held(t)'
    PROVE  MetasUsed'
<1>1. /\ pc'[t] = l /\ loc'[t] = r
      /\ \A u \in Threads : u # t => pc'[u] = pc[u] /\ loc'[u] = loc[u]
  BY OthersKept DEF HandlesKnown
<1>2. \A u \in Threads : u # t => Held(u)' = Held(u) BY <1>1 DEF Held
<1>3. \A u \in Threads : u # t => Held(u) \cap Held(t) = {} /\ Held(u) \cap Held(t)' = {}
  BY <1>2 DEF HandlesKnown, HandlesOwned, HeldApart
<1>4. PagesSized'
  <2>1. ASSUME NEW u \in Threads, NEW f \in Fhs PROVE Sized(loc'[u].page[f])
    <3>1. CASE u = t BY <1>1, <3>1
    <3>2. CASE u # t BY <1>1, <3>2 DEF MetasUsed, PagesSized
    <3> QED BY <3>1, <3>2
  <2> QED BY <2>1 DEF PagesSized, Sized
<1>5. FreeUnused'
  <2>1. ASSUME NEW f \in Range(free_fhs'), f \in Range(free_fhs) PROVE ~fmeta'[f].used
    <3>1. f \in Fhs BY <2>1, FreeAreHandles DEF HandlesKnown
    <3>2. f \notin Held(t) \cup Held(t)' BY <2>1 DEF HandlesKnown, HandlesOwned, FreeFhsSound, Held
    <3> QED BY <2>1, <3>1, <3>2 DEF MetasUsed, FreeUnused
  <2> QED BY <2>1 DEF FreeUnused
<1>6. HeldUsed'
  <2>1. ASSUME NEW u \in Threads, u # t PROVE UsedAt(pc[u], loc[u])'
    <3>1. UsedAt(pc[u], loc[u]) BY DEF MetasUsed, HeldUsed
    <3>2. pc[u] \notin Cleared => loc[u].fh \in Fhs
      BY DEF HandlesKnown, LocalsSet, Fit, Cleared
    <3>3. loc[u].new # None => loc[u].new \in Fhs BY DEF HandlesKnown, TypeOK, Loc
    <3>4. pc'[u] = pc[u] /\ loc'[u] = loc[u] BY <1>1, <2>1
    <3>5. \A f \in Fhs : f \in Held(u) => fmeta'[f].used = fmeta[f].used BY <1>3, <2>1
    <3>6. \A f \in Fhs : f \in {loc[u].fh, loc[u].new} => f \in Held(u)
      BY HandleNotNone DEF Held
    <3> QED BY <3>1, <3>2, <3>3, <3>4, <3>5, <3>6 DEF UsedAt
  <2>2. UsedAt(pc[t], loc[t])' BY <1>1 DEF UsedAt
  <2> QED BY <2>1, <2>2 DEF HeldUsed
<1>7. NamedUsed'
  <2>1. ASSUME NEW n \in Names, created_files'[n] # None,
               created_files'[n] = created_files[n],
               created_files[n] \notin Held(t) \cup Held(t)'
        PROVE  \/ fmeta'[created_files'[n]].used
               \/ \E u \in Threads : pc'[u] = "unlink_names" /\ loc'[u].fh = created_files'[n]
    <3>1. created_files[n] \in Fhs BY <2>1 DEF HandlesKnown, TypeOK
    <3>2. CASE fmeta[created_files[n]].used BY <2>1, <3>1, <3>2
    <3>3. ASSUME NEW u \in Threads, pc[u] = "unlink_names", loc[u].fh = created_files[n]
          PROVE  pc'[u] = "unlink_names" /\ loc'[u].fh = created_files'[n]
      BY <1>1, <2>1, <3>3 DEF Held
    <3> QED BY <2>1, <3>2, <3>3 DEF MetasUsed, NamedUsed
  <2> QED BY <1>1, <2>1 DEF NamedUsed
<1> QED BY <1>4, <1>5, <1>6, <1>7 DEF MetasUsed

\* A step that names nothing, lists nothing and changes no meta's use.
LEMMA UseKept ==
    ASSUME HandlesKnown, HandlesKnown', MetasUsed, NEW t \in Threads, NEW l, NEW r,
           Moved(t, l, r), TablesSized', \A f \in Fhs : Sized(r.page[f]), UsedAt(l, r),
           \A f \in Fhs : fmeta'[f].used = fmeta[f].used,
           UNCHANGED <<free_fhs, created_files>>, pc[t] # "unlink_names"
    PROVE  MetasUsed'
<1>1. /\ pc'[t] = l /\ loc'[t] = r
      /\ \A u \in Threads : u # t => pc'[u] = pc[u] /\ loc'[u] = loc[u]
  BY OthersKept DEF HandlesKnown
<1>2. UsedAt(l, r)'
  <2>1. l \notin Cleared => r.fh \in Fhs
    BY <1>1 DEF HandlesKnown, LocalsSet, Fit, Cleared
  <2>2. r.new # None => r.new \in Fhs BY <1>1 DEF HandlesKnown, TypeOK, Loc
  <2> QED BY <2>1, <2>2 DEF UsedAt
<1>3. ASSUME NEW n \in Names, created_files'[n] # None
      PROVE  \/ fmeta'[created_files'[n]].used
             \/ /\ created_files'[n] = created_files[n]
                /\ created_files[n] \notin Held(t) \cup Held(t)'
  <2>1. created_files[n] \in Fhs BY <1>3 DEF HandlesKnown, TypeOK
  <2>2. CASE fmeta[created_files[n]].used BY <2>1, <2>2
  <2>3. ASSUME NEW u \in Threads, pc[u] = "unlink_names", loc[u].fh = created_files[n]
        PROVE  created_files[n] \notin Held(t) \cup Held(t)'
    <3>1. u # t /\ created_files[n] \in Held(u) /\ created_files[n] \in Held(u)'
      BY <1>1, <1>3, <2>3 DEF Held
    <3> QED BY <3>1 DEF HandlesKnown, HandlesOwned, HeldApart
  <2> QED BY <1>3, <2>2, <2>3 DEF MetasUsed, NamedUsed
<1> QED BY <1>2, <1>3, MetaStep

\* A return drops the thread's handles and its page.
LEMMA ReturnUsed ==
    NoLoc.new = None /\ NoLoc.fh = None /\ UsedAt("idle", NoLoc)
        /\ \A f \in Fhs : Sized(NoLoc.page[f])
BY DEF NoLoc, UsedAt, Cleared, NoPage, FreshFile, Sized

\* File::WriteMeta changes only the crc of the content fm it is given, and writes that
\* to the device.
LEMMA WrittenSized ==
    ASSUME TypeOK, TablesSized, NEW fm \in [Fhs -> FileMeta], NEW f \in Fhs,
           WriteMeta(fm, f, TRUE), \A g \in Fhs : Sized(fm[g])
    PROVE  TablesSized' /\ \A g \in Fhs : fmeta'[g].used = fm[g].used
<1>1. \A g \in Fhs : Sealed(fm, f)[g].used = fm[g].used /\ Sealed(fm, f)[g].size = fm[g].size
  BY DEF Sealed, FileMeta
<1>2. \A g \in Fhs : Sized(Sealed(fm, f)[g]) BY <1>1 DEF Sized
<1>3. fmeta' = Sealed(fm, f) /\ disk_fmeta' = PageWritten(Sealed(fm, f), f) BY DEF WriteMeta
<1>4. \A g \in Fhs : disk_fmeta'[g] \in {disk_fmeta[g], Sealed(fm, f)[g]}
  BY <1>3 DEF PageWritten
<1> QED BY <1>1, <1>2, <1>3, <1>4 DEF TablesSized

\* A file that no thread works on is used.
LEMMA SettledUsed ==
    ASSUME HandlesKnown, MetasUsed, NEW n \in Names, Free(n), created_files[n] # None
    PROVE  created_files[n] \in Fhs /\ fmeta[created_files[n]].used
<1>1. created_files[n] \in Fhs /\ \A u \in Threads : loc[u].fh # created_files[n]
  BY SettledFree DEF HandlesKnown
<1> QED BY <1>1 DEF MetasUsed, NamedUsed

\* The page a thread is about to write is sized, and its metas are used.
LEMMA OwnPage ==
    ASSUME MetasUsed, NEW t \in Threads
    PROVE  (\A f \in Fhs : Sized(loc[t].page[f])) /\ UsedAt(pc[t], loc[t])
BY DEF MetasUsed, PagesSized, HeldUsed

\* create claims a meta.
LEMMA CreateNewUsed ==
    ASSUME HandlesKnown, HandlesKnown', MetasUsed, NEW t \in Threads, NEW n \in Names,
           CreateNew(t, n)
    PROVE  MetasUsed'
<1>1. PICK g : g = Head(free_fhs) OBVIOUS
<1>2. /\ g \in Fhs /\ g # None /\ Range(free_fhs') \subseteq Range(free_fhs)
      /\ \A m \in Names : created_files[m] # g
  BY <1>1, HeadFree DEF HandlesKnown, CreateNew
<1>3. PICK r : Moved(t, "create_write", r) /\ r = [loc[t] EXCEPT !.name = n, !.fh = g]
  <2>1. PICK r : r = [loc[t] EXCEPT !.name = n, !.fh = g] OBVIOUS
  <2>2. Moved(t, "create_write", r)
    BY <1>1, <2>1 DEF HandlesKnown, CreateNew, Goto, Moved, TypeOK, Loc
  <2> QED BY <2>1, <2>2
<1>4. loc[t] = NoLoc BY DEF HandlesKnown, HandlesOwned, IdleHoldsNothing, CreateNew, Start
<1>5. r.fh = g /\ r.new = None /\ r.page = NoLoc.page BY <1>3, <1>4 DEF NoLoc
<1>6. Held(t) = {} /\ Held(t)' = {g}
  <2>1. loc'[t] = r BY <1>3, OthersKept DEF HandlesKnown
  <2> QED BY <1>2, <1>4, <1>5, <2>1, ReturnUsed DEF Held
<1>7. /\ fmeta'[g].used /\ \A f \in Fhs : f # g => fmeta'[f] = fmeta[f]
      /\ UNCHANGED <<disk_fmeta, created_files>>
  BY <1>1, <1>2 DEF CreateNew, ClaimedMeta, disk, HandlesKnown, TypeOK, FileMeta
<1>8. TablesSized' BY <1>7 DEF MetasUsed, TablesSized, Sized
<1>9. UsedAt("create_write", r)' BY <1>5, <1>7 DEF UsedAt
<1> QED BY <1>2, <1>3, <1>5, <1>6, <1>7, <1>8, <1>9, ReturnUsed, MetaStep

\* The beginning of a shrink claims one for the new file.
LEMMA ShrinkStartUsed ==
    ASSUME HandlesKnown, HandlesKnown', MetasUsed, NEW t \in Threads, NEW n \in Names,
           NEW off \in Offsets, ShrinkStart(t, n, off)
    PROVE  MetasUsed'
<1>1. PICK f, g : f = created_files[n] /\ g = Head(free_fhs) OBVIOUS
<1>2. /\ g \in Fhs /\ g # None /\ Range(free_fhs') \subseteq Range(free_fhs)
      /\ \A m \in Names : created_files[m] # g
  BY <1>1, HeadFree DEF HandlesKnown, ShrinkStart
<1>3. f \in Fhs /\ f # None /\ fmeta[f].used /\ f # g
  BY <1>1, <1>2, SettledUsed, HandleNotNone DEF ShrinkStart
<1>4. PICK r : /\ Moved(t, "shrink_fb", r)
               /\ r = [loc[t] EXCEPT !.name = n, !.fh = f, !.new = g, !.off = off]
  <2>1. PICK r : r = [loc[t] EXCEPT !.name = n, !.fh = f, !.new = g, !.off = off] OBVIOUS
  <2>2. loc' = [loc EXCEPT ![t].name = n, ![t].fh = f, ![t].new = g, ![t].off = off]
    BY <1>1 DEF ShrinkStart
  <2>3. loc' = [loc EXCEPT ![t] = r] BY <2>1, <2>2 DEF HandlesKnown, TypeOK, Loc
  <2> QED BY <2>1, <2>3 DEF ShrinkStart, Goto, Moved
<1>5. loc[t] = NoLoc BY DEF HandlesKnown, HandlesOwned, IdleHoldsNothing, ShrinkStart, Start
<1>6. r.fh = f /\ r.new = g /\ r.page = NoLoc.page BY <1>4, <1>5 DEF NoLoc
<1>7. Held(t) = {} /\ Held(t)' = {f, g}
  <2>1. loc'[t] = r BY <1>4, OthersKept DEF HandlesKnown
  <2> QED BY <1>2, <1>3, <1>5, <1>6, <2>1, ReturnUsed DEF Held
<1>8. /\ fmeta'[g].used /\ \A h \in Fhs : h # g => fmeta'[h] = fmeta[h]
      /\ UNCHANGED <<disk_fmeta, created_files>>
  BY <1>1, <1>2 DEF ShrinkStart, ClaimedMeta, disk, HandlesKnown, TypeOK, FileMeta
<1>9. TablesSized' BY <1>8 DEF MetasUsed, TablesSized, Sized
<1>10. UsedAt("shrink_fb", r)' BY <1>3, <1>6, <1>8 DEF UsedAt
<1>11. \A m \in Names : \/ fmeta'[created_files'[m]].used
                        \/ /\ created_files'[m] = created_files[m]
                           /\ created_files[m] \notin Held(t) \cup Held(t)'
  BY <1>2, <1>3, <1>7, <1>8
<1> QED BY <1>2, <1>4, <1>6, <1>7, <1>8, <1>9, <1>10, <1>11, ReturnUsed, MetaStep

\* An extend and an unlink begin with a file that is used.
LEMMA StartUsed ==
    ASSUME HandlesKnown, HandlesKnown', MetasUsed, NEW t \in Threads, NEW n \in Names,
           UnlinkStart(t, n) \/ \E off \in Offsets : ExtendStart(t, n, off)
    PROVE  MetasUsed'
<1>1. fmeta[created_files[n]].used BY SettledUsed DEF UnlinkStart, ExtendStart
<1>2. loc[t] = NoLoc /\ pc[t] = "idle"
  BY DEF HandlesKnown, HandlesOwned, IdleHoldsNothing, ExtendStart, UnlinkStart, Start
<1>3. UNCHANGED <<fmeta, disk_fmeta, free_fhs, created_files>>
  BY DEF UnlinkStart, ExtendStart, disk
<1>4. PICK l, r : /\ Moved(t, l, r) /\ r.fh = created_files[n]
                  /\ r.new = None /\ r.page = NoLoc.page
  <2>1. CASE UnlinkStart(t, n)
    BY <1>2, <2>1 DEF UnlinkStart, Goto, Moved, HandlesKnown, TypeOK, Loc, NoLoc
  <2>2. ASSUME NEW off \in Offsets, ExtendStart(t, n, off)
        PROVE  \E l, r : /\ Moved(t, l, r) /\ r.fh = created_files[n]
                         /\ r.new = None /\ r.page = NoLoc.page
    <3> DEFINE f == created_files[n]
    <3>1. PICK p, q : /\ p = [NoLoc EXCEPT !.name = n, !.fh = f, !.off = off,
                                           !.fb = Head(free_fbhs), !.new_fb = TRUE]
                      /\ q = [NoLoc EXCEPT !.name = n, !.fh = f, !.off = off, !.fb = item[f]]
      OBVIOUS
    <3>2. /\ p.fh = f /\ p.new = None /\ p.page = NoLoc.page
          /\ q.fh = f /\ q.new = None /\ q.page = NoLoc.page
      BY <3>1 DEF NoLoc
    <3>3. Moved(t, "extend_blocks", p) \/ Moved(t, "extend_blocks", q)
      BY <1>2, <2>2, <3>1 DEF ExtendStart, Goto, Moved, HandlesKnown, TypeOK, Loc
    <3> QED BY <3>2, <3>3
  <2> QED BY <2>1, <2>2
<1>5. UsedAt(l, r) BY <1>1, <1>4 DEF UsedAt
<1>6. TablesSized' BY <1>3 DEF MetasUsed, TablesSized
<1> QED BY <1>2, <1>3, <1>4, <1>5, <1>6, ReturnUsed, UseKept

\* The steps that leave the metas alone.
LEMMA MetasAlone ==
    ASSUME HandlesKnown, HandlesKnown', MetasUsed, NEW t \in Threads,
           \/ ExtendBlocks(t) \/ RecycleBlocks(t)
           \/ ExtendFb(t, TRUE) \/ UnlinkFb(t, TRUE) \/ ShrinkCopy(t, TRUE)
           \/ ShrinkWriteFb(t, TRUE) \/ RecycleFb(t, TRUE)
    PROVE  MetasUsed'
<1>1. /\ UNCHANGED <<fmeta, disk_fmeta, free_fhs, created_files>>
      /\ pc[t] \notin Cleared
  BY DEF ExtendBlocks, RecycleBlocks, ExtendFb, UnlinkFb, ShrinkCopy, ShrinkWriteFb,
         RecycleFb, disk, At, Cleared
<1>2. TypeOK BY DEF HandlesKnown
<1>3. \/ Moved(t, "idle", NoLoc)
      \/ \E l, r : /\ Moved(t, l, r) /\ r.fh = loc[t].fh /\ r.new = loc[t].new
                   /\ r.page = loc[t].page
  <2>1. CASE ExtendBlocks(t)
    BY <1>2, <2>1, ReturnMoved DEF ExtendBlocks, Goto, Moved, TypeOK, Loc
  <2>2. CASE RecycleBlocks(t)
    <3>1. PICK r : r = [loc[t] EXCEPT !.fb = item[loc[t].fh]] OBVIOUS
    <3>2. r.fh = loc[t].fh /\ r.new = loc[t].new /\ r.page = loc[t].page
      BY <1>2, <3>1 DEF TypeOK, Loc
    <3>3. Moved(t, "recycle_meta", r) \/ Moved(t, "recycle_fb", r)
      BY <1>2, <2>2, <3>1 DEF RecycleBlocks, Goto, Moved, TypeOK, Loc
    <3> QED BY <3>2, <3>3
  <2>3. CASE ExtendFb(t, TRUE)
    BY <1>2, <2>3, ReturnMoved DEF ExtendFb, Goto, Moved, TypeOK
  <2>4. CASE UnlinkFb(t, TRUE) \/ RecycleFb(t, TRUE)
    <3>1. PICK r : r = [loc[t] EXCEPT !.fb = None] OBVIOUS
    <3>2. r.fh = loc[t].fh /\ r.new = loc[t].new /\ r.page = loc[t].page
      BY <1>2, <3>1 DEF TypeOK, Loc
    <3>3. Moved(t, "unlink_meta", r) \/ Moved(t, "recycle_meta", r)
      BY <1>2, <2>4, <3>1 DEF UnlinkFb, RecycleFb, Goto, Moved, TypeOK, Loc
    <3> QED BY <3>2, <3>3
  <2>5. CASE ShrinkCopy(t, TRUE) \/ ShrinkWriteFb(t, TRUE)
    BY <1>2, <2>5, ReturnMoved DEF ShrinkCopy, ShrinkWriteFb, Goto, Moved, TypeOK
  <2> QED BY <2>1, <2>2, <2>3, <2>4, <2>5
<1>4. TablesSized' BY <1>1 DEF MetasUsed, TablesSized
<1>5. pc[t] # "unlink_names" BY <1>1 DEF Cleared
<1>6. CASE Moved(t, "idle", NoLoc) BY <1>1, <1>4, <1>5, <1>6, ReturnUsed, UseKept
<1>7. ASSUME NEW l, NEW r, Moved(t, l, r), r.fh = loc[t].fh, r.new = loc[t].new,
             r.page = loc[t].page
      PROVE  MetasUsed'
  <2>1. UsedAt(l, r) BY <1>1, <1>7, OwnPage DEF UsedAt
  <2> QED BY <1>1, <1>4, <1>5, <1>7, <2>1, OwnPage, UseKept
<1> QED BY <1>3, <1>6, <1>7

\* Writing the page of a thread's meta changes no meta's use.
LEMMA WritesUsed ==
    ASSUME HandlesKnown, HandlesKnown', MetasUsed, NEW t \in Threads,
           CreateWrite(t, TRUE) \/ ExtendSize(t, TRUE) \/ RecycleChild(t, TRUE)
    PROVE  MetasUsed'
<1>1. TypeOK /\ TablesSized /\ UsedAt(pc[t], loc[t])
  BY OwnPage DEF HandlesKnown, MetasUsed
<1>2. \/ Moved(t, "idle", NoLoc)
      \/ pc[t] = "create_write" /\ Moved(t, "create_add", loc[t])
  BY <1>1, ReturnMoved
     DEF CreateWrite, ExtendSize, RecycleChild, Goto, Moved, TypeOK, At
<1>3. UNCHANGED <<free_fhs, created_files>> /\ pc[t] # "unlink_names"
  BY DEF CreateWrite, ExtendSize, RecycleChild, At
<1>4. TablesSized' /\ \A f \in Fhs : fmeta'[f].used = fmeta[f].used
  <2>1. CASE CreateWrite(t, TRUE) \/ RecycleChild(t, TRUE)
    <3>1. PICK f \in Fhs : WriteMeta(fmeta, f, TRUE)
      BY <2>1 DEF CreateWrite, RecycleChild, At, HandlesKnown, LocalsSet, Fit
    <3> QED BY <1>1, <3>1, WrittenSized DEF TypeOK, TablesSized
  <2>2. CASE ExtendSize(t, TRUE)
    <3>1. pc[t] = "extend_size" BY <2>2 DEF ExtendSize, At
    <3>2. loc[t].fh \in Fhs /\ fmeta[loc[t].fh].used
      BY <1>1, <3>1 DEF HandlesKnown, LocalsSet, Fit, UsedAt, Cleared
    <3>3. loc[t].off \in Nat BY <1>1 DEF TypeOK, Loc
    <3> DEFINE fm == [fmeta EXCEPT ![loc[t].fh].size = loc[t].off]
    <3>4. fm \in [Fhs -> FileMeta] BY <1>1, <3>2, <3>3, SizeSetType
    <3>5. \A f \in Fhs : fm[f].used = fmeta[f].used /\ (f # loc[t].fh => fm[f] = fmeta[f])
      BY <1>1, <3>2 DEF TypeOK, FileMeta
    <3>6. WriteMeta(fm, loc[t].fh, TRUE) BY <2>2 DEF ExtendSize
    <3> HIDE DEF fm
    <3>7. \A f \in Fhs : Sized(fm[f]) BY <1>1, <3>2, <3>5 DEF TablesSized, Sized
    <3> QED BY <1>1, <3>2, <3>4, <3>5, <3>6, <3>7, WrittenSized
  <2> QED BY <2>1, <2>2
<1>5. CASE Moved(t, "idle", NoLoc) BY <1>3, <1>4, <1>5, ReturnUsed, UseKept
<1>6. CASE pc[t] = "create_write" /\ Moved(t, "create_add", loc[t])
  <2>1. UsedAt("create_add", loc[t]) BY <1>1, <1>6 DEF UsedAt, Cleared
  <2> QED BY <1>3, <1>4, <1>6, <2>1, OwnPage, UseKept
<1> QED BY <1>2, <1>5, <1>6

\* A name that a thread does not work on is not that of a file it has.
LEMMA OtherNames ==
    ASSUME HandlesKnown, NEW t \in Threads
    PROVE  \A n \in Names : n # loc[t].name => created_files[n] \notin Held(t)
BY DEF HandlesKnown, HandlesOwned, NamedOnce

\* create names its file, unlink takes the name away, ShrinkFile does both.
LEMMA NamesUsed ==
    ASSUME HandlesKnown, HandlesKnown', MetasUsed, NEW t \in Threads,
           CreateAdd(t) \/ UnlinkNames(t) \/ ShrinkDetach(t) \/ ShrinkAttach(t)
    PROVE  MetasUsed'
<1>1. TypeOK /\ TablesSized /\ UsedAt(pc[t], loc[t])
  BY OwnPage DEF HandlesKnown, MetasUsed
<1>2. pc[t] \in {"create_add", "unlink_names", "shrink_detach", "shrink_attach"}
  BY DEF CreateAdd, UnlinkNames, ShrinkDetach, ShrinkAttach, At
<1>3. /\ loc[t].fh \in Fhs
      /\ pc[t] \in {"shrink_detach", "shrink_attach"} => loc[t].new \in Fhs
  BY <1>2 DEF HandlesKnown, LocalsSet, Fit
<1>4. PICK l, r : /\ Moved(t, l, r)
                  /\ \/ l = "idle" /\ r = NoLoc
                     \/ pc[t] \notin Cleared /\ r = loc[t]
  BY <1>1, ReturnMoved
     DEF CreateAdd, UnlinkNames, ShrinkDetach, ShrinkAttach, Goto, Moved, TypeOK, At, Cleared
<1>5. \A f \in Fhs : /\ fmeta'[f].used = fmeta[f].used
                     /\ \/ fmeta'[f].size = fmeta[f].size
                        \/ fmeta[f].used
  <2>1. CASE CreateAdd(t) \/ UnlinkNames(t) BY <2>1 DEF CreateAdd, UnlinkNames
  <2>2. CASE ShrinkDetach(t)
    BY <1>1, <1>3, <2>2 DEF ShrinkDetach, TypeOK, FileMeta
  <2>3. CASE ShrinkAttach(t)
    <3>1. loc[t].new \in Fhs BY <1>3, <2>3 DEF ShrinkAttach, At
    <3>2. fmeta[loc[t].new].used BY <1>1, <3>1, HandleNotNone DEF UsedAt
    <3> QED BY <1>1, <2>3, <3>1, <3>2 DEF ShrinkAttach, TypeOK, FileMeta
  <2> QED BY <2>1, <2>2, <2>3
<1>6. UNCHANGED <<disk_fmeta, free_fhs>>
  BY DEF CreateAdd, UnlinkNames, ShrinkDetach, ShrinkAttach, disk
<1>7. TablesSized' BY <1>1, <1>5, <1>6 DEF TablesSized, Sized
<1>8. loc'[t] = r BY <1>1, <1>4, OthersKept
<1>9. Held(t)' \subseteq Held(t) BY <1>4, <1>8, ReturnUsed DEF Held
<1>10. UsedAt(l, r) BY <1>1, <1>4, ReturnUsed DEF UsedAt
<1>11. UsedAt(l, r)'
  <2>1. r.new # None => r.new \in Fhs BY <1>8 DEF HandlesKnown, TypeOK, Loc
  <2>2. l \notin Cleared => r.fh \in Fhs BY <1>3, <1>4 DEF Cleared
  <2> QED BY <1>5, <1>10, <2>1, <2>2 DEF UsedAt
<1>12. \A f \in Fhs : Sized(r.page[f]) BY <1>4, OwnPage, ReturnUsed
<1>13. \A n \in Names : n # loc[t].name => created_files'[n] = created_files[n]
  BY <1>1 DEF CreateAdd, UnlinkNames, ShrinkDetach, ShrinkAttach, TypeOK
<1>14. ASSUME loc[t].name \in Names, created_files'[loc[t].name] # None
       PROVE  fmeta'[created_files'[loc[t].name]].used
  <2>1. CASE CreateAdd(t)
    <3>1. created_files'[loc[t].name] = loc[t].fh BY <1>1, <1>14, <2>1 DEF CreateAdd, TypeOK
    <3>2. fmeta[loc[t].fh].used BY <1>1, <2>1 DEF CreateAdd, At, UsedAt, Cleared
    <3> QED BY <1>3, <1>5, <3>1, <3>2
  <2>2. CASE UnlinkNames(t) \/ ShrinkDetach(t)
    BY <1>1, <1>14, <2>2 DEF UnlinkNames, ShrinkDetach, TypeOK
  <2>3. CASE ShrinkAttach(t)
    <3>1. created_files'[loc[t].name] = loc[t].new BY <1>1, <1>14, <2>3 DEF ShrinkAttach, TypeOK
    <3>2. loc[t].new \in Fhs BY <1>3, <2>3 DEF ShrinkAttach, At
    <3>3. fmeta[loc[t].new].used BY <1>1, <3>2, HandleNotNone DEF UsedAt
    <3> QED BY <1>5, <3>1, <3>2, <3>3
  <2> QED BY <2>1, <2>2, <2>3
<1>15. \A n \in Names : created_files'[n] # None =>
          \/ fmeta'[created_files'[n]].used
          \/ /\ created_files'[n] = created_files[n]
             /\ created_files[n] \notin Held(t) \cup Held(t)'
  BY <1>9, <1>13, <1>14, OtherNames
<1> QED BY <1>4, <1>5, <1>6, <1>7, <1>11, <1>12, <1>15, MetaStep

\* rename gives the file another name.
LEMMA RenameUsed ==
    ASSUME HandlesKnown, HandlesKnown', MetasUsed, NEW t \in Threads, NEW n \in Names,
           NEW m \in Names, RenameFile(t, n, m, TRUE)
    PROVE  MetasUsed'
<1> DEFINE f == created_files[n]
           fm == [fmeta EXCEPT ![f].name = m]
<1>1. TypeOK /\ TablesSized BY DEF HandlesKnown, MetasUsed
<1>2. f \in Fhs /\ fmeta[f].used BY SettledUsed DEF RenameFile
<1>3. /\ WriteMeta(fm, f, TRUE) /\ UNCHANGED <<free_fhs, pc, loc>>
      /\ created_files' = [created_files EXCEPT ![n] = None, ![m] = f]
  BY DEF RenameFile
<1>4. /\ fm \in [Fhs -> FileMeta]
      /\ \A g \in Fhs : fm[g].used = fmeta[g].used /\ fm[g].size = fmeta[g].size
  <2>1. f \in Fhs /\ fmeta \in [Fhs -> FileMeta] BY <1>1, <1>2 DEF TypeOK
  <2> HIDE DEF f
  <2> QED BY <2>1 DEF FileMeta
<1> HIDE DEF fm
<1>5. \A g \in Fhs : Sized(fm[g]) BY <1>1, <1>4 DEF TablesSized, Sized
<1>6. TablesSized' /\ \A g \in Fhs : fmeta'[g].used = fmeta[g].used
  BY <1>1, <1>2, <1>3, <1>4, <1>5, WrittenSized
<1>7. PagesSized' BY <1>3 DEF MetasUsed, PagesSized
<1>8. FreeUnused'
  <2>1. \A g \in Range(free_fhs) : g \in Fhs BY <1>1, FreeAreHandles
  <2> QED BY <1>3, <1>6, <2>1 DEF MetasUsed, FreeUnused
<1>9. HeldUsed'
  <2>1. ASSUME NEW u \in Threads PROVE UsedAt(pc[u], loc[u])'
    <3>1. UsedAt(pc[u], loc[u]) BY OwnPage
    <3>2. pc[u] \notin Cleared => loc[u].fh \in Fhs
      BY DEF HandlesKnown, LocalsSet, Fit, Cleared
    <3>3. loc[u].new # None => loc[u].new \in Fhs BY <1>1 DEF TypeOK, Loc
    <3> QED BY <1>3, <1>6, <3>1, <3>2, <3>3 DEF UsedAt
  <2> QED BY <2>1 DEF HeldUsed
<1>10. NamedUsed'
  <2>1. \A k \in Names : created_files'[k] \in {None, f, created_files[k]}
    BY <1>1, <1>3 DEF TypeOK
  <2>2. \A k \in Names : created_files[k] # None => created_files[k] \in Fhs
    BY <1>1 DEF TypeOK
  <2> HIDE DEF f
  <2>3. ASSUME NEW k \in Names, created_files'[k] # None
        PROVE  \/ fmeta'[created_files'[k]].used
               \/ \E u \in Threads : pc'[u] = "unlink_names" /\ loc'[u].fh = created_files'[k]
    <3>1. CASE created_files'[k] = f BY <1>2, <1>6, <3>1
    <3>2. CASE created_files'[k] = created_files[k]
      BY <1>3, <1>6, <2>2, <2>3, <3>2 DEF MetasUsed, NamedUsed
    <3> QED BY <2>1, <2>3, <3>1, <3>2
  <2> QED BY <2>3 DEF NamedUsed
<1> QED BY <1>6, <1>7, <1>8, <1>9, <1>10 DEF MetasUsed

\* A meta that is cleared and written is not used; the others' use is kept.
LEMMA ClearedSized ==
    ASSUME TypeOK, TablesSized, NEW f \in Fhs,
           WriteMeta([fmeta EXCEPT ![f] = ClearMeta(@)], f, TRUE)
    PROVE  /\ TablesSized' /\ ~fmeta'[f].used
           /\ \A g \in Fhs : g # f => fmeta'[g].used = fmeta[g].used
<1> DEFINE fm == [fmeta EXCEPT ![f] = ClearMeta(@)]
<1>1. fm \in [Fhs -> FileMeta] BY ClearMetaType
<1>2. /\ fm[f].used = FALSE /\ fm[f].size = 0
      /\ \A g \in Fhs : g # f => fm[g] = fmeta[g]
  BY DEF ClearMeta, TypeOK, FileMeta
<1>3. WriteMeta(fm, f, TRUE) OBVIOUS
<1> HIDE DEF fm
<1>4. \A g \in Fhs : Sized(fm[g]) BY <1>2 DEF TablesSized, Sized
<1> QED BY <1>1, <1>2, <1>3, <1>4, WrittenSized

\* unlink clears its meta before it takes the name away.
LEMMA UnlinkMetaUsed ==
    ASSUME HandlesKnown, HandlesKnown', MetasUsed, NEW t \in Threads, UnlinkMeta(t, TRUE)
    PROVE  MetasUsed'
<1>1. /\ TypeOK /\ TablesSized /\ UsedAt(pc[t], loc[t]) /\ pc[t] = "unlink_meta"
      /\ UNCHANGED <<free_fhs, created_files>>
  BY OwnPage DEF HandlesKnown, MetasUsed, UnlinkMeta, At
<1>2. loc[t].fh \in Fhs BY <1>1 DEF HandlesKnown, LocalsSet, Fit
<1>3. PICK r : r = loc[t] OBVIOUS
<1>4. Moved(t, "unlink_names", r) BY <1>1, <1>3 DEF UnlinkMeta, Goto, Moved, TypeOK
<1>5. TablesSized' /\ \A f \in Fhs : f # loc[t].fh => fmeta'[f].used = fmeta[f].used
  BY <1>1, <1>2, ClearedSized DEF UnlinkMeta
<1>6. \A f \in Held(t) : f # loc[t].fh => f \in Fhs /\ fmeta'[f].used
  BY <1>1, <1>5 DEF Held, UsedAt, TypeOK, Loc
<1>7. UsedAt("unlink_names", r)'
  BY <1>2, <1>3, <1>6, HandleNotNone
     DEF UsedAt, Cleared, HandlesKnown, HandlesOwned, NewIsNew, Held
<1>8. Held(t)' = Held(t)
  <2>1. loc'[t] = r BY <1>1, <1>4, OthersKept
  <2> QED BY <1>3, <2>1 DEF Held
<1>9. loc[t].fh \in Held(t) BY <1>2, HandleNotNone DEF Held
<1>10. \A n \in Names : \/ fmeta'[created_files'[n]].used
                        \/ r.fh = created_files'[n]
                        \/ /\ created_files'[n] = created_files[n]
                           /\ created_files[n] \notin Held(t) \cup Held(t)'
  BY <1>1, <1>3, <1>6, <1>8
<1>11. \A f \in Fhs : Sized(r.page[f]) BY <1>3, OwnPage
<1> QED BY <1>1, <1>4, <1>5, <1>7, <1>8, <1>9, <1>10, <1>11, MetaStep

\* Recycle clears the meta of the old file, which has no name any more, and lists it.
LEMMA RecycleMetaUsed ==
    ASSUME HandlesKnown, HandlesKnown', MetasUsed, NEW t \in Threads, RecycleMeta(t, TRUE)
    PROVE  MetasUsed'
<1>1. /\ TypeOK /\ TablesSized /\ UsedAt(pc[t], loc[t]) /\ pc[t] = "recycle_meta"
      /\ UNCHANGED created_files /\ free_fhs' = Append(free_fhs, loc[t].fh)
  BY OwnPage DEF HandlesKnown, MetasUsed, RecycleMeta, Recycled, At
<1>2. loc[t].fh \in Fhs /\ loc[t].new \in Fhs BY <1>1 DEF HandlesKnown, LocalsSet, Fit
<1>3. PICK r : r = [loc[t] EXCEPT !.fh = None] OBVIOUS
<1>4. r.fh = None /\ r.new = loc[t].new /\ r.page = loc[t].page BY <1>1, <1>3 DEF TypeOK, Loc
<1>5. Moved(t, "recycle_child", r)
  BY <1>1, <1>3 DEF RecycleMeta, Goto, Moved, TypeOK, Loc
<1>6. /\ TablesSized' /\ ~fmeta'[loc[t].fh].used
      /\ \A f \in Fhs : f # loc[t].fh => fmeta'[f].used = fmeta[f].used
  BY <1>1, <1>2, ClearedSized DEF RecycleMeta
<1>7. loc[t].new # loc[t].fh /\ loc[t].new # None /\ loc[t].fh # None
  BY <1>2, HandleNotNone DEF HandlesKnown, HandlesOwned, NewIsNew
<1>8. fmeta'[loc[t].new].used BY <1>1, <1>2, <1>6, <1>7 DEF UsedAt
<1>9. UsedAt("recycle_child", r)' BY <1>4, <1>8 DEF UsedAt, Cleared
<1>10. Held(t) = {loc[t].fh, loc[t].new} /\ Held(t)' = {loc[t].new}
  <2>1. loc'[t] = r BY <1>1, <1>5, OthersKept
  <2> QED BY <1>4, <1>7, <2>1 DEF Held
<1>11. \A n \in Names : created_files[n] # loc[t].fh
  <2>1. created_files[loc[t].name] # loc[t].fh
    BY <1>1 DEF HandlesKnown, HandlesOwned, OldDetached, Detached
  <2> QED BY <1>10, <2>1, OtherNames
<1>12. \A f \in Range(free_fhs') : f \in Range(free_fhs) \/ f = loc[t].fh
  <2>1. loc[t].fh \notin Range(free_fhs) /\ IsInjective(free_fhs) /\ free_fhs \in Seq(Fhs)
    BY <1>1 DEF HandlesKnown, HandlesOwned, FreeFhsSound, TypeOK
  <2> QED BY <1>1, <1>2, <2>1, InjectiveAppend
<1>13. \A n \in Names : \/ fmeta'[created_files'[n]].used
                        \/ /\ created_files'[n] = created_files[n]
                           /\ created_files[n] \notin Held(t) \cup Held(t)'
  BY <1>1, <1>8, <1>10, <1>11
<1> QED BY <1>4, <1>5, <1>6, <1>9, <1>10, <1>12, <1>13, OwnPage, MetaStep

\* ShrinkFile sets the size of the new file, which is used.
LEMMA ShrinkFbUsed ==
    ASSUME HandlesKnown, HandlesKnown', MetasUsed, NEW t \in Threads, ShrinkFb(t)
    PROVE  MetasUsed'
<1>1. /\ TypeOK /\ TablesSized /\ UsedAt(pc[t], loc[t]) /\ pc[t] = "shrink_fb"
      /\ UNCHANGED <<disk_fmeta, free_fhs, created_files>>
      /\ \E k : fmeta' = [fmeta EXCEPT ![loc[t].new].size = k]
  BY OwnPage DEF HandlesKnown, MetasUsed, ShrinkFb, At, disk
<1>2. loc[t].new \in Fhs BY <1>1 DEF HandlesKnown, LocalsSet, Fit
<1>3. \A f \in Fhs : /\ fmeta'[f].used = fmeta[f].used
                     /\ f # loc[t].new => fmeta'[f] = fmeta[f]
  BY <1>1, <1>2 DEF TypeOK, FileMeta
<1>4. TablesSized'
  <2>1. fmeta[loc[t].new].used BY <1>1, <1>2, HandleNotNone DEF UsedAt
  <2> QED BY <1>1, <1>3, <2>1 DEF TablesSized, Sized
<1>5. PICK r : r = [loc[t] EXCEPT !.fb = Head(free_fbhs)] OBVIOUS
<1>6. r.fh = loc[t].fh /\ r.new = loc[t].new /\ r.page = loc[t].page BY <1>1, <1>5 DEF TypeOK, Loc
<1>7. \/ Moved(t, "idle", NoLoc) \/ Moved(t, "shrink_detach", loc[t])
      \/ Moved(t, "shrink_copy", r) \/ Moved(t, "shrink_detach", r)
  BY <1>1, <1>5, ReturnMoved DEF ShrinkFb, Goto, Moved, TypeOK, Loc
<1>8. \A l : UsedAt(l, loc[t]) /\ UsedAt(l, r) BY <1>1, <1>6 DEF UsedAt, Cleared
<1>9. \A f \in Fhs : Sized(loc[t].page[f]) /\ Sized(r.page[f]) BY <1>6, OwnPage
<1> QED BY <1>1, <1>3, <1>4, <1>7, <1>8, <1>9, ReturnUsed, UseKept

\* The page reads and writes that ShrinkFile makes outside the mutex.
LEMMA ShrinkWritesUsed ==
    ASSUME HandlesKnown, HandlesKnown', MetasUsed, NEW t \in Threads,
           \/ ShrinkWrite(t) \/ ShrinkLand(t, TRUE)
           \/ ShrinkWriteOld(t) \/ ShrinkLandOld(t, TRUE)
    PROVE  MetasUsed'
<1>1. /\ TypeOK /\ TablesSized /\ UsedAt(pc[t], loc[t])
      /\ pc[t] \in {"shrink_write", "shrink_land", "shrink_write_old", "shrink_land_old"}
      /\ UNCHANGED <<free_fhs, created_files>>
  BY OwnPage DEF HandlesKnown, MetasUsed, ShrinkWrite, ShrinkLand, ShrinkWriteOld,
                 ShrinkLandOld, At, memory
<1>2. loc[t].fh \in Fhs /\ loc[t].new \in Fhs BY <1>1 DEF HandlesKnown, LocalsSet, Fit
<1>3. ASSUME NEW l, NEW p, Moved(t, l, [loc[t] EXCEPT !.page = p]), TablesSized',
             \A f \in Fhs : fmeta'[f].used = fmeta[f].used, \A f \in Fhs : Sized(p[f])
      PROVE  MetasUsed'
  <2>1. PICK r : r = [loc[t] EXCEPT !.page = p] OBVIOUS
  <2>2. r.fh = loc[t].fh /\ r.new = loc[t].new /\ r.page = p BY <1>1, <2>1 DEF TypeOK, Loc
  <2>3. UsedAt(l, r) BY <1>1, <2>2 DEF UsedAt, Cleared
  <2> QED BY <1>1, <1>3, <2>1, <2>2, <2>3, UseKept
<1>4. CASE ShrinkWrite(t) \/ ShrinkWriteOld(t)
  <2>1. PICK f \in Fhs : UnguardedRead(t, f) BY <1>2, <1>4 DEF ShrinkWrite, ShrinkWriteOld
  <2> DEFINE p == [g \in Fhs |-> IF g \in PageOf(f) THEN Sealed(fmeta, f)[g] ELSE FreshFile]
  <2>2. fmeta' = Sealed(fmeta, f) /\ UNCHANGED disk_fmeta
    BY <1>4, <2>1 DEF UnguardedRead, ShrinkWrite, ShrinkWriteOld, disk
  <2>3. \A g \in Fhs : /\ Sealed(fmeta, f)[g].used = fmeta[g].used
                       /\ Sealed(fmeta, f)[g].size = fmeta[g].size
    BY <1>1 DEF Sealed, TypeOK, FileMeta
  <2>4. \A g \in Fhs : Sized(Sealed(fmeta, f)[g]) BY <1>1, <2>3 DEF TablesSized, Sized
  <2>5. TablesSized' BY <1>1, <2>2, <2>4 DEF TablesSized
  <2>6. \A g \in Fhs : Sized(p[g]) BY <2>4 DEF Sized, FreshFile
  <2>7. loc' = [loc EXCEPT ![t].page = p] BY <2>1 DEF UnguardedRead
  <2> HIDE DEF p
  <2>8. Moved(t, "shrink_land", [loc[t] EXCEPT !.page = p])
        \/ Moved(t, "shrink_land_old", [loc[t] EXCEPT !.page = p])
    BY <1>1, <1>4, <2>7 DEF ShrinkWrite, ShrinkWriteOld, Goto, Moved, TypeOK, Loc
  <2> QED BY <1>3, <2>2, <2>3, <2>5, <2>6, <2>8
<1>5. CASE ShrinkLand(t, TRUE) \/ ShrinkLandOld(t, TRUE)
  <2>1. PICK f \in Fhs : UnguardedLand(t, f, TRUE) BY <1>2, <1>5 DEF ShrinkLand, ShrinkLandOld
  <2>2. \A g \in Fhs : disk_fmeta'[g] \in {disk_fmeta[g], loc[t].page[g]}
    BY <2>1 DEF UnguardedLand, PageWritten
  <2>3. UNCHANGED fmeta BY <1>5 DEF ShrinkLand, ShrinkLandOld, memory
  <2>4. TablesSized' BY <1>1, <2>2, <2>3, OwnPage DEF TablesSized
  <2>5. \A g \in Fhs : Sized(NoPage[g]) BY DEF NoPage, FreshFile, Sized
  <2>6. \E l : Moved(t, l, [loc[t] EXCEPT !.page = NoPage])
    BY <1>1, <1>5 DEF ShrinkLand, ShrinkLandOld, Goto, Moved, TypeOK, Loc
  <2> QED BY <1>3, <2>3, <2>4, <2>5, <2>6
<1> QED BY <1>4, <1>5

\* Where every thread is idle, nobody has a meta or a page.
LEMMA NoneUsed ==
    ASSUME \A t \in Threads : pc[t] = "idle" /\ loc[t] = NoLoc
    PROVE  PagesSized /\ HeldUsed
BY ReturnUsed DEF PagesSized, HeldUsed

\* The formatted device.
LEMMA InitUsed == Init => MetasUsed
<1> SUFFICES ASSUME Init PROVE MetasUsed OBVIOUS
<1>1. TablesSized /\ FreeUnused /\ NamedUsed
  BY EmptyList DEF Init, TablesSized, Sized, FreshFile, FreeUnused, NamedUsed
<1>2. \A t \in Threads : pc[t] = "idle" /\ loc[t] = NoLoc BY DEF Init
<1> QED BY <1>1, <1>2, NoneUsed DEF MetasUsed

\* The process ends.
LEMMA ProcessEndsUsed ==
    ASSUME MetasUsed, ProcessEnds, UNCHANGED disk
    PROVE  MetasUsed'
<1>1. TablesSized' /\ FreeUnused' /\ NamedUsed'
  BY EmptyList DEF ProcessEnds, disk, MetasUsed, TablesSized, Sized, FreshFile, FreeUnused,
                   NamedUsed
<1>2. \A t \in Threads : pc'[t] = "idle" /\ loc'[t] = NoLoc BY DEF ProcessEnds
<1>3. PagesSized' BY <1>2, ReturnUsed DEF PagesSized, Sized
<1>4. HeldUsed' BY <1>2, ReturnUsed DEF HeldUsed, UsedAt, Cleared
<1> QED BY <1>1, <1>3, <1>4 DEF MetasUsed

\* The mount lists the metas that are not used on the device, and names used ones.
LEMMA MountUsed ==
    ASSUME HandlesKnown, MetasUsed, Mount
    PROVE  MetasUsed'
<1>1. /\ \A t \in Threads : pc'[t] = "idle" /\ loc'[t] = NoLoc
      /\ fmeta' = disk_fmeta /\ UNCHANGED disk_fmeta
  BY DEF Mount, disk, HandlesKnown, HandlesOwned, IdleHoldsNothing
<1>2. PagesSized' BY <1>1, ReturnUsed DEF PagesSized, Sized
<1>3. HeldUsed' BY <1>1, ReturnUsed DEF HeldUsed, UsedAt, Cleared
<1>4. TablesSized' BY <1>1 DEF MetasUsed, TablesSized
<1>5. FreeUnused'
  <2>1. free_fhs' \in Ascending(Fhs \ UsedFhs) BY DEF Mount
  <2>2. Fhs \ UsedFhs \in SUBSET Nat /\ Cardinality(Fhs \ UsedFhs) \in Nat
    BY HandlesFinite DEF Fhs
  <2>3. Range(free_fhs') \subseteq Fhs \ UsedFhs BY <2>1, <2>2, AscendingInjective
  <2> QED BY <1>1, <2>3 DEF FreeUnused, UsedFhs
<1>6. NamedUsed'
  <2>1. \A n \in Names : created_files'[n] # None => created_files'[n] \in UsedFhs
    BY LastFirstType DEF Mount, LoadedFile, NamedFhs
  <2> QED BY <1>1, <2>1 DEF NamedUsed, UsedFhs
<1> QED BY <1>2, <1>3, <1>4, <1>5, <1>6 DEF MetasUsed

\* A device write after which none has failed is a good one.
LEMMA GoodWrite ==
    ASSUME TypeOK, NEW good \in BOOLEAN, DeviceWrite(good), failures' = 0
    PROVE  good /\ failures = 0
BY DEF DeviceWrite, TypeOK

\* As long as no device write has failed, every step keeps the use of the metas.
LEMMA NextUsed ==
    ASSUME HandlesKnown, HandlesKnown', failures = 0 => MetasUsed, [Next]_vars, failures' = 0
    PROVE  MetasUsed'
<1>1. TypeOK BY DEF HandlesKnown
<1>2. CASE Mount
  <2>1. MetasUsed BY <1>2 DEF Mount
  <2> QED BY <1>2, <2>1, MountUsed
<1>3. CASE Crash
  <2>1. MetasUsed BY <1>3 DEF Crash
  <2> QED BY <1>3, <2>1, ProcessEndsUsed DEF Crash
<1>4. ASSUME NEW t \in Threads, Begin(t) PROVE MetasUsed'
  <2>1. ASSUME NEW n \in Names, CreateNew(t, n) \/ UnlinkStart(t, n) PROVE MetasUsed'
    <3>1. MetasUsed BY <2>1 DEF CreateNew, UnlinkStart
    <3> QED BY <2>1, <3>1, CreateNewUsed, StartUsed
  <2>2. ASSUME NEW n \in Names, NEW off \in Offsets,
               ExtendStart(t, n, off) \/ ShrinkStart(t, n, off)
        PROVE  MetasUsed'
    <3>1. MetasUsed BY <2>2 DEF ExtendStart, ShrinkStart
    <3> QED BY <2>2, <3>1, StartUsed, ShrinkStartUsed
  <2>3. ASSUME NEW n \in Names, NEW m \in Names, NEW good \in BOOLEAN,
               RenameFile(t, n, m, good)
        PROVE  MetasUsed'
    <3>1. DeviceWrite(good) BY <2>3 DEF RenameFile, WriteMeta
    <3>2. good = TRUE /\ MetasUsed BY <1>1, <3>1, GoodWrite
    <3> QED BY <2>3, <3>2, RenameUsed
  <2> QED BY <1>4, <2>1, <2>2, <2>3 DEF Begin
<1>5. ASSUME NEW t \in Threads, Continue(t) PROVE MetasUsed'
  <2>1. CASE \/ CreateAdd(t) \/ ExtendBlocks(t) \/ UnlinkNames(t)
             \/ ShrinkFb(t) \/ ShrinkDetach(t) \/ ShrinkAttach(t) \/ RecycleBlocks(t)
             \/ ShrinkWrite(t) \/ ShrinkWriteOld(t)
    <3>1. MetasUsed
      BY <2>1 DEF CreateAdd, ExtendBlocks, UnlinkNames, ShrinkFb, ShrinkDetach,
                  ShrinkAttach, RecycleBlocks, ShrinkWrite, ShrinkWriteOld
    <3> QED BY <2>1, <3>1, NamesUsed, MetasAlone, ShrinkFbUsed, ShrinkWritesUsed
  <2>2. CASE ShrinkFault(t)
    <3>1. MetasUsed BY <2>2 DEF ShrinkFault
    <3> QED BY <2>2, <3>1, ProcessEndsUsed DEF ShrinkFault
  <2>3. ASSUME NEW good \in BOOLEAN,
               \/ CreateWrite(t, good) \/ ExtendFb(t, good) \/ ExtendSize(t, good)
               \/ UnlinkFb(t, good) \/ UnlinkMeta(t, good) \/ ShrinkCopy(t, good)
               \/ ShrinkLand(t, good) \/ ShrinkWriteFb(t, good)
               \/ ShrinkLandOld(t, good) \/ RecycleFb(t, good)
               \/ RecycleMeta(t, good) \/ RecycleChild(t, good)
        PROVE  MetasUsed'
    <3>1. DeviceWrite(good) \/ (good /\ UNCHANGED failures)
      BY <2>3 DEF CreateWrite, ExtendFb, ExtendSize, UnlinkFb, UnlinkMeta, ShrinkCopy,
                  ShrinkLand, ShrinkWriteFb, ShrinkLandOld, RecycleFb, RecycleMeta,
                  RecycleChild, WriteMeta, WriteFbMeta, UnguardedLand
    <3>2. good = TRUE /\ MetasUsed BY <1>1, <3>1, GoodWrite
    <3> QED BY <2>3, <3>2, WritesUsed, MetasAlone, UnlinkMetaUsed, ShrinkWritesUsed,
               RecycleMetaUsed
  <2> QED BY <1>5, <2>1, <2>2, <2>3 DEF Continue
<1>6. CASE UNCHANGED vars
  <2>1. UNCHANGED <<fmeta, disk_fmeta, free_fhs, created_files, pc, loc, failures>>
    BY <1>6 DEF vars, memory, disk
  <2>2. MetasUsed BY <2>1
  <2> QED BY <2>1, <2>2 DEF MetasUsed, TablesSized, PagesSized, FreeUnused, HeldUsed,
                            UsedAt, NamedUsed
<1> QED BY <1>2, <1>3, <1>4, <1>5, <1>6 DEF Next

\* The ownership of the handles holds in every state.
LEMMA HandlesInvariant == Spec => []HandlesKnown
<1>1. Init => HandlesKnown BY InitType, InitOwned DEF HandlesKnown
<1>2. HandlesKnown /\ [Next]_vars => HandlesKnown' BY NextType, NextOwned DEF HandlesKnown
<1> QED BY <1>1, <1>2, PTL DEF Spec

\* So does, as long as no device write has failed, what is known of the metas' use.
LEMMA MetasInvariant == Spec => [](HandlesKnown /\ (failures = 0 => MetasUsed))
<1> DEFINE Inv == failures = 0 => MetasUsed
<1>1. Init => Inv BY InitUsed
<1>2. HandlesKnown /\ HandlesKnown' /\ Inv /\ [Next]_vars => Inv' BY NextUsed
<1> HIDE DEF Inv
<1>3. Spec => [](HandlesKnown /\ Inv) BY <1>1, <1>2, HandlesInvariant, PTL DEF Spec
<1> QED BY <1>3 DEF Inv

\* As long as no device write has failed, NewFreeFileNolock never refuses the meta at the
\* head of free_fhs_: no meta gets into the list used or with a size, whatever the
\* interleaving, with any number of crashes and mounts.
THEOREM FreeMetasAreValid == Spec => []FreeMetasValid
<1>1. HandlesKnown /\ (failures = 0 => MetasUsed) => FreeMetasValid
  <2> SUFFICES ASSUME HandlesKnown, MetasUsed, NEW f \in Range(free_fhs)
               PROVE  FreeMetaValid(f)
    BY DEF FreeMetasValid
  <2>1. f \in Fhs BY FreeAreHandles DEF HandlesKnown
  <2> QED BY <2>1 DEF MetasUsed, FreeUnused, TablesSized, Sized, FreeMetaValid
<1> QED BY <1>1, MetasInvariant, PTL
=============================================================================
