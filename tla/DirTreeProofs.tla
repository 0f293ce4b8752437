--------------------------- MODULE DirTreeProofs ---------------------------
(***************************************************************************)
(* Proofs about DirTree, for any threads, paths and size of the table: two *)
(* mkdirs never get the same DirMeta; and, while no device write fails and *)
(* only directories without subdirectories are renamed, to free paths,     *)
(* rmdir takes away nothing that is open or has a child, what can be found *)
(* is on the device, and the device changes by one directory at a time.    *)
(***************************************************************************)
EXTENDS DirTree, FiniteSetTheorems, SequenceTheorems, TLAPS

-----------------------------------------------------------------------------
(* The inductive invariant of the free list *)

MkdirPcs == {"mkdir_write", "mkdir_add"}
RmdirPcs == {"rmdir_write", "rmdir_remove"}

\* An idle thread has no locals, another has a Directory, and nobody is at work on a
\* file system that is not mounted.  The mount point is neither made nor removed.
LocalsFit ==
    /\ \A t \in Threads :
          /\ pc[t] = "idle" => loc[t] = NoLoc
          /\ pc[t] # "idle" => loc[t].dh \in Dhs
          /\ pc[t] \in MkdirPcs \cup RmdirPcs => loc[t].path # Root
          /\ pc[t] \in RmdirPcs => loc[t].dh # created_dirs[Root]
    /\ status = "down" => \A t \in Threads : pc[t] = "idle"

\* A Directory has one path.
PathsOnce == \A p, q \in Paths :
    created_dirs[p] # None /\ created_dirs[p] = created_dirs[q] => p = q

\* The meta of a mkdir has no path yet, and no other mkdir has it.
MadeApart == \A t \in Threads : pc[t] \in MkdirPcs =>
    /\ \A p \in Paths : created_dirs[p] # loc[t].dh
    /\ \A u \in Threads : u # t /\ pc[u] \in MkdirPcs => loc[u].dh # loc[t].dh

\* The mount point is in the table before any other directory: so there is a free
\* meta when it is made.
IsRoot(m) == m.used /\ m.name = Root
RootFirst ==
    /\ status = "down" => UsedDhs = {} \/ \E d \in Dhs : IsRoot(disk_dmeta[d])
    /\ status = "up" /\ created_dirs[Root] # None =>
          IsRoot(dmeta[created_dirs[Root]]) /\ IsRoot(disk_dmeta[created_dirs[Root]])
    /\ status = "up" /\ created_dirs[Root] = None =>
          /\ \A d \in Dhs : ~dmeta[d].used /\ ~disk_dmeta[d].used
          /\ \A p \in Paths : created_dirs[p] = None
          /\ \A t \in Threads : pc[t] = "idle"
          /\ free_dhs # <<>>

DInv == TypeOK /\ LocalsFit /\ PathsOnce /\ MadeApart /\ RootFirst /\ FreeDhsSound

-----------------------------------------------------------------------------
(* The inductive invariant of the tree, while every device write succeeds *)

\* No two threads hold the same lock of the kernel, and mkdir and rmdir hold those of
\* the path and of its parent.
LocksApart ==
    /\ \A t, u \in Threads : t # u => loc[t].locks \cap loc[u].locks = {}
    /\ \A t \in Threads : pc[t] \in MkdirPcs \cup RmdirPcs =>
          loc[t].locks = {loc[t].path, Parent(loc[t].path)}

\* What mkdir, rmdir and opendir rely on between their steps.
Making == \A t \in Threads : pc[t] \in MkdirPcs =>
    /\ created_dirs[loc[t].path] = None /\ created_dirs[Parent(loc[t].path)] # None
    /\ dmeta[loc[t].dh].used /\ dmeta[loc[t].dh].name = loc[t].path
    /\ dmeta[loc[t].dh].ok <=> pc[t] = "mkdir_add"
Unmaking == \A t \in Threads : pc[t] \in RmdirPcs =>
    /\ created_dirs[loc[t].path] = loc[t].dh
    /\ children[loc[t].dh] = {} /\ nlink[loc[t].dh] = 0
OpeningFound == \A t \in Threads : pc[t] = "opendir_inc" =>
    created_dirs[loc[t].path] = loc[t].dh /\ ~Removing(loc[t].path)

\* A directory that can be found has its path in its meta, which is used until rmdir
\* clears it, and every other used meta is a mkdir's.
Removed(p) == \E t \in Threads : pc[t] = "rmdir_remove" /\ loc[t].path = p
MetasNamed == \A p \in Paths : created_dirs[p] # None =>
    /\ dmeta[created_dirs[p]].name = p /\ dmeta[created_dirs[p]].ok
    /\ dmeta[created_dirs[p]].used <=> ~Removed(p)
UsedKnown == \A d \in Dhs : dmeta[d].used =>
    \/ \E p \in Paths : created_dirs[p] = d
    \/ \E t \in Threads : pc[t] \in MkdirPcs /\ loc[t].dh = d

\* The child maps and the map of paths describe the same tree.
Family == \A d, e \in Dhs :
    e \in children[d] <=>
        \E p \in Paths : p # Root /\ created_dirs[p] = e /\ created_dirs[Parent(p)] = d
Rooted == \A p \in Paths : p # Root /\ created_dirs[p] # None => created_dirs[Parent(p)] # None

OpenUsed == \A d \in Dhs : nlink[d] > 0 => dmeta[d].used

\* The device has the metas of the memory, but for those that a mkdir has claimed:
\* it has these, with their stale crc, if another page write carried them along.
Claims(d) == \E t \in Threads : pc[t] = "mkdir_write" /\ loc[t].dh = d
Synced == status = "up" => \A d \in Dhs :
    /\ ~Claims(d) => disk_dmeta[d] = dmeta[d] /\ dmeta[d].ok
    /\ Claims(d) => disk_dmeta[d] = dmeta[d] \/ (~disk_dmeta[d].used /\ disk_dmeta[d].ok)

\* Before the mount there is nothing, and nothing on the device before the first crash.
Empty == status = "down" =>
    /\ \A p \in Paths : created_dirs[p] = None
    /\ crashes = 0 => \A d \in Dhs : disk_dmeta[d] = FreshDir

Tree == /\ LocksApart /\ Making /\ Unmaking /\ OpeningFound /\ MetasNamed /\ UsedKnown
        /\ Family /\ Rooted /\ OpenUsed /\ Synced /\ Empty
TInv == failures = 0 => Tree

-----------------------------------------------------------------------------
(* Paths, lists and types *)

\* The mount point is a path, and so is the parent of every other one.
LEMMA PathsClosed ==
    /\ Root \in Paths
    /\ \A p \in Paths : p # Root => Parent(p) \in Paths /\ Parent(p) # p /\ Within(Parent(p), p)
<1>1. \A p : p \in Paths <=> p \in Seq(Comps) /\ Len(p) \in 0 .. MaxDepth
  <2>1. ASSUME NEW p \in Paths PROVE p \in Seq(Comps) /\ Len(p) \in 0 .. MaxDepth
    <3>1. PICK k \in 0 .. MaxDepth : p \in [1 .. k -> Comps] BY DEF Paths
    <3>2. k \in Nat BY <3>1, DirAssumption
    <3> QED BY <3>1, <3>2
  <2>2. ASSUME NEW p \in Seq(Comps), Len(p) \in 0 .. MaxDepth PROVE p \in Paths
    <3>1. p \in [1 .. Len(p) -> Comps] OBVIOUS
    <3> QED BY <2>2, <3>1 DEF Paths
  <2> QED BY <2>1, <2>2
<1>2. Root \in Seq(Comps) /\ Len(Root) = 0 /\ 0 \in 0 .. MaxDepth BY DirAssumption DEF Root
<1>3. ASSUME NEW p \in Paths, p # Root PROVE Parent(p) \in Paths /\ Parent(p) # p /\ Within(Parent(p), p)
  <2>1. p \in Seq(Comps) /\ Len(p) \in 0 .. MaxDepth BY <1>1
  <2>2. Len(p) # 0 BY <1>3, <2>1 DEF Root
  <2>3. Len(p) \in Nat \ {0} /\ Len(p) - 1 \in 0 .. MaxDepth BY <2>1, <2>2, DirAssumption
  <2>4. /\ SubSeq(p, 1, Len(p) - 1) \in Seq(Comps)
        /\ Len(SubSeq(p, 1, Len(p) - 1)) = Len(p) - 1
    <3>1. \A i \in 1 .. Len(p) - 1 : p[i] \in Comps BY <2>1, <2>3
    <3>2. Len(p) - 1 \in Int /\ 1 \in Int BY <2>3
    <3>3. PICK q, n : q = SubSeq(p, 1, n - 1) /\ n = Len(p) OBVIOUS
    <3>4. n \in Nat \ {0} BY <2>3, <3>3
    <3>5. q \in Seq(Comps) /\ Len(q) = IF 1 <= n - 1 THEN n - 1 - 1 + 1 ELSE 0
      BY <3>1, <3>2, <3>3, SubSeqProperties
    <3>6. Len(q) = n - 1
      <4>1. PICK k : k = Len(q) OBVIOUS
      <4>2. k = IF 1 <= n - 1 THEN n - 1 - 1 + 1 ELSE 0 BY <3>5, <4>1, Zenon
      <4>3. k = n - 1 BY <3>4, <4>2
      <4> QED BY <4>1, <4>3, Zenon
    <3> QED BY <3>3, <3>5, <3>6, Zenon
  <2>5. Len(p) - 1 # Len(p) BY <2>3
  <2>6. Parent(p) \in Seq(Comps) /\ Len(Parent(p)) = Len(p) - 1 BY <2>4 DEF Parent
  <2>7. Len(Parent(p)) <= Len(p) BY <2>3, <2>6
  <2>8. Within(Parent(p), p) BY <2>6, <2>7 DEF Within, Parent
  <2> QED BY <1>1, <2>3, <2>5, <2>6, <2>8
<1> QED BY <1>1, <1>2, <1>3

\* None is no Directory.
LEMMA DhsNotNone == None \notin Dhs /\ 0 \in Dhs /\ \A d \in Dhs : d \in Int
BY DirAssumption DEF Dhs, None

\* The head of a list without repetition is not in the rest.
LEMMA HeadNotInTail ==
    ASSUME NEW S, NEW s \in Seq(S), s # <<>>, IsInjective(s)
    PROVE  /\ Tail(s) \in Seq(S) /\ IsInjective(Tail(s))
           /\ Head(s) \in S /\ Head(s) \in Range(s)
           /\ \A x \in Range(Tail(s)) : x \in Range(s) /\ x # Head(s)
<1>1. /\ Tail(s) \in Seq(S) /\ Head(s) \in S /\ Head(s) = s[1]
      /\ Len(s) \in Nat \ {0} /\ DOMAIN s = 1 .. Len(s) /\ DOMAIN Tail(s) = 1 .. Len(s) - 1
      /\ \A i \in 1 .. Len(s) - 1 : Tail(s)[i] = s[i + 1]
  OBVIOUS
<1>2. \A i \in DOMAIN Tail(s) : i + 1 \in DOMAIN s /\ i + 1 # 1 BY <1>1
<1>3. 1 \in DOMAIN s BY <1>1
<1>4. \A i \in DOMAIN Tail(s) : Tail(s)[i] \in Range(s) /\ Tail(s)[i] # Head(s)
  BY <1>1, <1>2, <1>3 DEF IsInjective, Range
<1>5. IsInjective(Tail(s)) BY <1>1, <1>2 DEF IsInjective
<1> QED BY <1>1, <1>3, <1>4, <1>5 DEF Range

\* The list that a mount makes has members of the set, each once.
LEMMA AscendingOnce ==
    ASSUME NEW S \in SUBSET Dhs, NEW s \in Ascending(S)
    PROVE  s \in Seq(Dhs) /\ IsInjective(s) /\ Range(s) \subseteq S /\ (S # {} => s # <<>>)
<1>1. IsFiniteSet(S) /\ Cardinality(S) \in Nat
  <2>1. IsFiniteSet(Dhs) BY DirAssumption, FS_Interval DEF Dhs
  <2> QED BY <2>1, FS_Subset, FS_CardinalityType
<1>2. /\ s \in [1 .. Cardinality(S) -> S] /\ DOMAIN s = 1 .. Cardinality(S)
      /\ \A i, j \in DOMAIN s : i < j => s[i] < s[j]
  BY DEF Ascending
<1>3. \A i \in DOMAIN s : i \in Int /\ s[i] \in Int /\ s[i] \in Dhs /\ s[i] \in S
  BY <1>1, <1>2, DhsNotNone
<1>4. s \in Seq(Dhs) BY <1>1, <1>2, <1>3
<1>5. \A i, j \in DOMAIN s : s[i] = s[j] => ~(i < j) /\ ~(j < i) BY <1>2, <1>3
<1>6. IsInjective(s) BY <1>3, <1>5 DEF IsInjective
<1>7. S # {} => Cardinality(S) # 0 BY <1>1, FS_EmptySet
<1>8. S # {} => 1 \in DOMAIN s BY <1>1, <1>2, <1>7
<1> QED BY <1>3, <1>4, <1>6, <1>8 DEF Range

Locals == [locks : SUBSET Paths, path : Paths, dh : Dhs \cup {None}, tries : 0 .. MkdirTries - 1]
Pcs == {"idle", "mkdir_write", "mkdir_add", "rmdir_write", "rmdir_remove", "opendir_inc"}

\* Thread t is at l with locals r, and the others are where they were.
Moved(t, l, r) ==
    /\ pc' \in [Threads -> Pcs] /\ loc' \in [Threads -> Locals]
    /\ pc'[t] = l /\ loc'[t] = r
    /\ \A u \in Threads : u # t => pc'[u] = pc[u] /\ loc'[u] = loc[u]

\* The ways in which the actions move a thread.
LEMMA Moves ==
    ASSUME TypeOK, NEW t \in Threads
    PROVE  /\ NoLoc \in Locals /\ loc[t] \in Locals
           /\ Return(t) => Moved(t, "idle", NoLoc)
           /\ \A l \in Pcs : Goto(t, l) /\ UNCHANGED loc => Moved(t, l, loc[t])
           /\ \A l \in Pcs, r \in Locals : Goto(t, l) /\ loc' = [loc EXCEPT ![t] = r] => Moved(t, l, r)
<1>1. NoLoc \in Locals
  <2>1. 0 \in 0 .. MkdirTries - 1 BY DirAssumption
  <2> QED BY <2>1, PathsClosed DEF NoLoc, Locals
<1>2. pc \in [Threads -> Pcs] /\ loc \in [Threads -> Locals] BY DEF TypeOK, Pcs, Locals
<1> QED BY <1>1, <1>2 DEF Return, Goto, Moved, Pcs

\* A DirMeta is its fields.
LEMMA MetaFields ==
    ASSUME NEW x \in DirMeta PROVE x = [used |-> x.used, name |-> x.name, ok |-> x.ok]
<1>1. PICK u \in BOOLEAN, n \in Paths, o \in BOOLEAN : x = [used |-> u, name |-> n, ok |-> o]
  BY Zenon DEF DirMeta
<1>2. x.used = u /\ x.name = n /\ x.ok = o BY <1>1
<1> QED BY <1>1, <1>2, Zenon

\* What a write of the meta of d does: only its crc changes in memory, and the device
\* gets metas of the memory, those of the page of d when the write succeeds.
LEMMA Written ==
    ASSUME TypeOK, NEW dm \in [Dhs -> DirMeta], NEW d \in Dhs, NEW good \in BOOLEAN,
           WriteMeta(dm, d, good)
    PROVE  /\ dmeta' \in [Dhs -> DirMeta] /\ disk_dmeta' \in [Dhs -> DirMeta] /\ failures' \in Nat
           /\ \A e \in Dhs : e # d => dmeta'[e] = dm[e]
           /\ dmeta'[d] = [used |-> dm[d].used, name |-> dm[d].name, ok |-> TRUE]
           /\ \A e \in Dhs : dmeta'[e].used = dm[e].used /\ dmeta'[e].name = dm[e].name
           /\ \A e \in Dhs : disk_dmeta'[e] = dmeta'[e] \/ disk_dmeta'[e] = disk_dmeta[e]
           /\ failures' = 0 => failures = 0 /\ good
           /\ good => disk_dmeta'[d] = dmeta'[d]
<1> DEFINE sealed == [dm EXCEPT ![d].ok = TRUE]
<1>1. dm[d] \in DirMeta /\ disk_dmeta \in [Dhs -> DirMeta] /\ failures \in Nat BY DEF TypeOK
<1>2. /\ sealed = [dm EXCEPT ![d] = [used |-> dm[d].used, name |-> dm[d].name, ok |-> TRUE]]
      /\ [used |-> dm[d].used, name |-> dm[d].name, ok |-> TRUE] \in DirMeta
  <2>1. PICK m \in DirMeta : m = dm[d] BY <1>1
  <2>2. [m EXCEPT !.ok = TRUE] = [used |-> m.used, name |-> m.name, ok |-> TRUE]
    <3>1. PICK x \in DirMeta : x = [m EXCEPT !.ok = TRUE] BY DEF DirMeta
    <3>2. x.used = m.used /\ x.name = m.name /\ x.ok = TRUE BY <3>1 DEF DirMeta
    <3>3. x = [used |-> m.used, name |-> m.name, ok |-> TRUE] BY <3>2, MetaFields
    <3> QED BY <3>1, <3>3, Zenon
  <2>3. [used |-> m.used, name |-> m.name, ok |-> TRUE] \in DirMeta BY DEF DirMeta
  <2>4. sealed = [dm EXCEPT ![d] = [m EXCEPT !.ok = TRUE]] BY <2>1
  <2> QED BY <2>1, <2>2, <2>3, <2>4
<1>3. /\ sealed \in [Dhs -> DirMeta] /\ \A e \in Dhs : e # d => sealed[e] = dm[e]
      /\ sealed[d] = [used |-> dm[d].used, name |-> dm[d].name, ok |-> TRUE]
  BY <1>2
<1>4. dmeta' = sealed BY DEF WriteMeta
<1>5. \A e \in Dhs : sealed[e].used = dm[e].used /\ sealed[e].name = dm[e].name BY <1>3
<1>6. failures' \in Nat /\ (failures' = 0 => failures = 0 /\ good)
  BY <1>1 DEF WriteMeta, DeviceWrite
<1> HIDE DEF sealed
<1>7. disk_dmeta' = (IF good THEN PageWritten(sealed, d) ELSE disk_dmeta) BY DEF WriteMeta, sealed
<1>8. /\ PageWritten(sealed, d) \in [Dhs -> DirMeta]
      /\ \A e \in Dhs : PageWritten(sealed, d)[e] \in {sealed[e], disk_dmeta[e]}
      /\ PageWritten(sealed, d)[d] = sealed[d]
  BY <1>1, <1>3 DEF PageWritten, PageOf
<1> QED BY <1>1, <1>3, <1>4, <1>5, <1>6, <1>7, <1>8

-----------------------------------------------------------------------------
(* The free list *)

\* Every operation but releasedir runs on a file system with its mount point.
LEMMA RootThere ==
    ASSUME DInv
    PROVE  /\ \A t \in Threads : pc[t] # "idle" => status = "up" /\ created_dirs[Root] # None
           /\ \A p \in Paths : status = "up" /\ created_dirs[p] # None => created_dirs[Root] # None
<1>1. status \in {"up", "down"} BY DEF DInv, TypeOK
<1> QED BY <1>1 DEF DInv, LocalsFit, RootFirst

\* A free meta is a member of the table.
LEMMA FreeInTable == ASSUME TypeOK PROVE \A d \in Range(free_dhs) : d \in Dhs /\ d # None
<1>1. \A i \in DOMAIN free_dhs : free_dhs[i] \in Dhs BY DEF TypeOK
<1> QED BY <1>1, DhsNotNone DEF Range

\* A step of thread t keeps the invariant when it takes no meta from the list, gives
\* paths only to Directories that had one or to the one it makes, links only
\* Directories that are not free, and leaves the mount point alone.
LEMMA ThreadStep ==
    ASSUME DInv, TypeOK', NEW t \in Threads, NEW l, NEW r, Moved(t, l, r),
           status = "up", status' = "up", created_dirs[Root] # None,
           created_dirs'[Root] = created_dirs[Root],
           \/ l = "idle" /\ r = NoLoc
           \/ /\ l # "idle" /\ r.dh \in Dhs
              /\ l \in MkdirPcs \cup RmdirPcs => r.path # Root
              /\ l \in RmdirPcs => r.dh # created_dirs[Root],
           l \in MkdirPcs => pc[t] \in MkdirPcs /\ r.dh = loc[t].dh /\ created_dirs' = created_dirs,
           r.dh \notin Range(free_dhs),
           free_dhs' = free_dhs,
           PathsOnce',
           \A p \in Paths : \/ created_dirs'[p] = None \/ \E q \in Paths : created_dirs'[p] = created_dirs[q]
                            \/ created_dirs'[p] = loc[t].dh /\ pc[t] \in MkdirPcs,
           \A d \in Range(free_dhs) :
              /\ ~dmeta'[d].used /\ children'[d] = {} /\ nlink'[d] = 0
              /\ \A e \in Dhs : d \notin children'[e],
           IsRoot(dmeta'[created_dirs[Root]]), IsRoot(disk_dmeta'[created_dirs[Root]])
    PROVE  DInv'
<1>1. /\ pc'[t] = l /\ loc'[t] = r
      /\ \A u \in Threads : u # t => pc'[u] = pc[u] /\ loc'[u] = loc[u]
  BY DEF Moved
<1>2. LocalsFit'
  <2>1. ASSUME NEW u \in Threads
        PROVE  /\ pc'[u] = "idle" => loc'[u] = NoLoc
               /\ pc'[u] # "idle" => loc'[u].dh \in Dhs
               /\ pc'[u] \in MkdirPcs \cup RmdirPcs => loc'[u].path # Root
               /\ pc'[u] \in RmdirPcs => loc'[u].dh # created_dirs'[Root]
    <3>1. CASE u = t BY <1>1, <3>1 DEF MkdirPcs, RmdirPcs
    <3>2. CASE u # t BY <1>1, <3>2 DEF DInv, LocalsFit
    <3> QED BY <3>1, <3>2
  <2> QED BY <2>1 DEF LocalsFit
<1>3. MadeApart'
  <2>1. ASSUME NEW u \in Threads, pc'[u] \in MkdirPcs
        PROVE  /\ pc[u] \in MkdirPcs /\ loc'[u].dh = loc[u].dh /\ loc[u].dh # None
               /\ \A p \in Paths : created_dirs'[p] # loc[u].dh
    <3>1. pc[u] \in MkdirPcs /\ loc'[u].dh = loc[u].dh BY <1>1, <2>1
    <3>2. loc[u].dh \in Dhs /\ loc[u].dh # None
      BY <3>1, DhsNotNone DEF DInv, LocalsFit, MkdirPcs
    <3>3. \A p \in Paths : created_dirs[p] # loc[u].dh BY <3>1 DEF DInv, MadeApart
    <3>4. CASE u = t BY <1>1, <2>1, <3>1, <3>2, <3>3, <3>4
    <3>5. CASE u # t
      <4>1. pc[t] \in MkdirPcs => loc[t].dh # loc[u].dh BY <3>1, <3>5 DEF DInv, MadeApart
      <4> QED BY <3>1, <3>2, <3>3, <4>1
    <3> QED BY <3>4, <3>5
  <2> QED BY <2>1 DEF DInv, MadeApart
<1>4. RootFirst' BY DEF RootFirst, IsRoot
<1>5. FreeDhsSound'
  <2>1. \A d \in Range(free_dhs) : \A p \in Paths : created_dirs'[p] # d
    BY FreeInTable DEF DInv, FreeDhsSound
  <2>2. \A d \in Range(free_dhs) : \A u \in Threads : loc'[u].dh # d
    BY <1>1 DEF DInv, FreeDhsSound
  <2> QED BY <2>1, <2>2 DEF DInv, FreeDhsSound
<1> QED BY <1>2, <1>3, <1>4, <1>5 DEF DInv

\* A write of the meta of d leaves the free metas free and the mount point used, when
\* the content to be written does.
LEMMA WriteKeeps ==
    ASSUME DInv, NEW dm \in [Dhs -> DirMeta], NEW d \in Dhs, NEW good \in BOOLEAN,
           WriteMeta(dm, d, good), status = "up", created_dirs[Root] # None,
           IsRoot(dm[created_dirs[Root]]),
           \A e \in Range(free_dhs) : ~dm[e].used
    PROVE  /\ IsRoot(dmeta'[created_dirs[Root]]) /\ IsRoot(disk_dmeta'[created_dirs[Root]])
           /\ \A e \in Range(free_dhs) : ~dmeta'[e].used
<1>1. TypeOK /\ created_dirs[Root] \in Dhs BY PathsClosed DEF DInv, TypeOK
<1>2. IsRoot(disk_dmeta[created_dirs[Root]]) BY DEF DInv, RootFirst
<1>3. /\ \A e \in Dhs : dmeta'[e].used = dm[e].used /\ dmeta'[e].name = dm[e].name
      /\ \A e \in Dhs : disk_dmeta'[e] = dmeta'[e] \/ disk_dmeta'[e] = disk_dmeta[e]
  BY <1>1, Written
<1>4. IsRoot(dmeta'[created_dirs[Root]]) BY <1>1, <1>3 DEF IsRoot
<1>5. IsRoot(disk_dmeta'[created_dirs[Root]])
  <2>1. \/ disk_dmeta'[created_dirs[Root]] = dmeta'[created_dirs[Root]]
        \/ disk_dmeta'[created_dirs[Root]] = disk_dmeta[created_dirs[Root]]
    BY <1>1, <1>3
  <2> QED BY <1>2, <1>4, <2>1, Zenon
<1> QED BY <1>1, <1>3, <1>4, <1>5, FreeInTable

\* mkdir writes its meta.
LEMMA MkdirWriteKeeps ==
    ASSUME DInv, NEW t \in Threads, NEW good \in BOOLEAN, MkdirWrite(t, good)
    PROVE  DInv'
<1>1. /\ TypeOK /\ pc[t] = "mkdir_write" /\ WriteMeta(dmeta, loc[t].dh, good)
      /\ UNCHANGED <<status, free_dhs, created_dirs, children, nlink, crashes>>
  BY DEF DInv, MkdirWrite, At
<1>2. /\ status = "up" /\ created_dirs[Root] # None /\ loc[t].dh \in Dhs /\ loc[t].path # Root
  BY <1>1, RootThere DEF DInv, LocalsFit, MkdirPcs
<1>3. dmeta \in [Dhs -> DirMeta] /\ loc[t] \in Locals BY <1>1 DEF TypeOK, Locals
<1>4. PICK l \in Pcs, r \in Locals :
         /\ Moved(t, l, r)
         /\ \/ l = "idle" /\ r = NoLoc
            \/ l \in MkdirPcs /\ r.dh = loc[t].dh /\ r.path = loc[t].path
  <2>1. CASE Goto(t, "mkdir_add") /\ UNCHANGED loc
    BY <1>1, <1>3, <2>1, Moves DEF Pcs, MkdirPcs
  <2>2. CASE /\ loc[t].tries + 1 < MkdirTries
             /\ loc' = [loc EXCEPT ![t].tries = @ + 1]
             /\ UNCHANGED pc
    <3> DEFINE r == [loc[t] EXCEPT !.tries = @ + 1]
    <3>1. loc[t].tries + 1 \in 0 .. MkdirTries - 1 BY <1>3, <2>2, DirAssumption DEF Locals
    <3>2. r \in Locals /\ r.dh = loc[t].dh /\ r.path = loc[t].path BY <1>3, <3>1 DEF Locals
    <3>3. loc' = [loc EXCEPT ![t] = r] BY <1>1, <2>2 DEF TypeOK
    <3>4. Goto(t, "mkdir_write") BY <1>1, <2>2 DEF Goto, TypeOK
    <3> HIDE DEF r
    <3> QED BY <1>1, <3>2, <3>3, <3>4, Moves DEF Pcs, MkdirPcs
  <2>3. CASE Return(t) BY <1>1, <2>3, Moves DEF Pcs
  <2> QED BY <2>1, <2>2, <2>3 DEF MkdirWrite
<1>5. TypeOK'
  <2>1. dmeta' \in [Dhs -> DirMeta] /\ disk_dmeta' \in [Dhs -> DirMeta] /\ failures' \in Nat
    BY <1>1, <1>2, <1>3, Written
  <2> QED BY <1>1, <1>4, <2>1 DEF TypeOK, Moved, Pcs, Locals
<1>6. \A e \in Range(free_dhs) : ~dmeta[e].used BY DEF DInv, FreeDhsSound
<1>7. IsRoot(dmeta[created_dirs[Root]]) BY <1>2 DEF DInv, RootFirst
<1>8. /\ IsRoot(dmeta'[created_dirs[Root]]) /\ IsRoot(disk_dmeta'[created_dirs[Root]])
      /\ \A e \in Range(free_dhs) : ~dmeta'[e].used
  BY <1>1, <1>2, <1>3, <1>6, <1>7, WriteKeeps
<1>9. r.dh \notin Range(free_dhs)
  <2>1. CASE r = NoLoc BY <1>1, <2>1, FreeInTable DEF NoLoc
  <2>2. CASE r.dh = loc[t].dh BY <2>2 DEF DInv, FreeDhsSound
  <2> QED BY <1>4, <2>1, <2>2
<1>10. PathsOnce' BY <1>1 DEF DInv, PathsOnce
<1>11. pc[t] \in MkdirPcs /\ (l \in MkdirPcs => l # "idle" /\ l \notin RmdirPcs)
  BY <1>1 DEF MkdirPcs, RmdirPcs
<1>12. \A d \in Range(free_dhs) : /\ ~dmeta'[d].used /\ children'[d] = {} /\ nlink'[d] = 0
                                  /\ \A e \in Dhs : d \notin children'[e]
  BY <1>1, <1>8 DEF DInv, FreeDhsSound
<1> QED BY <1>1, <1>2, <1>4, <1>5, <1>8, <1>9, <1>10, <1>11, <1>12, ThreadStep

\* What the end of a mkdir does to the maps.
ChildAdded(p, d) ==
    /\ children' \in [Dhs -> SUBSET Dhs] /\ created_dirs' \in [Paths -> Dhs \cup {None}]
    /\ \A e \in Dhs : children'[e] =
          IF e = created_dirs[Parent(p)] THEN children[e] \cup {d} ELSE children[e]
    /\ \A q \in Paths : created_dirs'[q] = IF q = p THEN d ELSE created_dirs[q]

\* A mkdir does so.
LEMMA MkdirAdds ==
    ASSUME DInv, NEW t \in Threads, MkdirAdd(t)
    PROVE  /\ pc[t] = "mkdir_add" /\ Moved(t, "idle", NoLoc)
           /\ UNCHANGED <<status, dmeta, disk_dmeta, free_dhs, nlink, crashes, failures>>
           /\ status = "up" /\ created_dirs[Root] # None
           /\ loc[t].dh \in Dhs /\ loc[t].path \in Paths /\ loc[t].path # Root /\ Parent(loc[t].path) \in Paths
           /\ ChildAdded(loc[t].path, loc[t].dh)
<1> DEFINE p == loc[t].path
           d == loc[t].dh
           parent == created_dirs[Parent(p)]
<1>1. /\ TypeOK /\ pc[t] = "mkdir_add" /\ Moved(t, "idle", NoLoc)
      /\ UNCHANGED <<status, dmeta, disk_dmeta, free_dhs, nlink, crashes, failures>>
  BY Moves DEF DInv, MkdirAdd, At
<1>2. status = "up" /\ created_dirs[Root] # None /\ d \in Dhs /\ p # Root /\ p \in Paths
  BY <1>1, RootThere DEF DInv, LocalsFit, TypeOK, MkdirPcs
<1>3. Parent(p) \in Paths BY <1>2, PathsClosed
<1>4. /\ children' \in [Dhs -> SUBSET Dhs]
      /\ \A e \in Dhs : children'[e] = IF e = parent THEN children[e] \cup {d} ELSE children[e]
  <2>1. children \in [Dhs -> SUBSET Dhs] BY <1>1 DEF TypeOK
  <2>2. children' = [children EXCEPT ![parent] = @ \cup {d}] BY DEF MkdirAdd
  <2> QED BY <1>2, <2>1, <2>2
<1>5. /\ created_dirs' \in [Paths -> Dhs \cup {None}]
      /\ \A q \in Paths : created_dirs'[q] = IF q = p THEN d ELSE created_dirs[q]
  BY <1>1, <1>2 DEF MkdirAdd, TypeOK
<1>6. ChildAdded(p, d) BY <1>4, <1>5 DEF ChildAdded
<1> QED BY <1>1, <1>2, <1>3, <1>6

\* mkdir enters its Directory in the maps.
LEMMA MkdirAddKeeps ==
    ASSUME DInv, NEW t \in Threads, MkdirAdd(t)
    PROVE  DInv'
<1> DEFINE p == loc[t].path
           d == loc[t].dh
           parent == created_dirs[Parent(p)]
<1>1. /\ TypeOK /\ pc[t] = "mkdir_add" /\ pc[t] \in MkdirPcs
      /\ UNCHANGED <<status, dmeta, disk_dmeta, free_dhs, nlink, crashes, failures>>
      /\ Moved(t, "idle", NoLoc)
  BY MkdirAdds DEF DInv, MkdirPcs
<1>2. status = "up" /\ created_dirs[Root] # None /\ d \in Dhs /\ p # Root /\ p \in Paths
  BY MkdirAdds
<1>3. Parent(p) \in Paths /\ Root \in Paths BY MkdirAdds, PathsClosed
<1>4. /\ children' \in [Dhs -> SUBSET Dhs]
      /\ \A e \in Dhs : children'[e] = IF e = parent THEN children[e] \cup {d} ELSE children[e]
  BY MkdirAdds DEF ChildAdded
<1>5. /\ created_dirs' \in [Paths -> Dhs \cup {None}]
      /\ \A q \in Paths : created_dirs'[q] = IF q = p THEN d ELSE created_dirs[q]
  BY MkdirAdds DEF ChildAdded
<1>6. TypeOK' BY <1>1, <1>4, <1>5 DEF TypeOK, Moved, Pcs, Locals
<1>7. PathsOnce'
  <2>1. \A q \in Paths : created_dirs[q] # d BY <1>1 DEF DInv, MadeApart
  <2> QED BY <1>5, <2>1 DEF DInv, PathsOnce
<1>8. \A e \in Range(free_dhs) : e # d /\ e # parent /\ e \in Dhs
  BY <1>1, <1>3, FreeInTable DEF DInv, FreeDhsSound
<1>9. \A e \in Range(free_dhs) : /\ ~dmeta'[e].used /\ children'[e] = {} /\ nlink'[e] = 0
                                 /\ \A g \in Dhs : e \notin children'[g]
  BY <1>1, <1>4, <1>8 DEF DInv, FreeDhsSound
<1>10. NoLoc.dh \notin Range(free_dhs) BY <1>1, FreeInTable DEF NoLoc
<1>11. created_dirs'[Root] = created_dirs[Root] BY <1>2, <1>3, <1>5
<1>12. IsRoot(dmeta'[created_dirs[Root]]) /\ IsRoot(disk_dmeta'[created_dirs[Root]])
  BY <1>1, <1>2 DEF DInv, RootFirst
<1>13. \A q \in Paths : \/ \E r \in Paths : created_dirs'[q] = created_dirs[r]
                        \/ created_dirs'[q] = loc[t].dh
  BY <1>5
<1>14. "idle" \notin MkdirPcs BY DEF MkdirPcs
<1> QED BY <1>1, <1>2, <1>6, <1>7, <1>9, <1>10, <1>11, <1>12, <1>13, <1>14, ThreadStep

\* The content that rmdir and rename write.
LEMMA Contents ==
    ASSUME TypeOK, NEW d \in Dhs, NEW q \in Paths
    PROVE  /\ \E dm \in [Dhs -> DirMeta] :
                 /\ dm = [dmeta EXCEPT ![d].used = FALSE]
                 /\ dm[d] = [used |-> FALSE, name |-> dmeta[d].name, ok |-> dmeta[d].ok]
                 /\ \A e \in Dhs : e # d => dm[e] = dmeta[e]
           /\ \E dm \in [Dhs -> DirMeta] :
                 /\ dm = [dmeta EXCEPT ![d].name = q]
                 /\ dm[d] = [used |-> dmeta[d].used, name |-> q, ok |-> dmeta[d].ok]
                 /\ \A e \in Dhs : e # d => dm[e] = dmeta[e]
<1>1. PICK m \in DirMeta : m = dmeta[d] BY DEF TypeOK
<1>2. PICK x \in DirMeta : x = [m EXCEPT !.used = FALSE] BY DEF DirMeta
<1>3. x.used = FALSE /\ x.name = m.name /\ x.ok = m.ok BY <1>2 DEF DirMeta
<1>4. x = [used |-> FALSE, name |-> m.name, ok |-> m.ok] BY <1>3, MetaFields
<1>5. PICK y \in DirMeta : y = [m EXCEPT !.name = q] BY DEF DirMeta
<1>6. y.used = m.used /\ y.name = q /\ y.ok = m.ok BY <1>5 DEF DirMeta
<1>7. y = [used |-> m.used, name |-> q, ok |-> m.ok] BY <1>6, MetaFields
<1>8. [dmeta EXCEPT ![d].used = FALSE] = [dmeta EXCEPT ![d] = x] BY <1>1, <1>2
<1>9. [dmeta EXCEPT ![d].name = q] = [dmeta EXCEPT ![d] = y] BY <1>1, <1>5
<1>10. dmeta \in [Dhs -> DirMeta] BY DEF TypeOK
<1>11. PICK dm : dm = [dmeta EXCEPT ![d] = x] OBVIOUS
<1>12. dm \in [Dhs -> DirMeta] /\ dm[d] = x /\ \A e \in Dhs : e # d => dm[e] = dmeta[e]
  BY <1>10, <1>11
<1>13. PICK dn : dn = [dmeta EXCEPT ![d] = y] OBVIOUS
<1>14. dn \in [Dhs -> DirMeta] /\ dn[d] = y /\ \A e \in Dhs : e # d => dn[e] = dmeta[e]
  BY <1>10, <1>13
<1>15. dm = [dmeta EXCEPT ![d].used = FALSE] /\ dn = [dmeta EXCEPT ![d].name = q]
  BY <1>8, <1>9, <1>11, <1>13, Zenon
<1>16. /\ dm[d] = [used |-> FALSE, name |-> dmeta[d].name, ok |-> dmeta[d].ok]
       /\ dn[d] = [used |-> dmeta[d].used, name |-> q, ok |-> dmeta[d].ok]
  BY <1>1, <1>4, <1>7, <1>12, <1>14, Zenon
<1> QED BY <1>12, <1>14, <1>15, <1>16, Zenon

\* The start of a rmdir.
LEMMA RmdirStarts ==
    ASSUME DInv, NEW t \in Threads, NEW p \in Paths, DeleteDirectory(t, p)
    PROVE  /\ pc[t] = "idle" /\ created_dirs[p] \in Dhs /\ Removable(created_dirs[p])
           /\ Unlocked({p, Parent(p)}) /\ ~Opening(p)
           /\ UNCHANGED <<status, dmeta, free_dhs, created_dirs, children, nlink, disk_dmeta, crashes, failures>>
           /\ \E r \in Locals : /\ Moved(t, "rmdir_write", r) /\ r.dh = created_dirs[p]
                                /\ r.path = p /\ r.locks = {p, Parent(p)}
<1> DEFINE d == created_dirs[p]
<1>1. /\ TypeOK /\ p # Root /\ d \in Dhs /\ pc[t] = "idle" /\ Removable(d)
      /\ Unlocked({p, Parent(p)}) /\ ~Opening(p)
      /\ UNCHANGED <<status, dmeta, free_dhs, created_dirs, children, nlink, disk_dmeta, crashes, failures>>
  BY DEF DInv, TypeOK, DeleteDirectory, Start, FindDirectory, memory
<1> DEFINE r == [locks |-> {p, Parent(p)}, path |-> p, dh |-> d, tries |-> 0]
<1>2. 0 \in 0 .. MkdirTries - 1 BY DirAssumption
<1>3. r \in Locals BY <1>1, <1>2, PathsClosed DEF Locals
<1>4. loc[t] = NoLoc /\ loc \in [Threads -> Locals] BY <1>1 DEF DInv, LocalsFit, TypeOK, Locals
<1>5. loc' = [loc EXCEPT ![t] = r] BY <1>4 DEF DeleteDirectory, NoLoc
<1>6. Goto(t, "rmdir_write") BY DEF DeleteDirectory
<1>7. r.locks = {p, Parent(p)} /\ r.path = p /\ r.dh = d OBVIOUS
<1> HIDE DEF r
<1>8. Moved(t, "rmdir_write", r) BY <1>1, <1>3, <1>5, <1>6, Moves DEF Pcs
<1> QED BY <1>1, <1>3, <1>7, <1>8

\* rmdir finds a Directory with a path.
LEMMA DeleteDirectoryKeeps ==
    ASSUME DInv, NEW t \in Threads, NEW p \in Paths, DeleteDirectory(t, p)
    PROVE  DInv'
<1> DEFINE d == created_dirs[p]
<1>1. /\ TypeOK /\ status = "up" /\ p # Root /\ d \in Dhs /\ d # None /\ pc[t] = "idle"
      /\ UNCHANGED <<status, dmeta, free_dhs, created_dirs, children, nlink, disk_dmeta, crashes, failures>>
  BY DEF DInv, TypeOK, DeleteDirectory, Start, FindDirectory, memory
<1>2. PICK r \in Locals : /\ Moved(t, "rmdir_write", r) /\ r.dh = d
                          /\ r.path = p /\ r.locks = {p, Parent(p)}
  BY RmdirStarts
<1>3. created_dirs[Root] # None /\ Root \in Paths BY <1>1, RootThere, PathsClosed
<1>4. TypeOK' BY <1>1, <1>2 DEF TypeOK, Moved, Pcs, Locals
<1>5. d # created_dirs[Root] BY <1>1, <1>3 DEF DInv, PathsOnce
<1>6. d \notin Range(free_dhs) BY DEF DInv, FreeDhsSound
<1>7. PathsOnce' BY <1>1 DEF DInv, PathsOnce
<1>8. \A e \in Range(free_dhs) : /\ ~dmeta'[e].used /\ children'[e] = {} /\ nlink'[e] = 0
                                 /\ \A g \in Dhs : e \notin children'[g]
  BY <1>1 DEF DInv, FreeDhsSound
<1>9. IsRoot(dmeta'[created_dirs[Root]]) /\ IsRoot(disk_dmeta'[created_dirs[Root]])
  BY <1>1, <1>3 DEF DInv, RootFirst
<1>10. "rmdir_write" \notin MkdirPcs BY DEF MkdirPcs
<1> QED BY <1>1, <1>2, <1>3, <1>4, <1>5, <1>6, <1>7, <1>8, <1>9, <1>10, ThreadStep

\* rmdir clears a meta that is not the mount point's.
LEMMA RmdirWriteKeeps ==
    ASSUME DInv, NEW t \in Threads, NEW good \in BOOLEAN, RmdirWrite(t, good)
    PROVE  DInv'
<1> DEFINE d == loc[t].dh
<1>1. /\ TypeOK /\ pc[t] = "rmdir_write"
      /\ UNCHANGED <<status, free_dhs, created_dirs, children, nlink, crashes>>
  BY DEF DInv, RmdirWrite, At
<1>2. /\ status = "up" /\ created_dirs[Root] # None /\ d \in Dhs /\ loc[t].path # Root
      /\ d # created_dirs[Root] /\ loc[t] \in Locals /\ Root \in Paths
  BY <1>1, RootThere, PathsClosed DEF DInv, LocalsFit, RmdirPcs, TypeOK, Locals
<1>3. PICK dm \in [Dhs -> DirMeta] :
         /\ dm = [dmeta EXCEPT ![d].used = FALSE]
         /\ dm[d] = [used |-> FALSE, name |-> dmeta[d].name, ok |-> dmeta[d].ok]
         /\ \A e \in Dhs : e # d => dm[e] = dmeta[e]
  BY <1>1, <1>2, Contents, Zenon
<1>4. WriteMeta(dm, d, good) /\ ~dm[d].used BY <1>3 DEF RmdirWrite
<1>5. PICK l \in Pcs, r \in Locals :
         Moved(t, l, r) /\ ((l = "idle" /\ r = NoLoc) \/ (l = "rmdir_remove" /\ r = loc[t]))
  <2>1. CASE Goto(t, "rmdir_remove") /\ UNCHANGED loc BY <1>1, <1>2, <2>1, Moves DEF Pcs
  <2>2. CASE Return(t) BY <1>1, <2>2, Moves DEF Pcs
  <2> QED BY <2>1, <2>2 DEF RmdirWrite
<1>6. TypeOK'
  <2>1. dmeta' \in [Dhs -> DirMeta] /\ disk_dmeta' \in [Dhs -> DirMeta] /\ failures' \in Nat
    BY <1>1, <1>2, <1>4, Written
  <2> QED BY <1>1, <1>5, <2>1 DEF TypeOK, Moved, Pcs, Locals
<1>7. \A e \in Range(free_dhs) : e # d /\ ~dm[e].used
  BY <1>1, <1>3, <1>4, FreeInTable DEF DInv, FreeDhsSound
<1>8. IsRoot(dm[created_dirs[Root]])
  BY <1>1, <1>2, <1>3 DEF DInv, RootFirst, TypeOK
<1>9. /\ IsRoot(dmeta'[created_dirs[Root]]) /\ IsRoot(disk_dmeta'[created_dirs[Root]])
      /\ \A e \in Range(free_dhs) : ~dmeta'[e].used
  BY <1>1, <1>2, <1>4, <1>7, <1>8, WriteKeeps
<1>10. r.dh \notin Range(free_dhs) BY <1>1, <1>5, <1>7, FreeInTable DEF NoLoc
<1>11. PathsOnce' BY <1>1 DEF DInv, PathsOnce
<1>12. l \notin MkdirPcs BY <1>5 DEF MkdirPcs
<1>13. \A e \in Range(free_dhs) : /\ ~dmeta'[e].used /\ children'[e] = {} /\ nlink'[e] = 0
                                  /\ \A g \in Dhs : e \notin children'[g]
  BY <1>1, <1>9 DEF DInv, FreeDhsSound
<1> QED BY <1>1, <1>2, <1>5, <1>6, <1>9, <1>10, <1>11, <1>12, <1>13, ThreadStep

\* rmdir takes a Directory out of the maps.
LEMMA RmdirRemoveKeeps ==
    ASSUME DInv, NEW t \in Threads, RmdirRemove(t)
    PROVE  DInv'
<1> DEFINE p == loc[t].path
           d == loc[t].dh
           parent == created_dirs[Parent(p)]
<1>1. /\ TypeOK /\ pc[t] = "rmdir_remove" /\ pc[t] \in RmdirPcs
      /\ UNCHANGED <<status, dmeta, disk_dmeta, free_dhs, nlink, crashes, failures>>
      /\ Moved(t, "idle", NoLoc)
  BY Moves DEF DInv, RmdirRemove, At, RmdirPcs
<1>2. /\ status = "up" /\ created_dirs[Root] # None /\ p # Root /\ p \in Paths /\ Root \in Paths
  BY <1>1, RootThere, PathsClosed DEF DInv, LocalsFit, TypeOK
<1>3. /\ children' \in [Dhs -> SUBSET Dhs]
      /\ \A e \in Dhs : children'[e] \subseteq children[e]
  <2>1. children \in [Dhs -> SUBSET Dhs] BY <1>1 DEF TypeOK
  <2>2. children' = [children EXCEPT ![parent] = @ \ {d}] \/ children' = children BY DEF RmdirRemove
  <2> QED BY <2>1, <2>2
<1>4. /\ created_dirs' \in [Paths -> Dhs \cup {None}]
      /\ \A q \in Paths : created_dirs'[q] = created_dirs[q] \/ (q = p /\ created_dirs'[q] = None)
  <2>1. created_dirs \in [Paths -> Dhs \cup {None}] BY <1>1 DEF TypeOK
  <2>2. created_dirs' = [created_dirs EXCEPT ![p] = None] \/ created_dirs' = created_dirs
    BY DEF RmdirRemove
  <2> QED BY <2>1, <2>2
<1>5. TypeOK' BY <1>1, <1>3, <1>4 DEF TypeOK, Moved, Pcs, Locals
<1>6. PathsOnce' BY <1>4 DEF DInv, PathsOnce
<1>7. \A e \in Range(free_dhs) : /\ ~dmeta'[e].used /\ children'[e] = {} /\ nlink'[e] = 0
                                 /\ \A g \in Dhs : e \notin children'[g]
  BY <1>1, <1>3, FreeInTable DEF DInv, FreeDhsSound
<1>8. NoLoc.dh \notin Range(free_dhs) BY <1>1, FreeInTable DEF NoLoc
<1>9. created_dirs'[Root] = created_dirs[Root] BY <1>2, <1>4
<1>10. IsRoot(dmeta'[created_dirs[Root]]) /\ IsRoot(disk_dmeta'[created_dirs[Root]])
  BY <1>1, <1>2 DEF DInv, RootFirst
<1>11. \A q \in Paths : created_dirs'[q] = None \/ \E r \in Paths : created_dirs'[q] = created_dirs[r]
  BY <1>4
<1>12. "idle" \notin MkdirPcs BY DEF MkdirPcs
<1> QED BY <1>1, <1>2, <1>5, <1>6, <1>7, <1>8, <1>9, <1>10, <1>11, <1>12, ThreadStep

\* A path is within itself.
LEMMA WithinSelf == \A p \in Paths : Within(p, p)
<1>1. ASSUME NEW p \in Paths PROVE Within(p, p)
  <2>1. PICK k \in 0 .. MaxDepth : p \in [1 .. k -> Comps] BY DEF Paths
  <2>2. k \in Nat BY <2>1, DirAssumption
  <2>3. p \in Seq(Comps) /\ Len(p) \in Nat BY <2>1, <2>2
  <2>4. SubSeq(p, 1, Len(p)) = p BY <2>3
  <2> QED BY <2>3, <2>4 DEF Within
<1> QED BY <1>1

\* What rename does to the maps and to the meta of the Directory that it moves.
RenameMaps(p, q) ==
    /\ p # Root /\ q # Root /\ p # q
    /\ Parent(p) \in Paths /\ Parent(q) \in Paths /\ Parent(q) # p /\ Parent(p) # q
    /\ Parent(p) # p /\ Parent(q) # q
    /\ created_dirs[p] \in Dhs /\ created_dirs[Parent(p)] \in Dhs /\ created_dirs[Parent(q)] \in Dhs
    /\ created_dirs' \in [Paths -> Dhs \cup {None}] /\ children' \in [Dhs -> SUBSET Dhs]
    /\ \A x \in Paths : created_dirs'[x] =
          IF x = p THEN None
          ELSE IF x = q /\ created_dirs[q] = None THEN created_dirs[p] ELSE created_dirs[x]
    /\ \A e, g \in Dhs : g \in children'[e] <=>
          \/ g \in children[e] /\ ~(e = created_dirs[Parent(p)] /\ g = created_dirs[p])
          \/ e = created_dirs[Parent(q)] /\ g = created_dirs[p]
RenameMeta(d, q, good) == \E dm \in [Dhs -> DirMeta] :
    /\ WriteMeta(dm, d, good)
    /\ dm[d] = [used |-> dmeta[d].used, name |-> q, ok |-> dmeta[d].ok]
    /\ \A e \in Dhs : e # d => dm[e] = dmeta[e]

\* A rename does so.
LEMMA Renamed ==
    ASSUME DInv, NEW t \in Threads, NEW p \in Paths, NEW q \in Paths, NEW good \in BOOLEAN,
           RenameDirectory(t, p, q, good)
    PROVE  /\ status = "up" /\ pc[t] = "idle"
           /\ UNCHANGED <<status, free_dhs, nlink, pc, loc, crashes>>
           /\ RenameMaps(p, q) /\ RenameMeta(created_dirs[p], q, good)
<1> DEFINE d == created_dirs[p]
           from == created_dirs[Parent(p)]
           to == created_dirs[Parent(q)]
<1>1. /\ TypeOK /\ status = "up" /\ pc[t] = "idle" /\ p # Root /\ q # Root /\ FindDirectory(p)
      /\ ~Within(p, q) /\ ~Within(q, p) /\ Rename(p, q, good)
      /\ UNCHANGED <<status, free_dhs, nlink, pc, loc, crashes>>
  BY DEF DInv, RenameDirectory, Start
<1>2. /\ p # q /\ Parent(p) \in Paths /\ Parent(q) \in Paths /\ Parent(q) # p /\ Parent(p) # q
      /\ Parent(p) # p /\ Parent(q) # q
  BY <1>1, PathsClosed, WithinSelf
<1>3. d \in Dhs /\ from \in Dhs /\ to \in Dhs
  <2>1. d # None /\ from # None /\ to # None BY <1>1 DEF FindDirectory, Rename
  <2> QED BY <1>1, <1>2, <2>1 DEF TypeOK
<1>4. /\ created_dirs' \in [Paths -> Dhs \cup {None}]
      /\ \A x \in Paths : created_dirs'[x] =
           IF x = p THEN None ELSE IF x = q /\ created_dirs[q] = None THEN d ELSE created_dirs[x]
  <2>1. created_dirs \in [Paths -> Dhs \cup {None}] BY <1>1 DEF TypeOK
  <2>2. PICK v : v = IF created_dirs[q] = None THEN d ELSE created_dirs[q] OBVIOUS
  <2>3. v \in Dhs \cup {None} BY <1>3, <2>1, <2>2
  <2>4. created_dirs' = [created_dirs EXCEPT ![p] = None, ![q] = v]
    BY <1>1, <1>2, <2>1, <2>2 DEF Rename
  <2> QED BY <1>2, <2>1, <2>2, <2>3, <2>4
<1>5. /\ children' \in [Dhs -> SUBSET Dhs]
      /\ \A e, g \in Dhs : g \in children'[e] <=>
           \/ g \in children[e] /\ ~(e = from /\ g = d)
           \/ e = to /\ g = d
  <2>1. children \in [Dhs -> SUBSET Dhs] BY <1>1 DEF TypeOK
  <2>2. children' = [e \in Dhs |->
                      (IF e = from THEN children[e] \ {d} ELSE children[e])
                        \cup (IF e = to THEN {d} ELSE {})]
    BY <1>1 DEF Rename
  <2>3. \A e \in Dhs : children'[e] = (IF e = from THEN children[e] \ {d} ELSE children[e])
                                        \cup (IF e = to THEN {d} ELSE {})
    BY <2>2
  <2>4. \A e \in Dhs : children'[e] \in SUBSET Dhs BY <1>3, <2>1, <2>3
  <2>5. children' \in [Dhs -> SUBSET Dhs] BY <2>2, <2>4
  <2> QED BY <2>3, <2>5
<1>6. \E dm \in [Dhs -> DirMeta] :
         /\ WriteMeta(dm, d, good)
         /\ dm[d] = [used |-> dmeta[d].used, name |-> q, ok |-> dmeta[d].ok]
         /\ \A e \in Dhs : e # d => dm[e] = dmeta[e]
  <2>1. PICK dm \in [Dhs -> DirMeta] :
           /\ dm = [dmeta EXCEPT ![d].name = q]
           /\ dm[d] = [used |-> dmeta[d].used, name |-> q, ok |-> dmeta[d].ok]
           /\ \A e \in Dhs : e # d => dm[e] = dmeta[e]
    BY <1>1, <1>3, Contents, Zenon
  <2>2. WriteMeta(dm, d, good) BY <1>1, <2>1 DEF Rename
  <2> QED BY <2>1, <2>2, Zenon
<1>7. RenameMaps(p, q) BY <1>1, <1>2, <1>3, <1>4, <1>5 DEF RenameMaps
<1>8. RenameMeta(d, q, good) BY <1>6, Zenon DEF RenameMeta
<1> QED BY <1>1, <1>7, <1>8

\* rename moves a Directory that has a path to a path that no other has.
LEMMA RenameDirectoryKeeps ==
    ASSUME DInv, NEW t \in Threads, NEW p \in Paths, NEW q \in Paths, NEW good \in BOOLEAN,
           RenameDirectory(t, p, q, good)
    PROVE  DInv'
<1> DEFINE d == created_dirs[p]
<1>1. /\ status = "up" /\ pc[t] = "idle" /\ p # Root /\ q # Root /\ p # q /\ d \in Dhs
      /\ Parent(q) \in Paths /\ created_dirs[Parent(q)] \in Dhs
      /\ UNCHANGED <<status, free_dhs, nlink, pc, loc, crashes>>
  BY Renamed DEF RenameMaps
<1>2. /\ created_dirs' \in [Paths -> Dhs \cup {None}]
      /\ \A x \in Paths : created_dirs'[x] =
           IF x = p THEN None ELSE IF x = q /\ created_dirs[q] = None THEN d ELSE created_dirs[x]
  BY Renamed DEF RenameMaps
<1>3. /\ children' \in [Dhs -> SUBSET Dhs]
      /\ \A e, g \in Dhs : g \in children'[e] => g \in children[e] \/ (e = created_dirs[Parent(q)] /\ g = d)
  BY Renamed DEF RenameMaps
<1>4. PICK dm \in [Dhs -> DirMeta] :
         /\ WriteMeta(dm, d, good)
         /\ dm[d] = [used |-> dmeta[d].used, name |-> q, ok |-> dmeta[d].ok]
         /\ \A e \in Dhs : e # d => dm[e] = dmeta[e]
  BY Renamed DEF RenameMeta
<1>5. TypeOK /\ d # None BY <1>1, DhsNotNone DEF DInv
<1>6. /\ created_dirs[Root] # None /\ Root \in Paths /\ created_dirs[Root] # d
      /\ created_dirs[Root] \in Dhs
  BY <1>1, <1>5, RootThere, PathsClosed DEF DInv, PathsOnce, TypeOK
<1>7. loc[t] = NoLoc /\ Moved(t, "idle", NoLoc)
  BY <1>1, <1>5 DEF Moved, DInv, LocalsFit, TypeOK, Pcs, Locals
<1>8. TypeOK'
  <2>1. dmeta' \in [Dhs -> DirMeta] /\ disk_dmeta' \in [Dhs -> DirMeta] /\ failures' \in Nat
    BY <1>1, <1>4, <1>5, Written
  <2> QED BY <1>1, <1>2, <1>3, <1>5, <2>1 DEF TypeOK
<1>9. \A e \in Range(free_dhs) : e # d /\ e \in Dhs /\ e # created_dirs[Parent(q)]
  BY <1>1, <1>5, FreeInTable DEF DInv, FreeDhsSound
<1>10. \A e \in Range(free_dhs) : ~dm[e].used BY <1>4, <1>9 DEF DInv, FreeDhsSound
<1>11. IsRoot(dm[created_dirs[Root]]) BY <1>1, <1>4, <1>6 DEF DInv, RootFirst
<1>12. /\ IsRoot(dmeta'[created_dirs[Root]]) /\ IsRoot(disk_dmeta'[created_dirs[Root]])
       /\ \A e \in Range(free_dhs) : ~dmeta'[e].used
  BY <1>1, <1>4, <1>6, <1>10, <1>11, WriteKeeps
<1>13. PathsOnce' BY <1>2, <1>5 DEF DInv, PathsOnce
<1>14. \A e \in Range(free_dhs) : children'[e] = {} /\ \A g \in Dhs : e \notin children'[g]
  <2>1. ASSUME NEW e \in Range(free_dhs), NEW g \in Dhs PROVE g \notin children'[e] /\ e \notin children'[g]
    <3>1. g \notin children[e] /\ e \notin children[g] BY <1>9 DEF DInv, FreeDhsSound
    <3> QED BY <1>3, <1>9, <3>1
  <2>2. \A e \in Range(free_dhs) : children'[e] \subseteq Dhs BY <1>3, <1>9
  <2> QED BY <2>1, <2>2
<1>15. NoLoc.dh \notin Range(free_dhs) BY <1>5, FreeInTable DEF NoLoc
<1>16. created_dirs'[Root] = created_dirs[Root] BY <1>1, <1>2, <1>6
<1>17. \A x \in Paths : created_dirs'[x] = None \/ \E y \in Paths : created_dirs'[x] = created_dirs[y]
  BY <1>2
<1>18. "idle" \notin MkdirPcs BY DEF MkdirPcs
<1>19. \A e \in Range(free_dhs) : nlink'[e] = 0 BY <1>1 DEF DInv, FreeDhsSound
<1> QED BY <1>1, <1>6, <1>7, <1>8, <1>12, <1>13, <1>14, <1>15, <1>16, <1>17, <1>18, <1>19, ThreadStep

\* The start of an opendir.
LEMMA OpendirStarts ==
    ASSUME DInv, NEW t \in Threads, NEW p \in Paths, OpenDirectory(t, p)
    PROVE  /\ status = "up" /\ pc[t] = "idle" /\ created_dirs[p] \in Dhs /\ ~Removing(p)
           /\ UNCHANGED <<status, dmeta, free_dhs, created_dirs, children, nlink, disk_dmeta, crashes, failures>>
           /\ \E r \in Locals : /\ Moved(t, "opendir_inc", r) /\ r.dh = created_dirs[p]
                                /\ r.path = p /\ r.locks = {}
<1> DEFINE d == created_dirs[p]
<1>1. /\ TypeOK /\ status = "up" /\ d \in Dhs /\ pc[t] = "idle" /\ ~Removing(p)
      /\ UNCHANGED <<status, dmeta, free_dhs, created_dirs, children, nlink, disk_dmeta, crashes, failures>>
  BY DEF DInv, TypeOK, OpenDirectory, Start, memory
<1> DEFINE r == [locks |-> {}, path |-> p, dh |-> d, tries |-> 0]
<1>2. 0 \in 0 .. MkdirTries - 1 BY DirAssumption
<1>3. r \in Locals BY <1>1, <1>2 DEF Locals
<1>4. loc[t] = NoLoc /\ loc \in [Threads -> Locals] BY <1>1 DEF DInv, LocalsFit, TypeOK, Locals
<1>5. loc' = [loc EXCEPT ![t] = r] BY <1>4 DEF OpenDirectory, NoLoc
<1>6. Goto(t, "opendir_inc") BY DEF OpenDirectory
<1>7. r.locks = {} /\ r.path = p /\ r.dh = d OBVIOUS
<1> HIDE DEF r
<1>8. Moved(t, "opendir_inc", r) BY <1>1, <1>3, <1>5, <1>6, Moves DEF Pcs
<1> QED BY <1>1, <1>3, <1>7, <1>8

\* opendir finds a Directory with a path.
LEMMA OpenDirectoryKeeps ==
    ASSUME DInv, NEW t \in Threads, NEW p \in Paths, OpenDirectory(t, p)
    PROVE  DInv'
<1> DEFINE d == created_dirs[p]
<1>1. /\ TypeOK /\ status = "up" /\ d \in Dhs /\ d # None /\ pc[t] = "idle"
      /\ UNCHANGED <<status, dmeta, free_dhs, created_dirs, children, nlink, disk_dmeta, crashes, failures>>
  BY OpendirStarts, DhsNotNone DEF DInv
<1>2. PICK r \in Locals : Moved(t, "opendir_inc", r) /\ r.dh = d /\ r.path = p /\ r.locks = {}
  BY OpendirStarts
<1>3. created_dirs[Root] # None /\ Root \in Paths BY <1>1, RootThere, PathsClosed
<1>4. TypeOK' BY <1>1, <1>2 DEF TypeOK, Moved, Pcs, Locals
<1>5. d \notin Range(free_dhs) BY DEF DInv, FreeDhsSound
<1>6. PathsOnce' BY <1>1 DEF DInv, PathsOnce
<1>7. \A e \in Range(free_dhs) : /\ ~dmeta'[e].used /\ children'[e] = {} /\ nlink'[e] = 0
                                 /\ \A g \in Dhs : e \notin children'[g]
  BY <1>1 DEF DInv, FreeDhsSound
<1>8. IsRoot(dmeta'[created_dirs[Root]]) /\ IsRoot(disk_dmeta'[created_dirs[Root]])
  BY <1>1, <1>3 DEF DInv, RootFirst
<1>9. "opendir_inc" \notin MkdirPcs \cup RmdirPcs /\ "opendir_inc" # "idle" BY DEF MkdirPcs, RmdirPcs
<1> QED BY <1>1, <1>2, <1>3, <1>4, <1>5, <1>6, <1>7, <1>8, <1>9, ThreadStep

\* opendir counts its handle.
LEMMA OpenIncKeeps ==
    ASSUME DInv, NEW t \in Threads, OpenInc(t)
    PROVE  DInv'
<1> DEFINE d == loc[t].dh
<1>1. /\ TypeOK /\ pc[t] = "opendir_inc"
      /\ UNCHANGED <<status, dmeta, disk_dmeta, free_dhs, created_dirs, children, crashes, failures>>
      /\ Moved(t, "idle", NoLoc)
  BY Moves DEF DInv, OpenInc, At
<1>2. status = "up" /\ created_dirs[Root] # None /\ d \in Dhs
  BY <1>1, RootThere DEF DInv, LocalsFit
<1>3. /\ nlink' \in [Dhs -> Nat]
      /\ \A e \in Dhs : e # d => nlink'[e] = nlink[e]
  BY <1>1, <1>2 DEF OpenInc, TypeOK
<1>4. TypeOK' BY <1>1, <1>3 DEF TypeOK, Moved, Pcs, Locals
<1>5. PathsOnce' BY <1>1 DEF DInv, PathsOnce
<1>6. \A e \in Range(free_dhs) : e # d /\ e \in Dhs BY <1>1, FreeInTable DEF DInv, FreeDhsSound
<1>7. \A e \in Range(free_dhs) : /\ ~dmeta'[e].used /\ children'[e] = {} /\ nlink'[e] = 0
                                 /\ \A g \in Dhs : e \notin children'[g]
  BY <1>1, <1>3, <1>6 DEF DInv, FreeDhsSound
<1>8. NoLoc.dh \notin Range(free_dhs) BY <1>1, FreeInTable DEF NoLoc
<1>9. IsRoot(dmeta'[created_dirs[Root]]) /\ IsRoot(disk_dmeta'[created_dirs[Root]])
  BY <1>1, <1>2 DEF DInv, RootFirst
<1>10. "idle" \notin MkdirPcs BY DEF MkdirPcs
<1> QED BY <1>1, <1>2, <1>4, <1>5, <1>7, <1>8, <1>9, <1>10, ThreadStep

\* releasedir closes a handle.
LEMMA CloseDirectoryKeeps ==
    ASSUME DInv, NEW t \in Threads, NEW d \in Dhs, CloseDirectory(t, d)
    PROVE  DInv'
<1>1. /\ TypeOK /\ nlink[d] > 0
      /\ UNCHANGED <<status, dmeta, disk_dmeta, free_dhs, created_dirs, children, pc, loc, crashes, failures>>
  BY DEF DInv, CloseDirectory
<1>2. nlink' \in [Dhs -> Nat] /\ \A e \in Dhs : nlink[e] = 0 => nlink'[e] = 0
  BY <1>1 DEF CloseDirectory, TypeOK
<1>3. TypeOK' BY <1>1, <1>2 DEF TypeOK
<1>4. LocalsFit' BY <1>1 DEF DInv, LocalsFit
<1>5. PathsOnce' /\ MadeApart' BY <1>1 DEF DInv, PathsOnce, MadeApart
<1>6. RootFirst'
  <2>1. UsedDhs' = UsedDhs BY <1>1 DEF UsedDhs
  <2> QED BY <1>1, <2>1 DEF DInv, RootFirst
<1>7. FreeDhsSound' BY <1>1, <1>2, FreeInTable DEF DInv, FreeDhsSound
<1> QED BY <1>3, <1>4, <1>5, <1>6, <1>7 DEF DInv

\* The start of a mkdir: it takes the meta d at the head of the free list.
MetaTaken(t, p, d, r) ==
    /\ d \in Range(free_dhs) /\ \A x \in Range(free_dhs') : x \in Range(free_dhs) /\ x # d
    /\ dmeta' \in [Dhs -> DirMeta] /\ \A e \in Dhs : e # d => dmeta'[e] = dmeta[e]
    /\ dmeta'[d] = [used |-> TRUE, name |-> p, ok |-> FALSE]
    /\ Moved(t, "mkdir_write", r)
    /\ r.dh = d /\ r.path = p /\ r.locks = {p, Parent(p)}

\* A mkdir does so.
LEMMA MkdirStarts ==
    ASSUME DInv, NEW t \in Threads, NEW p \in Paths, CreateDirectory(t, p)
    PROVE  /\ status = "up" /\ p # Root /\ pc[t] = "idle"
           /\ created_dirs[p] = None /\ created_dirs[Parent(p)] # None
           /\ Unlocked({p, Parent(p)}) /\ Parent(p) \in Paths
           /\ free_dhs' \in Seq(Dhs) /\ IsInjective(free_dhs')
           /\ UNCHANGED <<status, disk_dmeta, created_dirs, children, nlink, crashes, failures>>
           /\ \E d \in Dhs, r \in Locals : MetaTaken(t, p, d, r)
<1> DEFINE m == [used |-> TRUE, name |-> p, ok |-> FALSE]
<1>1. /\ TypeOK /\ status = "up" /\ p # Root /\ pc[t] = "idle" /\ free_dhs # <<>>
      /\ created_dirs[p] = None /\ created_dirs[Parent(p)] # None /\ Unlocked({p, Parent(p)})
      /\ free_dhs' = Tail(free_dhs) /\ dmeta' = [dmeta EXCEPT ![Head(free_dhs)] = m]
      /\ UNCHANGED <<status, disk_dmeta, created_dirs, children, nlink, crashes, failures>>
  BY DEF DInv, CreateDirectory, Start, HeadTaken
<1>2. /\ free_dhs' \in Seq(Dhs) /\ IsInjective(free_dhs')
      /\ \E d \in Dhs : /\ d = Head(free_dhs) /\ d \in Range(free_dhs)
                       /\ \A x \in Range(free_dhs') : x \in Range(free_dhs) /\ x # d
  <2>1. free_dhs \in Seq(Dhs) /\ IsInjective(free_dhs) BY <1>1 DEF DInv, TypeOK, FreeDhsSound
  <2> QED BY <1>1, <2>1, HeadNotInTail
<1>3. PICK d \in Dhs : /\ d = Head(free_dhs) /\ d \in Range(free_dhs)
                       /\ \A x \in Range(free_dhs') : x \in Range(free_dhs) /\ x # d
  BY <1>2
<1>4. m \in DirMeta /\ dmeta \in [Dhs -> DirMeta] BY <1>1 DEF DirMeta, TypeOK
<1> HIDE DEF m
<1>5. dmeta' \in [Dhs -> DirMeta] /\ dmeta'[d] = m /\ \A e \in Dhs : e # d => dmeta'[e] = dmeta[e]
  BY <1>1, <1>3, <1>4
<1>6. Parent(p) \in Paths BY <1>1, PathsClosed
<1> DEFINE r == [locks |-> {p, Parent(p)}, path |-> p, dh |-> d, tries |-> 0]
<1>7. 0 \in 0 .. MkdirTries - 1 BY DirAssumption
<1>8. r \in Locals BY <1>6, <1>7 DEF Locals
<1>9. loc[t] = NoLoc /\ loc \in [Threads -> Locals] BY <1>1 DEF DInv, LocalsFit, TypeOK, Locals
<1>10. loc' = [loc EXCEPT ![t] = r] BY <1>3, <1>9 DEF CreateDirectory, NoLoc
<1>11. Goto(t, "mkdir_write") BY DEF CreateDirectory
<1>12. r.locks = {p, Parent(p)} /\ r.path = p /\ r.dh = d OBVIOUS
<1> HIDE DEF r
<1>13. Moved(t, "mkdir_write", r) BY <1>1, <1>8, <1>10, <1>11, Moves DEF Pcs
<1>14. MetaTaken(t, p, d, r) BY <1>3, <1>5, <1>12, <1>13 DEF MetaTaken, m
<1> QED BY <1>1, <1>2, <1>6, <1>8, <1>14

\* mkdir takes a meta which nobody else has.
LEMMA CreateDirectoryKeeps ==
    ASSUME DInv, NEW t \in Threads, NEW p \in Paths, CreateDirectory(t, p)
    PROVE  DInv'
<1>1. /\ TypeOK /\ status = "up" /\ p # Root /\ pc[t] = "idle"
      /\ created_dirs[Parent(p)] # None /\ Parent(p) \in Paths
      /\ free_dhs' \in Seq(Dhs) /\ IsInjective(free_dhs')
      /\ UNCHANGED <<status, disk_dmeta, created_dirs, children, nlink, crashes, failures>>
  BY MkdirStarts DEF DInv
<1>2. PICK d \in Dhs, r \in Locals : MetaTaken(t, p, d, r) BY MkdirStarts
<1>3. /\ d \in Range(free_dhs) /\ \A x \in Range(free_dhs') : x \in Range(free_dhs) /\ x # d
      /\ dmeta' \in [Dhs -> DirMeta] /\ \A e \in Dhs : e # d => dmeta'[e] = dmeta[e]
      /\ Moved(t, "mkdir_write", r) /\ r.dh = d /\ r.path = p
  BY <1>2 DEF MetaTaken
<1>4. /\ Root \in Paths /\ created_dirs[Root] # None /\ created_dirs[Root] # d
      /\ created_dirs[Root] \in Dhs
  <2>1. Root \in Paths BY PathsClosed
  <2>2. created_dirs[Root] # None BY <1>1, RootThere
  <2> QED BY <1>1, <1>3, <2>1, <2>2 DEF DInv, FreeDhsSound, TypeOK
<1>5. TypeOK' BY <1>1, <1>3 DEF TypeOK, Moved, Pcs, Locals
<1>6. /\ pc'[t] = "mkdir_write" /\ loc'[t].dh = d /\ loc'[t].path = p
      /\ \A u \in Threads : u # t => pc'[u] = pc[u] /\ loc'[u] = loc[u]
  BY <1>3 DEF Moved
<1>7. LocalsFit' BY <1>1, <1>3, <1>6 DEF DInv, LocalsFit, MkdirPcs, RmdirPcs
<1>8. PathsOnce' BY <1>1 DEF DInv, PathsOnce
<1>9. MadeApart'
  <2>1. /\ \A q \in Paths : created_dirs[q] # d
        /\ \A u \in Threads : loc[u].dh # d
    BY <1>3 DEF DInv, FreeDhsSound
  <2> QED BY <1>1, <1>6, <2>1 DEF DInv, MadeApart
<1>10. RootFirst' BY <1>1, <1>3, <1>4 DEF DInv, RootFirst
<1>11. FreeDhsSound'
  <2>1. \A x \in Range(free_dhs') : x \in Dhs /\ ~dmeta'[x].used
    BY <1>1, <1>3, FreeInTable DEF DInv, FreeDhsSound
  <2>2. \A x \in Range(free_dhs') : \A u \in Threads : loc'[u].dh # x
    BY <1>3, <1>6 DEF DInv, FreeDhsSound
  <2> QED BY <1>1, <1>3, <2>1, <2>2 DEF DInv, FreeDhsSound
<1> QED BY <1>5, <1>7, <1>8, <1>9, <1>10, <1>11 DEF DInv

\* What a mount loads: a path on the device gets a meta of that name, others none.
LEMMA Loaded ==
    ASSUME NEW p
    PROVE  \/ p \notin UsedNames /\ LoadedDir(p) = None
           \/ p \in UsedNames /\ LoadedDir(p) \in UsedDhs /\ disk_dmeta[LoadedDir(p)].name = p
<1>1. CASE p \in UsedNames
  <2>1. \E d \in UsedDhs : disk_dmeta[d].name = p BY <1>1 DEF UsedNames
  <2>2. PICK c : c = CHOOSE d \in UsedDhs : disk_dmeta[d].name = p OBVIOUS
  <2>3. c \in UsedDhs /\ disk_dmeta[c].name = p BY <2>1, <2>2
  <2>4. LoadedDir(p) = c BY <1>1, <2>2 DEF LoadedDir
  <2> QED BY <1>1, <2>3, <2>4
<1>2. CASE p \notin UsedNames BY <1>2 DEF LoadedDir
<1> QED BY <1>1, <1>2

\* A mount puts the metas in the list that are not used.
LEMMA MountKeeps ==
    ASSUME DInv, Mount
    PROVE  DInv'
<1>1. /\ TypeOK /\ status = "down" /\ status' = "up" /\ dmeta' = disk_dmeta
      /\ created_dirs' = [p \in Paths |-> LoadedDir(p)]
      /\ children' = [d \in Dhs |-> LoadedChildren(d)]
      /\ nlink' = [d \in Dhs |-> 0] /\ free_dhs' \in Ascending(Dhs \ UsedDhs)
      /\ UNCHANGED <<disk_dmeta, pc, loc, crashes, failures>>
  BY DEF DInv, Mount
<1>2. \A t \in Threads : pc[t] = "idle" /\ loc[t] = NoLoc BY <1>1 DEF DInv, LocalsFit
<1>3. \A p \in Paths : \/ p \notin UsedNames /\ created_dirs'[p] = None
                       \/ /\ p \in UsedNames /\ created_dirs'[p] \in UsedDhs
                          /\ disk_dmeta[created_dirs'[p]].name = p
  <2>1. \A p \in Paths : created_dirs'[p] = LoadedDir(p) BY <1>1
  <2> QED BY <2>1, Loaded
<1>4. UsedDhs \subseteq Dhs /\ Root \in Paths BY PathsClosed DEF UsedDhs
<1>5. \A d \in Dhs : children'[d] = LoadedChildren(d) /\ LoadedChildren(d) \subseteq UsedDhs
  BY <1>1 DEF LoadedChildren
<1>6. /\ free_dhs' \in Seq(Dhs) /\ IsInjective(free_dhs') /\ Range(free_dhs') \subseteq Dhs \ UsedDhs
      /\ Dhs \ UsedDhs # {} => free_dhs' # <<>>
  BY <1>1, AscendingOnce
<1>7. TypeOK'
  <2>1. children' \in [Dhs -> SUBSET Dhs] BY <1>1, <1>4, <1>5
  <2>2. created_dirs' \in [Paths -> Dhs \cup {None}] BY <1>1, <1>3, <1>4
  <2>3. nlink' \in [Dhs -> Nat] BY <1>1
  <2> QED BY <1>1, <1>6, <2>1, <2>2, <2>3 DEF TypeOK
<1>8. LocalsFit' BY <1>1, <1>2 DEF LocalsFit, MkdirPcs, RmdirPcs
<1>9. PathsOnce' BY <1>3, <1>4, DhsNotNone DEF PathsOnce
<1>10. MadeApart' BY <1>1, <1>2 DEF MadeApart, MkdirPcs
<1>11. RootFirst'
  <2>1. created_dirs'[Root] # None =>
           IsRoot(dmeta'[created_dirs'[Root]]) /\ IsRoot(disk_dmeta'[created_dirs'[Root]])
    BY <1>1, <1>3, <1>4 DEF IsRoot, UsedDhs
  <2>2. ASSUME created_dirs'[Root] = None
        PROVE  /\ \A d \in Dhs : ~disk_dmeta[d].used
               /\ \A p \in Paths : created_dirs'[p] = None
               /\ free_dhs' # <<>>
    <3>1. Root \notin UsedNames BY <1>3, <1>4, <2>2, DhsNotNone
    <3>2. \A d \in Dhs : ~IsRoot(disk_dmeta[d]) BY <3>1 DEF IsRoot, UsedNames, UsedDhs
    <3>3. UsedDhs = {} BY <1>1, <3>2 DEF DInv, RootFirst
    <3>4. Dhs \ UsedDhs # {} BY <3>3, DhsNotNone
    <3>5. \A d \in Dhs : ~disk_dmeta[d].used BY <3>3 DEF UsedDhs
    <3> QED BY <1>3, <1>6, <3>3, <3>4, <3>5
  <2>3. status' # "down" BY <1>1
  <2> QED BY <1>1, <1>2, <2>1, <2>2, <2>3 DEF RootFirst
<1>12. FreeDhsSound'
  <2>1. ASSUME NEW d \in Range(free_dhs')
        PROVE  /\ ~dmeta'[d].used /\ children'[d] = {} /\ nlink'[d] = 0
               /\ \A p \in Paths : created_dirs'[p] # d
               /\ \A e \in Dhs : d \notin children'[e]
               /\ \A t \in Threads : loc'[t].dh # d
    <3>1. d \in Dhs /\ d \notin UsedDhs /\ d # None BY <1>6, DhsNotNone
    <3>2. ~dmeta'[d].used /\ nlink'[d] = 0 BY <1>1, <3>1 DEF UsedDhs
    <3>3. children'[d] = {} BY <1>5, <3>1 DEF LoadedChildren
    <3>4. \A e \in Dhs : d \notin children'[e] BY <1>5, <3>1
    <3>5. \A t \in Threads : loc'[t].dh # d BY <1>1, <1>2, <3>1 DEF NoLoc
    <3> QED BY <1>3, <3>1, <3>2, <3>3, <3>4, <3>5
  <2> QED BY <1>6, <2>1 DEF FreeDhsSound
<1> QED BY <1>7, <1>8, <1>9, <1>10, <1>11, <1>12 DEF DInv

\* What the creation of the mount point does: the meta at the head becomes its own, in
\* memory and on the device.
LEMMA MountPointMade ==
    ASSUME DInv, MakeMountPoint
    PROVE  \E d \in Dhs : \E dm \in [Dhs -> DirMeta] :
              /\ d = Head(free_dhs) /\ free_dhs # <<>> /\ d \in Range(free_dhs)
              /\ dm[d] = [used |-> TRUE, name |-> Root, ok |-> FALSE]
              /\ \A e \in Dhs : e # d => dm[e] = dmeta[e]
              /\ WriteMeta(dm, d, TRUE)
              /\ created_dirs'[Root] = d
              /\ \A p \in Paths : p # Root => created_dirs'[p] = created_dirs[p]
              /\ created_dirs' \in [Paths -> Dhs \cup {None}]
<1>1. TypeOK /\ status = "up" /\ created_dirs[Root] = None BY DEF DInv, MakeMountPoint
<1>2. free_dhs # <<>> /\ free_dhs \in Seq(Dhs) /\ IsInjective(free_dhs)
  BY <1>1 DEF DInv, RootFirst, FreeDhsSound, TypeOK
<1>3. PICK d \in Dhs : d = Head(free_dhs) /\ d \in Range(free_dhs) BY <1>2, HeadNotInTail
<1>4. PICK m : m = [used |-> TRUE, name |-> Root, ok |-> FALSE] OBVIOUS
<1>5. m \in DirMeta BY <1>4, PathsClosed DEF DirMeta
<1>6. PICK dm : dm = [dmeta EXCEPT ![d] = m] OBVIOUS
<1>7. dm \in [Dhs -> DirMeta] /\ dm[d] = m /\ \A e \in Dhs : e # d => dm[e] = dmeta[e]
  BY <1>1, <1>5, <1>6 DEF TypeOK
<1>8. /\ WriteMeta([dmeta EXCEPT ![d] = m], d, TRUE)
      /\ created_dirs' = [created_dirs EXCEPT ![Root] = d]
  BY <1>3, <1>4 DEF MakeMountPoint
<1>9. WriteMeta(dm, d, TRUE) BY <1>6, <1>8
<1>10. /\ created_dirs'[Root] = d /\ created_dirs' \in [Paths -> Dhs \cup {None}]
       /\ \A p \in Paths : p # Root => created_dirs'[p] = created_dirs[p]
  BY <1>1, <1>8, PathsClosed DEF TypeOK
<1> QED BY <1>2, <1>3, <1>4, <1>7, <1>9, <1>10

\* The mount point takes the head of the list, which is not empty.
LEMMA MakeMountPointKeeps ==
    ASSUME DInv, MakeMountPoint
    PROVE  DInv'
<1>1. /\ TypeOK /\ status = "up" /\ created_dirs[Root] = None
      /\ free_dhs' = Tail(free_dhs)
      /\ UNCHANGED <<status, children, nlink, pc, loc, crashes>>
  BY DEF DInv, MakeMountPoint, HeadTaken
<1>2. PICK d \in Dhs, dm \in [Dhs -> DirMeta] :
         /\ d = Head(free_dhs) /\ free_dhs # <<>> /\ d \in Range(free_dhs)
         /\ dm[d] = [used |-> TRUE, name |-> Root, ok |-> FALSE]
         /\ \A e \in Dhs : e # d => dm[e] = dmeta[e]
         /\ WriteMeta(dm, d, TRUE)
         /\ created_dirs'[Root] = d
         /\ \A p \in Paths : p # Root => created_dirs'[p] = created_dirs[p]
         /\ created_dirs' \in [Paths -> Dhs \cup {None}]
  BY MountPointMade
<1>3. /\ \A t \in Threads : pc[t] = "idle" /\ loc[t] = NoLoc
      /\ \A p \in Paths : created_dirs[p] = None
  BY <1>1 DEF DInv, RootFirst, LocalsFit
<1>4. /\ free_dhs' \in Seq(Dhs) /\ IsInjective(free_dhs')
      /\ \A x \in Range(free_dhs') : x \in Range(free_dhs) /\ x # d
  <2>1. free_dhs \in Seq(Dhs) /\ IsInjective(free_dhs) BY <1>1 DEF DInv, TypeOK, FreeDhsSound
  <2> QED BY <1>1, <1>2, <2>1, HeadNotInTail
<1>5. /\ dmeta' \in [Dhs -> DirMeta] /\ disk_dmeta' \in [Dhs -> DirMeta] /\ failures' \in Nat
      /\ dmeta'[d] = [used |-> TRUE, name |-> Root, ok |-> TRUE]
      /\ \A e \in Dhs : e # d => dmeta'[e] = dm[e]
      /\ disk_dmeta'[d] = dmeta'[d]
  <2>1. dm[d].used = TRUE /\ dm[d].name = Root BY <1>2
  <2>2. /\ dmeta' \in [Dhs -> DirMeta] /\ disk_dmeta' \in [Dhs -> DirMeta] /\ failures' \in Nat
        /\ dmeta'[d] = [used |-> dm[d].used, name |-> dm[d].name, ok |-> TRUE]
        /\ \A e \in Dhs : e # d => dmeta'[e] = dm[e]
        /\ disk_dmeta'[d] = dmeta'[d]
    BY <1>1, <1>2, Written
  <2> QED BY <2>1, <2>2
<1>6. TypeOK' BY <1>1, <1>2, <1>4, <1>5 DEF TypeOK
<1>7. d # None /\ IsRoot(dmeta'[d]) /\ IsRoot(disk_dmeta'[d]) BY <1>5, DhsNotNone DEF IsRoot
<1>8. LocalsFit' /\ MadeApart' BY <1>1, <1>3 DEF LocalsFit, MadeApart, MkdirPcs, RmdirPcs
<1>9. PathsOnce' BY <1>2, <1>3 DEF PathsOnce
<1>10. RootFirst' BY <1>1, <1>2, <1>7 DEF RootFirst
<1>11. FreeDhsSound'
  <2>1. ASSUME NEW x \in Range(free_dhs')
        PROVE  /\ ~dmeta'[x].used /\ children'[x] = {} /\ nlink'[x] = 0
               /\ \A p \in Paths : created_dirs'[p] # x
               /\ \A e \in Dhs : x \notin children'[e]
               /\ \A t \in Threads : loc'[t].dh # x
    <3>1. x \in Range(free_dhs) /\ x # d /\ x \in Dhs /\ x # None BY <1>1, <1>4, FreeInTable
    <3>2. dmeta'[x] = dmeta[x] BY <1>2, <1>5, <3>1
    <3>3. \A p \in Paths : created_dirs'[p] # x BY <1>2, <1>3, <3>1
    <3> QED BY <1>1, <3>1, <3>2, <3>3 DEF DInv, FreeDhsSound
  <2> QED BY <1>4, <2>1 DEF FreeDhsSound
<1> QED BY <1>6, <1>8, <1>9, <1>10, <1>11 DEF DInv

\* A crash keeps the device, which has the mount point if it has anything.
LEMMA CrashKeeps ==
    ASSUME DInv, Crash
    PROVE  DInv'
<1>1. /\ TypeOK /\ status = "up" /\ status' = "down" /\ crashes' = crashes + 1
      /\ dmeta' = [d \in Dhs |-> FreshDir] /\ free_dhs' = <<>>
      /\ created_dirs' = [p \in Paths |-> None]
      /\ children' = [d \in Dhs |-> {}] /\ nlink' = [d \in Dhs |-> 0]
      /\ pc' = [t \in Threads |-> "idle"] /\ loc' = [t \in Threads |-> NoLoc]
      /\ UNCHANGED <<disk_dmeta, failures>>
  BY DEF DInv, Crash
<1>2. FreshDir \in DirMeta BY PathsClosed DEF FreshDir, DirMeta
<1>3. TypeOK'
  <2>1. /\ dmeta' \in [Dhs -> DirMeta] /\ free_dhs' \in Seq(Dhs)
        /\ created_dirs' \in [Paths -> Dhs \cup {None}]
        /\ children' \in [Dhs -> SUBSET Dhs] /\ nlink' \in [Dhs -> Nat]
    BY <1>1, <1>2
  <2>2. pc' \in [Threads -> Pcs] BY <1>1 DEF Pcs
  <2>3. NoLoc \in Locals
    <3>1. 0 \in 0 .. MkdirTries - 1 BY DirAssumption
    <3> QED BY <3>1, PathsClosed DEF NoLoc, Locals
  <2>4. loc' \in [Threads -> Locals] BY <1>1, <2>3
  <2> QED BY <1>1, <2>1, <2>2, <2>4 DEF TypeOK, Pcs, Locals
<1>4. LocalsFit' /\ MadeApart' BY <1>1 DEF LocalsFit, MadeApart, MkdirPcs, RmdirPcs
<1>5. PathsOnce' BY <1>1 DEF PathsOnce
<1>6. RootFirst'
  <2>1. CASE created_dirs[Root] # None
    <3>1. created_dirs[Root] \in Dhs /\ IsRoot(disk_dmeta[created_dirs[Root]])
      BY <1>1, <2>1, PathsClosed DEF DInv, RootFirst, TypeOK
    <3> QED BY <1>1, <3>1 DEF RootFirst
  <2>2. CASE created_dirs[Root] = None
    <3>1. \A d \in Dhs : ~disk_dmeta'[d].used BY <1>1, <2>2 DEF DInv, RootFirst
    <3>2. UsedDhs' = {} BY <3>1 DEF UsedDhs
    <3> QED BY <1>1, <3>2 DEF RootFirst
  <2> QED BY <2>1, <2>2
<1>7. FreeDhsSound'
  <2>1. Range(free_dhs') = {} /\ IsInjective(free_dhs') BY <1>1 DEF Range, IsInjective
  <2> QED BY <2>1 DEF FreeDhsSound
<1> QED BY <1>3, <1>4, <1>5, <1>6, <1>7 DEF DInv

\* The invariant holds on a formatted device.
LEMMA DInvInit == Init => DInv
<1> SUFFICES ASSUME Init PROVE DInv OBVIOUS
<1>1. FreshDir \in DirMeta BY PathsClosed DEF FreshDir, DirMeta
<1>2. NoLoc \in Locals
  <2>1. 0 \in 0 .. MkdirTries - 1 BY DirAssumption
  <2> QED BY <2>1, PathsClosed DEF NoLoc, Locals
<1>3. TypeOK BY <1>1, <1>2 DEF Init, TypeOK, Pcs, Locals
<1>4. LocalsFit /\ MadeApart /\ PathsOnce
  BY DEF Init, LocalsFit, MadeApart, PathsOnce, MkdirPcs, RmdirPcs
<1>5. UsedDhs = {} BY DEF Init, UsedDhs, FreshDir
<1>6. RootFirst BY <1>5 DEF Init, RootFirst
<1>7. Range(free_dhs) = {} /\ IsInjective(free_dhs) BY DEF Init, Range, IsInjective
<1>8. FreeDhsSound BY <1>7 DEF FreeDhsSound
<1> QED BY <1>3, <1>4, <1>6, <1>8 DEF DInv

\* Every step keeps it.
LEMMA DInvStep == DInv /\ [Next]_vars => DInv'
<1> SUFFICES ASSUME DInv, [Next]_vars PROVE DInv' OBVIOUS
<1>1. CASE Mount BY <1>1, MountKeeps
<1>2. CASE MakeMountPoint BY <1>2, MakeMountPointKeeps
<1>3. CASE Crash BY <1>3, CrashKeeps
<1>4. ASSUME NEW t \in Threads, Operation(t) PROVE DInv'
  <2>1. CASE mfs_mkdir(t) BY <2>1, CreateDirectoryKeeps DEF mfs_mkdir
  <2>2. CASE bfs_rmdir(t) BY <2>2, DeleteDirectoryKeeps DEF bfs_rmdir
  <2>3. CASE mfs_rename(t) BY <2>3, RenameDirectoryKeeps DEF mfs_rename
  <2>4. CASE bfs_opendir(t) BY <2>4, OpenDirectoryKeeps DEF bfs_opendir
  <2>5. CASE bfs_releasedir(t) BY <2>5, CloseDirectoryKeeps DEF bfs_releasedir
  <2>6. CASE MkdirAdd(t) BY <2>6, MkdirAddKeeps
  <2>7. CASE RmdirRemove(t) BY <2>7, RmdirRemoveKeeps
  <2>8. CASE OpenInc(t) BY <2>8, OpenIncKeeps
  <2>9. ASSUME NEW good \in BOOLEAN, MkdirWrite(t, good) \/ RmdirWrite(t, good) PROVE DInv'
    BY <2>9, MkdirWriteKeeps, RmdirWriteKeeps
  <2> QED BY <1>4, <2>1, <2>2, <2>3, <2>4, <2>5, <2>6, <2>7, <2>8, <2>9 DEF Operation
<1>5. CASE UNCHANGED vars
  <2>1. UNCHANGED <<status, dmeta, disk_dmeta, free_dhs, created_dirs, children, nlink, pc, loc,
                    crashes, failures>>
    BY <1>5 DEF vars, memory
  <2>2. UsedDhs' = UsedDhs BY <2>1 DEF UsedDhs
  <2> QED BY <2>1, <2>2 DEF DInv, TypeOK, LocalsFit, PathsOnce, MadeApart, RootFirst, FreeDhsSound
<1> QED BY <1>1, <1>2, <1>3, <1>4, <1>5 DEF Next

\* The maps of the directories, the link counts, the metas and the threads' locals keep
\* their types, whatever overlaps, fails or crashes.
THEOREM DirTypeCorrect == Spec => []TypeOK
<1>1. DInv => TypeOK BY DEF DInv
<1> QED BY <1>1, DInvInit, DInvStep, PTL DEF Spec

\* Two mkdirs never get the same DirMeta: DirHandle's free list names each unused meta
\* once, and no path, parent or thread knows it, whatever overlaps, fails or crashes.
THEOREM FreeDhsAlwaysSound == Spec => []FreeDhsSound
<1>1. DInv => FreeDhsSound BY DEF DInv
<1> QED BY <1>1, DInvInit, DInvStep, PTL DEF Spec

-----------------------------------------------------------------------------
(* The tree *)

\* Where only a thread moves, the maps, the metas and the device still fit together.
LEMMA QuietStep ==
    ASSUME DInv, Tree, NEW t \in Threads, NEW l, NEW r, Moved(t, l, r),
           pc[t] = "idle", l \in {"rmdir_write", "opendir_inc"},
           UNCHANGED <<status, dmeta, created_dirs, children, nlink, disk_dmeta, crashes>>
    PROVE  /\ Making' /\ MetasNamed' /\ UsedKnown' /\ Family' /\ Rooted' /\ OpenUsed'
           /\ Synced' /\ Empty'
<1>1. /\ pc'[t] = l /\ loc'[t] = r
      /\ \A u \in Threads : u # t => pc'[u] = pc[u] /\ loc'[u] = loc[u]
  BY DEF Moved
<1>2. Making' BY <1>1 DEF Tree, Making, MkdirPcs
<1>3. \A p : Removed(p)' <=> Removed(p) BY <1>1 DEF Removed
<1>4. MetasNamed' BY <1>3 DEF Tree, MetasNamed
<1>5. UsedKnown' BY <1>1 DEF Tree, UsedKnown, MkdirPcs
<1>6. Family' /\ Rooted' /\ OpenUsed' BY DEF Tree, Family, Rooted, OpenUsed
<1>7. \A d : Claims(d)' <=> Claims(d) BY <1>1 DEF Claims
<1>8. Synced' /\ Empty' BY <1>7 DEF Tree, Synced, Empty
<1> QED BY <1>2, <1>4, <1>5, <1>6, <1>8

\* rmdir starts on a directory that is closed, empty and locked by nobody.
LEMMA RmdirStartsTree ==
    ASSUME DInv, Tree, NEW t \in Threads, NEW p \in Paths, DeleteDirectory(t, p)
    PROVE  Tree'
<1> DEFINE d == created_dirs[p]
<1>1. /\ pc[t] = "idle" /\ d \in Dhs /\ Removable(d) /\ Unlocked({p, Parent(p)}) /\ ~Opening(p)
      /\ UNCHANGED <<status, dmeta, free_dhs, created_dirs, children, nlink, disk_dmeta, crashes, failures>>
  BY RmdirStarts
<1>2. PICK r \in Locals : /\ Moved(t, "rmdir_write", r) /\ r.dh = d
                          /\ r.path = p /\ r.locks = {p, Parent(p)}
  BY RmdirStarts
<1>3. /\ pc'[t] = "rmdir_write" /\ loc'[t] = r
      /\ \A u \in Threads : u # t => pc'[u] = pc[u] /\ loc'[u] = loc[u]
  BY <1>2 DEF Moved
<1>4. LocksApart' BY <1>1, <1>2, <1>3 DEF Tree, LocksApart, Unlocked
<1>5. Unmaking' BY <1>1, <1>2, <1>3 DEF Tree, Unmaking, Removable
<1>6. OpeningFound'
  <2>1. ASSUME NEW u \in Threads, pc'[u] = "opendir_inc"
        PROVE  created_dirs'[loc'[u].path] = loc'[u].dh /\ ~Removing(loc[u].path)' /\ loc'[u] = loc[u]
    <3>1. u # t /\ pc[u] = "opendir_inc" /\ loc'[u] = loc[u] BY <1>3, <2>1
    <3>2. loc[u].path # p BY <1>1, <3>1 DEF Opening
    <3>3. created_dirs[loc[u].path] = loc[u].dh /\ ~Removing(loc[u].path)
      BY <3>1 DEF Tree, OpeningFound
    <3>4. PICK x : x = loc[u].path OBVIOUS
    <3>5. ~Removing(x)' BY <1>2, <1>3, <3>2, <3>3, <3>4 DEF Removing
    <3> QED BY <1>1, <3>1, <3>3, <3>4, <3>5
  <2> QED BY <2>1 DEF OpeningFound
<1> QED BY <1>1, <1>2, <1>4, <1>5, <1>6, QuietStep DEF Tree

\* opendir starts on a directory that nobody is removing.
LEMMA OpendirStartsTree ==
    ASSUME DInv, Tree, NEW t \in Threads, NEW p \in Paths, OpenDirectory(t, p)
    PROVE  Tree'
<1> DEFINE d == created_dirs[p]
<1>1. /\ pc[t] = "idle" /\ d \in Dhs /\ ~Removing(p)
      /\ UNCHANGED <<status, dmeta, free_dhs, created_dirs, children, nlink, disk_dmeta, crashes, failures>>
  BY OpendirStarts
<1>2. PICK r \in Locals : Moved(t, "opendir_inc", r) /\ r.dh = d /\ r.path = p /\ r.locks = {}
  BY OpendirStarts
<1>3. /\ pc'[t] = "opendir_inc" /\ loc'[t] = r
      /\ \A u \in Threads : u # t => pc'[u] = pc[u] /\ loc'[u] = loc[u]
  BY <1>2 DEF Moved
<1>4. LocksApart' BY <1>1, <1>2, <1>3 DEF Tree, LocksApart, MkdirPcs, RmdirPcs
<1>5. Unmaking' BY <1>1, <1>2, <1>3 DEF Tree, Unmaking, RmdirPcs
<1>6. \A x : Removing(x)' <=> Removing(x) BY <1>1, <1>2, <1>3 DEF Removing
<1>7. OpeningFound' BY <1>1, <1>2, <1>3, <1>6 DEF Tree, OpeningFound
<1> QED BY <1>1, <1>2, <1>4, <1>5, <1>7, QuietStep DEF Tree

\* opendir counts its handle on a directory that is used, and that nobody is removing.
LEMMA OpenIncTree ==
    ASSUME DInv, Tree, NEW t \in Threads, OpenInc(t)
    PROVE  Tree'
<1> DEFINE d == loc[t].dh
           p == loc[t].path
<1>1. /\ TypeOK /\ pc[t] = "opendir_inc"
      /\ UNCHANGED <<status, dmeta, disk_dmeta, free_dhs, created_dirs, children, crashes, failures>>
      /\ Moved(t, "idle", NoLoc)
  BY Moves DEF DInv, OpenInc, At
<1>2. d \in Dhs /\ p \in Paths /\ d # None BY <1>1, DhsNotNone DEF DInv, LocalsFit, TypeOK
<1>3. created_dirs[p] = d /\ ~Removing(p) BY <1>1 DEF Tree, OpeningFound
<1>4. \A e \in Dhs : e # d => nlink'[e] = nlink[e] BY <1>1, <1>2 DEF OpenInc, TypeOK
<1>5. /\ pc'[t] = "idle" /\ loc'[t] = NoLoc
      /\ \A u \in Threads : u # t => pc'[u] = pc[u] /\ loc'[u] = loc[u]
  BY <1>1 DEF Moved
<1>6. LocksApart' BY <1>1, <1>5 DEF Tree, LocksApart, MkdirPcs, RmdirPcs, NoLoc
<1>7. Making' BY <1>1, <1>5 DEF Tree, Making, MkdirPcs
<1>8. Unmaking'
  <2>1. ASSUME NEW u \in Threads, pc'[u] \in RmdirPcs
        PROVE  pc[u] \in RmdirPcs /\ loc'[u] = loc[u] /\ loc[u].dh \in Dhs /\ loc[u].dh # d
    <3>1. u # t /\ pc[u] \in RmdirPcs /\ loc'[u] = loc[u] BY <1>5, <2>1 DEF RmdirPcs
    <3>2. loc[u].path # p BY <1>3, <3>1 DEF Removing, RmdirPcs
    <3>3. loc[u].path \in Paths /\ loc[u].dh \in Dhs BY <1>1, <3>1 DEF DInv, LocalsFit, TypeOK, RmdirPcs
    <3>4. created_dirs[loc[u].path] = loc[u].dh BY <3>1 DEF Tree, Unmaking
    <3>5. loc[u].dh # d BY <1>2, <1>3, <3>2, <3>3, <3>4 DEF DInv, PathsOnce
    <3> QED BY <3>1, <3>3, <3>5
  <2> QED BY <1>1, <1>4, <2>1 DEF Tree, Unmaking
<1>9. \A x : (Removing(x)' <=> Removing(x)) /\ (Removed(x)' <=> Removed(x))
  BY <1>1, <1>5 DEF Removing, Removed
<1>10. OpeningFound' BY <1>1, <1>5, <1>9 DEF Tree, OpeningFound
<1>11. MetasNamed' BY <1>1, <1>9 DEF Tree, MetasNamed
<1>12. UsedKnown' BY <1>1, <1>5 DEF Tree, UsedKnown, MkdirPcs
<1>13. Family' /\ Rooted' BY <1>1 DEF Tree, Family, Rooted
<1>14. dmeta[d].used
  <2>1. ~Removed(p) BY <1>3 DEF Removed, Removing
  <2> QED BY <1>2, <1>3, <2>1 DEF Tree, MetasNamed
<1>15. OpenUsed' BY <1>1, <1>4, <1>14 DEF Tree, OpenUsed
<1>16. \A e : Claims(e)' <=> Claims(e) BY <1>1, <1>5 DEF Claims
<1>17. Synced' /\ Empty' BY <1>1, <1>16 DEF Tree, Synced, Empty
<1> QED BY <1>6, <1>7, <1>8, <1>10, <1>11, <1>12, <1>13, <1>15, <1>17 DEF Tree

\* releasedir makes no directory open.
LEMMA CloseDirectoryTree ==
    ASSUME DInv, Tree, NEW t \in Threads, NEW d \in Dhs, CloseDirectory(t, d)
    PROVE  Tree'
<1>1. /\ TypeOK /\ nlink[d] > 0
      /\ UNCHANGED <<status, dmeta, disk_dmeta, free_dhs, created_dirs, children, pc, loc, crashes, failures>>
  BY DEF DInv, CloseDirectory
<1>2. \A e \in Dhs : (nlink[e] = 0 => nlink'[e] = 0) /\ (nlink'[e] > 0 => nlink[e] > 0)
  BY <1>1 DEF CloseDirectory, TypeOK
<1>3. \A u \in Threads : pc[u] \in RmdirPcs => loc[u].dh \in Dhs BY DEF DInv, LocalsFit, RmdirPcs
<1>4. Unmaking' BY <1>1, <1>2, <1>3 DEF Tree, Unmaking
<1>5. OpenUsed' BY <1>1, <1>2 DEF Tree, OpenUsed
<1>6. \A x : (Removing(x)' <=> Removing(x)) /\ (Removed(x)' <=> Removed(x)) /\ (Claims(x)' <=> Claims(x))
  BY <1>1 DEF Removing, Removed, Claims
<1>7. LocksApart' /\ Making' /\ UsedKnown' /\ Family' /\ Rooted'
  BY <1>1 DEF Tree, LocksApart, Making, UsedKnown, Family, Rooted
<1>8. OpeningFound' BY <1>1, <1>6 DEF Tree, OpeningFound
<1>9. MetasNamed' BY <1>1, <1>6 DEF Tree, MetasNamed
<1>10. Synced' /\ Empty' BY <1>1, <1>6 DEF Tree, Synced, Empty
<1> QED BY <1>4, <1>5, <1>7, <1>8, <1>9, <1>10 DEF Tree

\* mkdir claims a meta that no path and no other thread has.
LEMMA MkdirStartsTree ==
    ASSUME DInv, Tree, NEW t \in Threads, NEW p \in Paths, CreateDirectory(t, p)
    PROVE  Tree'
<1>1. /\ status = "up" /\ p # Root /\ pc[t] = "idle"
      /\ created_dirs[p] = None /\ created_dirs[Parent(p)] # None
      /\ Unlocked({p, Parent(p)}) /\ Parent(p) \in Paths
      /\ UNCHANGED <<status, disk_dmeta, created_dirs, children, nlink, crashes, failures>>
  BY MkdirStarts
<1>2. PICK d \in Dhs, r \in Locals : MetaTaken(t, p, d, r) BY MkdirStarts
<1>3. /\ d \in Range(free_dhs) /\ \A e \in Dhs : e # d => dmeta'[e] = dmeta[e]
      /\ dmeta'[d] = [used |-> TRUE, name |-> p, ok |-> FALSE]
      /\ Moved(t, "mkdir_write", r) /\ r.dh = d /\ r.path = p /\ r.locks = {p, Parent(p)}
  BY <1>2 DEF MetaTaken
<1>4. dmeta'[d].used /\ dmeta'[d].name = p /\ ~dmeta'[d].ok BY <1>3
<1>5. /\ pc'[t] = "mkdir_write" /\ loc'[t] = r
      /\ \A u \in Threads : u # t => pc'[u] = pc[u] /\ loc'[u] = loc[u]
  BY <1>3 DEF Moved
<1>6. /\ ~dmeta[d].used /\ nlink[d] = 0 /\ \A q \in Paths : created_dirs[q] # d
      /\ \A u \in Threads : loc[u].dh # d
  BY <1>3 DEF DInv, FreeDhsSound
<1>7. TypeOK /\ \A q \in Paths : created_dirs[q] # None => created_dirs[q] \in Dhs
  BY DEF DInv, TypeOK
<1>8. LocksApart' BY <1>1, <1>3, <1>5 DEF Tree, LocksApart, Unlocked
<1>9. Making'
  <2>1. ASSUME NEW u \in Threads, pc'[u] \in MkdirPcs, u # t
        PROVE  pc[u] \in MkdirPcs /\ loc'[u] = loc[u] /\ pc'[u] = pc[u] /\ dmeta'[loc[u].dh] = dmeta[loc[u].dh]
    <3>1. pc[u] \in MkdirPcs /\ loc'[u] = loc[u] /\ pc'[u] = pc[u] BY <1>5, <2>1
    <3>2. loc[u].dh \in Dhs /\ loc[u].dh # d BY <1>6, <3>1 DEF DInv, LocalsFit, MkdirPcs
    <3> QED BY <1>3, <3>1, <3>2
  <2> QED BY <1>1, <1>3, <1>4, <1>5, <2>1 DEF Tree, Making
<1>10. Unmaking' BY <1>1, <1>5 DEF Tree, Unmaking, RmdirPcs
<1>11. \A x : (Removing(x)' <=> Removing(x)) /\ (Removed(x)' <=> Removed(x))
  BY <1>1, <1>5 DEF Removing, Removed
<1>12. OpeningFound' BY <1>1, <1>5, <1>11 DEF Tree, OpeningFound
<1>13. MetasNamed' BY <1>1, <1>3, <1>6, <1>7, <1>11 DEF Tree, MetasNamed
<1>14. UsedKnown'
  <2>1. ASSUME NEW e \in Dhs, dmeta'[e].used
        PROVE  \/ \E q \in Paths : created_dirs'[q] = e
               \/ \E u \in Threads : pc'[u] \in MkdirPcs /\ loc'[u].dh = e
    <3>1. CASE e = d BY <1>3, <1>5, <3>1 DEF MkdirPcs
    <3>2. CASE e # d
      <4>1. dmeta[e].used BY <1>3, <2>1, <3>2
      <4>2. \/ \E q \in Paths : created_dirs[q] = e
            \/ \E u \in Threads : pc[u] \in MkdirPcs /\ loc[u].dh = e
        BY <4>1 DEF Tree, UsedKnown
      <4> QED BY <1>1, <1>5, <4>2 DEF MkdirPcs
    <3> QED BY <3>1, <3>2
  <2> QED BY <2>1 DEF UsedKnown
<1>15. Family' /\ Rooted' BY <1>1 DEF Tree, Family, Rooted
<1>16. OpenUsed' BY <1>1, <1>3, <1>4 DEF Tree, OpenUsed
<1>17. /\ ~Claims(d) /\ Claims(d)' /\ \A e : e # d => (Claims(e)' <=> Claims(e))
  BY <1>1, <1>3, <1>5, <1>6 DEF Claims
<1>18. Synced'
  <2>1. ASSUME NEW e \in Dhs
        PROVE  /\ ~Claims(e)' => disk_dmeta'[e] = dmeta'[e] /\ dmeta'[e].ok
               /\ Claims(e)' => disk_dmeta'[e] = dmeta'[e] \/ (~disk_dmeta'[e].used /\ disk_dmeta'[e].ok)
    <3>1. CASE e = d
      <4>1. disk_dmeta[d] = dmeta[d] /\ dmeta[d].ok BY <1>1, <1>17 DEF Tree, Synced
      <4> QED BY <1>1, <1>6, <1>17, <3>1, <4>1
    <3>2. CASE e # d BY <1>1, <1>3, <1>17, <3>2 DEF Tree, Synced
    <3> QED BY <3>1, <3>2
  <2> QED BY <2>1 DEF Synced
<1>19. Empty' BY <1>1 DEF Empty
<1> QED BY <1>8, <1>9, <1>10, <1>12, <1>13, <1>14, <1>15, <1>16, <1>18, <1>19 DEF Tree

\* A write that succeeds brings the meta of d to the device, and with its page no meta
\* but those that the device already has or that a mkdir has claimed.
LEMMA SyncedWrite ==
    ASSUME TypeOK, Synced, status = "up",
           NEW dm \in [Dhs -> DirMeta], NEW d \in Dhs, WriteMeta(dm, d, TRUE),
           \A e \in Dhs : e # d => dm[e] = dmeta[e],
           ~Claims(d)', \A e \in Dhs : e # d => (Claims(e)' <=> Claims(e))
    PROVE  Synced'
<1>1. /\ \A e \in Dhs : e # d => dmeta'[e] = dmeta[e]
      /\ dmeta'[d] = [used |-> dm[d].used, name |-> dm[d].name, ok |-> TRUE]
      /\ \A e \in Dhs : disk_dmeta'[e] = dmeta'[e] \/ disk_dmeta'[e] = disk_dmeta[e]
      /\ disk_dmeta'[d] = dmeta'[d]
  BY Written
<1>2. dmeta'[d].ok BY <1>1
<1>3. ASSUME NEW e \in Dhs
      PROVE  /\ ~Claims(e)' => disk_dmeta'[e] = dmeta'[e] /\ dmeta'[e].ok
             /\ Claims(e)' => disk_dmeta'[e] = dmeta'[e] \/ (~disk_dmeta'[e].used /\ disk_dmeta'[e].ok)
  <2>1. CASE e = d BY <1>1, <1>2, <2>1
  <2>2. CASE e # d
    <3>1. dmeta'[e] = dmeta[e] /\ (Claims(e)' <=> Claims(e)) BY <1>1, <2>2
    <3>2. disk_dmeta'[e] = dmeta'[e] \/ disk_dmeta'[e] = disk_dmeta[e] BY <1>1
    <3>3. /\ ~Claims(e) => disk_dmeta[e] = dmeta[e] /\ dmeta[e].ok
          /\ Claims(e) => disk_dmeta[e] = dmeta[e] \/ (~disk_dmeta[e].used /\ disk_dmeta[e].ok)
      BY DEF Synced
    <3> QED BY <3>1, <3>2, <3>3
  <2> QED BY <2>1, <2>2
<1> QED BY <1>3 DEF Synced

\* mkdir writes the meta that it has claimed; no other thread has it.
LEMMA MkdirWriteTree ==
    ASSUME DInv, Tree, NEW t \in Threads, NEW good \in BOOLEAN, MkdirWrite(t, good), failures' = 0
    PROVE  Tree'
<1> DEFINE d == loc[t].dh
<1>1. /\ TypeOK /\ pc[t] = "mkdir_write" /\ WriteMeta(dmeta, d, good)
      /\ UNCHANGED <<status, free_dhs, created_dirs, children, nlink, crashes>>
  BY DEF DInv, MkdirWrite, At
<1>2. status = "up" /\ d \in Dhs BY <1>1, RootThere DEF DInv, LocalsFit
<1>3. dmeta \in [Dhs -> DirMeta] BY <1>1 DEF TypeOK
<1>4. /\ good /\ \A e \in Dhs : e # d => dmeta'[e] = dmeta[e]
      /\ dmeta'[d] = [used |-> dmeta[d].used, name |-> dmeta[d].name, ok |-> TRUE]
      /\ \A e \in Dhs : dmeta'[e].used = dmeta[e].used /\ dmeta'[e].name = dmeta[e].name
  BY <1>1, <1>2, <1>3, Written
<1>5. dmeta'[d].ok BY <1>4
<1>6. /\ pc'[t] = "mkdir_add" /\ loc' = loc
      /\ \A u \in Threads : u # t => pc'[u] = pc[u]
  BY <1>1, <1>4 DEF MkdirWrite, Goto, TypeOK
<1>7. /\ \A u \in Threads : u # t /\ pc[u] \in MkdirPcs => loc[u].dh # d /\ loc[u].dh \in Dhs
      /\ \A p \in Paths : created_dirs[p] # d
  BY <1>1 DEF DInv, MadeApart, LocalsFit, MkdirPcs
<1>8. \A u \in Threads : /\ pc'[u] \in MkdirPcs <=> pc[u] \in MkdirPcs
                         /\ pc'[u] \in RmdirPcs <=> pc[u] \in RmdirPcs
                         /\ pc'[u] = "opendir_inc" <=> pc[u] = "opendir_inc"
                         /\ pc'[u] = "rmdir_remove" <=> pc[u] = "rmdir_remove"
  BY <1>1, <1>6 DEF MkdirPcs, RmdirPcs
<1>9. LocksApart' BY <1>6, <1>8 DEF Tree, LocksApart
<1>10. Making'
  <2>1. ASSUME NEW u \in Threads, pc'[u] \in MkdirPcs
        PROVE  /\ created_dirs'[loc'[u].path] = None /\ created_dirs'[Parent(loc'[u].path)] # None
               /\ dmeta'[loc'[u].dh].used /\ dmeta'[loc'[u].dh].name = loc'[u].path
               /\ dmeta'[loc'[u].dh].ok <=> pc'[u] = "mkdir_add"
    <3>1. /\ created_dirs[loc[u].path] = None /\ created_dirs[Parent(loc[u].path)] # None
          /\ dmeta[loc[u].dh].used /\ dmeta[loc[u].dh].name = loc[u].path
          /\ dmeta[loc[u].dh].ok <=> pc[u] = "mkdir_add"
      BY <1>8, <2>1 DEF Tree, Making
    <3>2. CASE u = t BY <1>1, <1>2, <1>4, <1>5, <1>6, <3>1, <3>2
    <3>3. CASE u # t BY <1>1, <1>4, <1>6, <1>7, <1>8, <2>1, <3>1, <3>3
    <3> QED BY <3>2, <3>3
  <2> QED BY <2>1 DEF Making
<1>11. Unmaking' BY <1>1, <1>6, <1>8 DEF Tree, Unmaking
<1>12. \A x : (Removing(x)' <=> Removing(x)) /\ (Removed(x)' <=> Removed(x))
  BY <1>6, <1>8 DEF Removing, Removed, RmdirPcs
<1>13. OpeningFound' BY <1>1, <1>6, <1>8, <1>12 DEF Tree, OpeningFound
<1>14. MetasNamed'
  <2>1. \A p \in Paths : created_dirs[p] # None => created_dirs[p] \in Dhs BY <1>1 DEF TypeOK
  <2> QED BY <1>1, <1>4, <1>7, <1>12, <2>1 DEF Tree, MetasNamed
<1>15. UsedKnown' BY <1>1, <1>4, <1>6, <1>8 DEF Tree, UsedKnown
<1>16. Family' /\ Rooted' BY <1>1 DEF Tree, Family, Rooted
<1>17. OpenUsed' BY <1>1, <1>4 DEF Tree, OpenUsed
<1>18. ~Claims(d)' /\ \A e \in Dhs : e # d => (Claims(e)' <=> Claims(e))
  <2>1. \A e : Claims(e)' <=> \E u \in Threads : pc'[u] = "mkdir_write" /\ loc[u].dh = e
    BY <1>6 DEF Claims
  <2>2. \A u \in Threads : pc'[u] = "mkdir_write" <=> pc[u] = "mkdir_write" /\ u # t
    BY <1>1, <1>6
  <2>3. PICK x : x = d OBVIOUS
  <2>4. ~Claims(x)' BY <1>7, <2>1, <2>2, <2>3 DEF MkdirPcs
  <2>5. d' = d BY <1>6
  <2>6. \A e \in Dhs : e # d => (Claims(e)' <=> Claims(e)) BY <2>1, <2>2 DEF Claims
  <2> QED BY <2>3, <2>4, <2>5, <2>6
<1>19. Synced'
  <2>1. PICK x \in Dhs : x = d BY <1>2
  <2>2. ~Claims(x)' BY <1>6, <1>18, <2>1
  <2> QED BY <1>1, <1>2, <1>3, <1>4, <1>18, <2>1, <2>2, SyncedWrite DEF Tree
<1>20. Empty' BY <1>1, <1>2 DEF Empty
<1> QED BY <1>9, <1>10, <1>11, <1>13, <1>14, <1>15, <1>16, <1>17, <1>19, <1>20 DEF Tree

\* A meta that has a path is no mkdir's, and no two Directories have the same path.
LEMMA PathOwners ==
    ASSUME DInv, Tree
    PROVE  /\ \A p \in Paths : created_dirs[p] # None => created_dirs[p] \in Dhs /\ ~Claims(created_dirs[p])
           /\ \A t \in Threads : pc[t] \in RmdirPcs =>
                 /\ loc[t].dh \in Dhs /\ loc[t].path \in Paths /\ created_dirs[loc[t].path] = loc[t].dh
                 /\ loc[t].path # Root /\ Parent(loc[t].path) \in Paths
           /\ \A t \in Threads : pc[t] \in MkdirPcs =>
                 /\ loc[t].dh \in Dhs /\ loc[t].path \in Paths /\ created_dirs[loc[t].path] = None
                 /\ loc[t].path # Root /\ Parent(loc[t].path) \in Paths
           /\ \A p, q \in Paths : created_dirs[p] \in Dhs /\ created_dirs[p] = created_dirs[q] => p = q
           /\ \A t \in Threads : pc[t] = "opendir_inc" => loc[t].path \in Paths /\ loc[t].dh \in Dhs
           /\ \A p \in Paths, u \in Threads : created_dirs[p] \in Dhs /\ pc[u] \in MkdirPcs => created_dirs[p] # loc[u].dh
<1>1. \A t \in Threads : loc[t].path \in Paths /\ (pc[t] # "idle" => loc[t].dh \in Dhs)
  BY DEF DInv, TypeOK, LocalsFit
<1>2. \A p \in Paths : created_dirs[p] # None => created_dirs[p] \in Dhs BY DEF DInv, TypeOK
<1>3. \A p \in Paths, u \in Threads : pc[u] \in MkdirPcs => created_dirs[p] # loc[u].dh
  BY DEF DInv, MadeApart
<1>4. \A p \in Paths : ~Claims(created_dirs[p]) BY <1>3 DEF Claims, MkdirPcs
<1>5. \A t \in Threads : pc[t] \in RmdirPcs => pc[t] # "idle" /\ loc[t].path # Root /\ created_dirs[loc[t].path] = loc[t].dh
  BY DEF DInv, LocalsFit, Tree, Unmaking, RmdirPcs
<1>6. \A t \in Threads : pc[t] \in MkdirPcs => pc[t] # "idle" /\ loc[t].path # Root /\ created_dirs[loc[t].path] = None
  BY DEF DInv, LocalsFit, Tree, Making, MkdirPcs
<1>7. \A p, q \in Paths : created_dirs[p] \in Dhs /\ created_dirs[p] = created_dirs[q] => p = q
  BY DhsNotNone DEF DInv, PathsOnce
<1> QED BY <1>1, <1>2, <1>3, <1>4, <1>5, <1>6, <1>7, PathsClosed

\* rmdir clears the meta of a directory that is still closed and empty.
LEMMA RmdirWriteTree ==
    ASSUME DInv, Tree, NEW t \in Threads, NEW good \in BOOLEAN, RmdirWrite(t, good), failures' = 0
    PROVE  Tree'
<1>1. /\ TypeOK /\ pc[t] = "rmdir_write" /\ pc[t] \in RmdirPcs
      /\ UNCHANGED <<status, free_dhs, created_dirs, children, nlink, crashes>>
  BY DEF DInv, RmdirWrite, At, RmdirPcs
<1>2. PICK d \in Dhs, p \in Paths :
         /\ d = loc[t].dh /\ p = loc[t].path /\ created_dirs[p] = d /\ children[d] = {} /\ nlink[d] = 0
  BY <1>1, PathOwners DEF Tree, Unmaking
<1>3. status = "up" BY <1>1, RootThere
<1>4. PICK dm \in [Dhs -> DirMeta] :
         /\ dm = [dmeta EXCEPT ![d].used = FALSE]
         /\ dm[d] = [used |-> FALSE, name |-> dmeta[d].name, ok |-> dmeta[d].ok]
         /\ \A e \in Dhs : e # d => dm[e] = dmeta[e]
  BY <1>1, <1>2, Contents, Zenon
<1>5. WriteMeta(dm, d, good) /\ ~dm[d].used /\ dm[d].name = dmeta[d].name BY <1>2, <1>4 DEF RmdirWrite
<1>6. /\ good /\ \A e \in Dhs : e # d => dmeta'[e] = dm[e]
      /\ dmeta'[d] = [used |-> dm[d].used, name |-> dm[d].name, ok |-> TRUE]
  BY <1>1, <1>5, Written
<1>7. /\ dmeta'[d].ok /\ ~dmeta'[d].used /\ dmeta'[d].name = dmeta[d].name
      /\ \A e \in Dhs : e # d => dmeta'[e] = dmeta[e]
  BY <1>4, <1>5, <1>6
<1>8. /\ pc'[t] = "rmdir_remove" /\ loc' = loc
      /\ \A u \in Threads : u # t => pc'[u] = pc[u]
  BY <1>1, <1>6 DEF RmdirWrite, Goto, TypeOK
<1>9. \A u \in Threads : /\ pc'[u] \in MkdirPcs <=> pc[u] \in MkdirPcs
                         /\ pc'[u] \in MkdirPcs => pc'[u] = pc[u]
                         /\ pc'[u] \in RmdirPcs <=> pc[u] \in RmdirPcs
                         /\ pc'[u] = "opendir_inc" <=> pc[u] = "opendir_inc"
                         /\ pc'[u] = "mkdir_write" <=> pc[u] = "mkdir_write"
  BY <1>1, <1>8 DEF MkdirPcs, RmdirPcs
<1>10. LocksApart' BY <1>8, <1>9 DEF Tree, LocksApart
<1>11. Making'
  <2>1. \A u \in Threads : pc[u] \in MkdirPcs => loc[u].dh \in Dhs /\ loc[u].dh # d
    BY <1>2, PathOwners
  <2> QED BY <1>1, <1>7, <1>8, <1>9, <2>1 DEF Tree, Making
<1>12. Unmaking' BY <1>1, <1>8, <1>9 DEF Tree, Unmaking
<1>13. \A x : Removing(x)' <=> Removing(x) BY <1>8, <1>9 DEF Removing, RmdirPcs
<1>14. OpeningFound' BY <1>1, <1>8, <1>9, <1>13 DEF Tree, OpeningFound
<1>15. Removed(p)' /\ \A x : x # p => (Removed(x)' <=> Removed(x)) BY <1>1, <1>2, <1>8 DEF Removed
<1>16. MetasNamed'
  <2>1. ASSUME NEW q \in Paths, created_dirs'[q] # None
        PROVE  /\ dmeta'[created_dirs'[q]].name = q /\ dmeta'[created_dirs'[q]].ok
               /\ dmeta'[created_dirs'[q]].used <=> ~Removed(q)'
    <3>1. /\ created_dirs[q] \in Dhs /\ dmeta[created_dirs[q]].name = q /\ dmeta[created_dirs[q]].ok
          /\ dmeta[created_dirs[q]].used <=> ~Removed(q)
      BY <1>1, <2>1, PathOwners DEF Tree, MetasNamed
    <3>2. CASE q = p BY <1>1, <1>2, <1>7, <1>15, <3>1, <3>2
    <3>3. CASE q # p
      <4>1. created_dirs[q] # d BY <1>2, <3>3, PathOwners
      <4> QED BY <1>1, <1>7, <1>15, <3>1, <3>3, <4>1
    <3> QED BY <3>2, <3>3
  <2> QED BY <2>1 DEF MetasNamed
<1>17. UsedKnown' BY <1>1, <1>7, <1>8, <1>9 DEF Tree, UsedKnown
<1>18. Family' /\ Rooted' BY <1>1 DEF Tree, Family, Rooted
<1>19. OpenUsed' BY <1>1, <1>2, <1>7 DEF Tree, OpenUsed
<1>20. \A e : Claims(e)' <=> Claims(e) BY <1>8, <1>9 DEF Claims
<1>21. ~Claims(d)'
  <2>1. ~Claims(d) BY <1>2, PathOwners, DhsNotNone
  <2> QED BY <1>20, <2>1
<1>22. Synced' BY <1>1, <1>3, <1>4, <1>5, <1>6, <1>20, <1>21, SyncedWrite DEF Tree
<1>23. Empty' BY <1>1, <1>3 DEF Empty
<1> QED BY <1>10, <1>11, <1>12, <1>14, <1>16, <1>17, <1>18, <1>19, <1>22, <1>23 DEF Tree

\* Two threads that make or remove directories do so at different paths, and neither
\* path is the parent of the other.
LEMMA PathsApart ==
    ASSUME Tree, NEW t \in Threads, NEW u \in Threads, t # u,
           pc[t] \in MkdirPcs \cup RmdirPcs, pc[u] \in MkdirPcs \cup RmdirPcs
    PROVE  /\ loc[t].path # loc[u].path /\ Parent(loc[t].path) # loc[u].path
           /\ loc[t].path # Parent(loc[u].path) /\ Parent(loc[t].path) # Parent(loc[u].path)
BY DEF Tree, LocksApart

\* rmdir takes a directory without children out of the maps.
LEMMA RmdirRemoveTree ==
    ASSUME DInv, Tree, NEW t \in Threads, RmdirRemove(t)
    PROVE  Tree'
<1>1. /\ TypeOK /\ pc[t] = "rmdir_remove" /\ pc[t] \in RmdirPcs
      /\ UNCHANGED <<status, dmeta, disk_dmeta, free_dhs, nlink, crashes, failures>>
      /\ Moved(t, "idle", NoLoc)
  BY Moves DEF DInv, RmdirRemove, At, RmdirPcs
<1>2. PICK d \in Dhs, p \in Paths :
         /\ d = loc[t].dh /\ p = loc[t].path /\ created_dirs[p] = d /\ children[d] = {}
         /\ p # Root /\ Parent(p) \in Paths
  BY <1>1, PathOwners DEF Tree, Unmaking
<1>3. status = "up" BY <1>1, RootThere
<1>4. PICK parent \in Dhs : parent = created_dirs[Parent(p)]
  <2>1. created_dirs[Parent(p)] # None BY <1>2, DhsNotNone DEF Tree, Rooted
  <2> QED BY <1>2, <2>1, PathOwners
<1>5. d \in children[parent] BY <1>2, <1>4 DEF Tree, Family
<1>6. /\ children' = [children EXCEPT ![parent] = @ \ {d}]
      /\ created_dirs' = [created_dirs EXCEPT ![p] = None]
  BY <1>2, <1>4, <1>5 DEF RmdirRemove
<1>7. \A e, g \in Dhs : g \in children'[e] <=> g \in children[e] /\ ~(e = parent /\ g = d)
  BY <1>1, <1>4, <1>6 DEF TypeOK
<1>8. created_dirs'[p] = None /\ \A q \in Paths : q # p => created_dirs'[q] = created_dirs[q]
  BY <1>1, <1>6 DEF TypeOK
<1>9. /\ pc'[t] = "idle" /\ loc'[t] = NoLoc
      /\ \A u \in Threads : u # t => pc'[u] = pc[u] /\ loc'[u] = loc[u]
  BY <1>1 DEF Moved
<1>10. \A x \in Paths : x # Root /\ created_dirs[x] # None => Parent(x) # p
  <2>1. ASSUME NEW x \in Paths, x # Root, created_dirs[x] # None, Parent(x) = p PROVE FALSE
    <3>1. created_dirs[x] \in Dhs BY <2>1, PathOwners
    <3>2. created_dirs[x] \in children[d] BY <1>2, <2>1, <3>1 DEF Tree, Family
    <3> QED BY <1>2, <3>2
  <2> QED BY <2>1
<1>11. LocksApart' BY <1>9 DEF Tree, LocksApart, MkdirPcs, RmdirPcs, NoLoc
<1>12. Making'
  <2>1. ASSUME NEW u \in Threads, pc'[u] \in MkdirPcs
        PROVE  /\ u # t /\ pc[u] \in MkdirPcs /\ loc[u].path \in Paths /\ Parent(loc[u].path) \in Paths
               /\ loc[u].path # p /\ Parent(loc[u].path) # p
    <3>1. u # t /\ pc[u] \in MkdirPcs BY <1>9, <2>1 DEF MkdirPcs
    <3>2. loc[u].path # p /\ Parent(loc[u].path) # p BY <1>1, <1>2, <3>1, PathsApart
    <3> QED BY <3>1, <3>2, PathOwners
  <2> QED BY <1>1, <1>8, <1>9, <2>1 DEF Tree, Making
<1>13. Unmaking'
  <2>1. ASSUME NEW u \in Threads, pc'[u] \in RmdirPcs
        PROVE  /\ u # t /\ pc[u] \in RmdirPcs /\ loc[u].path \in Paths /\ loc[u].dh \in Dhs
               /\ loc[u].path # p
    <3>1. u # t /\ pc[u] \in RmdirPcs BY <1>9, <2>1 DEF RmdirPcs
    <3>2. loc[u].path # p BY <1>1, <1>2, <3>1, PathsApart
    <3> QED BY <3>1, <3>2, PathOwners
  <2>2. \A e \in Dhs : children[e] = {} => children'[e] = {}
    BY <1>1, <1>4, <1>6 DEF TypeOK
  <2> QED BY <1>1, <1>8, <1>9, <2>1, <2>2 DEF Tree, Unmaking
<1>14. /\ \A x : Removing(x)' => Removing(x)
       /\ \A x : x # p => (Removed(x)' <=> Removed(x))
       /\ Removing(p) /\ Removed(p)
  BY <1>1, <1>2, <1>9 DEF Removing, Removed
<1>15. OpeningFound'
  <2>1. ASSUME NEW u \in Threads, pc'[u] = "opendir_inc"
        PROVE  created_dirs'[loc'[u].path] = loc'[u].dh /\ ~Removing(loc[u].path)' /\ loc'[u] = loc[u]
    <3>1. u # t /\ pc[u] = "opendir_inc" /\ loc'[u] = loc[u] BY <1>9, <2>1
    <3>2. PICK x \in Paths : x = loc[u].path BY <3>1, PathOwners
    <3>3. created_dirs[x] = loc[u].dh /\ ~Removing(x) BY <3>1, <3>2 DEF Tree, OpeningFound
    <3>4. x # p BY <1>14, <3>3
    <3>5. ~Removing(x)' /\ created_dirs'[x] = loc[u].dh BY <1>8, <1>14, <3>3, <3>4
    <3> QED BY <3>1, <3>2, <3>5
  <2> QED BY <2>1 DEF OpeningFound
<1>16. MetasNamed' BY <1>1, <1>8, <1>14 DEF Tree, MetasNamed
<1>17. UsedKnown'
  <2>1. ~dmeta[d].used BY <1>2, <1>14, DhsNotNone DEF Tree, MetasNamed
  <2>2. \A u \in Threads : pc[u] \in MkdirPcs => pc'[u] = pc[u] /\ loc'[u] = loc[u]
    BY <1>1, <1>9 DEF MkdirPcs
  <2> QED BY <1>1, <1>2, <1>8, <2>1, <2>2 DEF Tree, UsedKnown
<1>18. Family'
  <2>1. ASSUME NEW e \in Dhs, NEW g \in Dhs
        PROVE  g \in children'[e] <=>
                 \E x \in Paths : x # Root /\ created_dirs'[x] = g /\ created_dirs'[Parent(x)] = e
    <3>1. g # None /\ e # None BY DhsNotNone
    <3>2. ASSUME g \in children'[e]
          PROVE  \E x \in Paths : x # Root /\ created_dirs'[x] = g /\ created_dirs'[Parent(x)] = e
      <4>1. g \in children[e] /\ ~(e = parent /\ g = d) BY <1>7, <3>2
      <4>2. PICK x \in Paths : x # Root /\ created_dirs[x] = g /\ created_dirs[Parent(x)] = e
        BY <4>1 DEF Tree, Family
      <4>3. x # p BY <1>2, <1>4, <4>1, <4>2
      <4>4. Parent(x) # p /\ Parent(x) \in Paths BY <1>10, <3>1, <4>2, PathsClosed
      <4> QED BY <1>8, <4>2, <4>3, <4>4
    <3>3. ASSUME NEW x \in Paths, x # Root, created_dirs'[x] = g, created_dirs'[Parent(x)] = e
          PROVE  g \in children'[e]
      <4>1. x # p /\ Parent(x) # p BY <1>8, <3>1, <3>3
      <4>2. created_dirs[x] = g /\ created_dirs[Parent(x)] = e BY <1>8, <3>3, <4>1, PathsClosed
      <4>3. g \in children[e] BY <3>3, <4>2 DEF Tree, Family
      <4>4. g # d BY <1>2, <4>1, <4>2, PathOwners
      <4> QED BY <1>7, <4>3, <4>4
    <3> QED BY <3>2, <3>3
  <2> QED BY <2>1 DEF Family
<1>19. Rooted'
  <2>1. ASSUME NEW x \in Paths, x # Root, created_dirs'[x] # None PROVE created_dirs'[Parent(x)] # None
    <3>1. x # p /\ created_dirs[x] # None BY <1>8, <2>1
    <3>2. Parent(x) \in Paths /\ Parent(x) # p BY <1>10, <2>1, <3>1, PathsClosed
    <3> QED BY <1>8, <2>1, <3>1, <3>2 DEF Tree, Rooted
  <2> QED BY <2>1 DEF Rooted
<1>20. OpenUsed' BY <1>1 DEF Tree, OpenUsed
<1>21. \A e : Claims(e)' <=> Claims(e) BY <1>1, <1>9 DEF Claims
<1>22. Synced' BY <1>1, <1>21 DEF Tree, Synced
<1>23. Empty' BY <1>1, <1>3 DEF Empty
<1> QED BY <1>11, <1>12, <1>13, <1>15, <1>16, <1>17, <1>18, <1>19, <1>20, <1>22, <1>23 DEF Tree

\* mkdir enters a directory without children under a parent that nobody is removing.
LEMMA MkdirAddTree ==
    ASSUME DInv, Tree, NEW t \in Threads, MkdirAdd(t)
    PROVE  Tree'
<1>1. /\ TypeOK /\ pc[t] = "mkdir_add" /\ pc[t] \in MkdirPcs /\ status = "up"
      /\ UNCHANGED <<status, dmeta, disk_dmeta, free_dhs, nlink, crashes, failures>>
      /\ Moved(t, "idle", NoLoc)
  BY MkdirAdds DEF DInv, MkdirPcs
<1>2. PICK d \in Dhs, p \in Paths :
         /\ d = loc[t].dh /\ p = loc[t].path /\ p # Root /\ Parent(p) \in Paths
         /\ ChildAdded(p, d)
  BY MkdirAdds
<1>3. /\ created_dirs[p] = None /\ created_dirs[Parent(p)] # None /\ Parent(p) # p
      /\ dmeta[d].used /\ dmeta[d].name = p /\ dmeta[d].ok
  BY <1>1, <1>2, PathsClosed DEF Tree, Making
<1>4. PICK parent \in Dhs : parent = created_dirs[Parent(p)] BY <1>2, <1>3, PathOwners
<1>5. \A e, g \in Dhs : g \in children'[e] <=> g \in children[e] \/ (e = parent /\ g = d)
  BY <1>2, <1>4 DEF ChildAdded
<1>6. created_dirs'[p] = d /\ \A q \in Paths : q # p => created_dirs'[q] = created_dirs[q]
  BY <1>2 DEF ChildAdded
<1>7. /\ pc'[t] = "idle" /\ loc'[t] = NoLoc
      /\ \A u \in Threads : u # t => pc'[u] = pc[u] /\ loc'[u] = loc[u]
  BY <1>1 DEF Moved
<1>8. \A x \in Paths : x # Root /\ created_dirs[x] # None => x # p /\ Parent(x) # p
  BY <1>3 DEF Tree, Rooted
<1>9. LocksApart' BY <1>7 DEF Tree, LocksApart, MkdirPcs, RmdirPcs, NoLoc
<1>10. Making'
  <2>1. ASSUME NEW u \in Threads, pc'[u] \in MkdirPcs
        PROVE  /\ u # t /\ pc[u] \in MkdirPcs /\ loc[u].path \in Paths /\ Parent(loc[u].path) \in Paths
               /\ loc[u].path # p /\ Parent(loc[u].path) # p
    <3>1. u # t /\ pc[u] \in MkdirPcs BY <1>7, <2>1 DEF MkdirPcs
    <3>2. loc[u].path # p /\ Parent(loc[u].path) # p BY <1>1, <1>2, <3>1, PathsApart
    <3> QED BY <3>1, <3>2, PathOwners
  <2> QED BY <1>1, <1>6, <1>7, <2>1 DEF Tree, Making
<1>11. Unmaking'
  <2>1. ASSUME NEW u \in Threads, pc'[u] \in RmdirPcs
        PROVE  /\ u # t /\ pc[u] \in RmdirPcs /\ loc[u].path \in Paths /\ loc[u].dh \in Dhs
               /\ loc[u].path # p /\ loc[u].dh # parent
    <3>1. u # t /\ pc[u] \in RmdirPcs BY <1>7, <2>1 DEF RmdirPcs
    <3>2. loc[u].path # p /\ Parent(p) # loc[u].path BY <1>1, <1>2, <3>1, PathsApart
    <3>3. loc[u].dh # parent BY <1>2, <1>4, <3>1, <3>2, PathOwners
    <3> QED BY <3>1, <3>2, <3>3, PathOwners
  <2>2. \A e \in Dhs : e # parent => children'[e] = children[e] BY <1>2, <1>4 DEF ChildAdded
  <2> QED BY <1>1, <1>6, <1>7, <2>1, <2>2 DEF Tree, Unmaking
<1>12. \A x : (Removing(x)' <=> Removing(x)) /\ (Removed(x)' <=> Removed(x))
  BY <1>1, <1>7 DEF Removing, Removed
<1>13. OpeningFound'
  <2>1. ASSUME NEW u \in Threads, pc'[u] = "opendir_inc"
        PROVE  /\ u # t /\ pc[u] = "opendir_inc" /\ loc[u].path \in Paths /\ loc[u].path # p
    <3>1. u # t /\ pc[u] = "opendir_inc" BY <1>7, <2>1
    <3>2. created_dirs[loc[u].path] = loc[u].dh /\ loc[u].dh # None
      BY <3>1, PathOwners, DhsNotNone DEF Tree, OpeningFound
    <3> QED BY <1>3, <3>1, <3>2, PathOwners
  <2> QED BY <1>6, <1>7, <1>12, <2>1 DEF Tree, OpeningFound
<1>14. MetasNamed'
  <2>1. ~Removed(p)
    <3>1. \A u \in Threads : pc[u] = "rmdir_remove" => created_dirs[loc[u].path] # None
      BY PathOwners, DhsNotNone DEF RmdirPcs
    <3> QED BY <1>3, <3>1 DEF Removed
  <2> QED BY <1>1, <1>3, <1>6, <1>12, <2>1 DEF Tree, MetasNamed
<1>15. UsedKnown'
  <2>1. ASSUME NEW e \in Dhs, dmeta'[e].used
        PROVE  \/ \E q \in Paths : created_dirs'[q] = e
               \/ \E u \in Threads : pc'[u] \in MkdirPcs /\ loc'[u].dh = e
    <3>1. \/ \E q \in Paths : created_dirs[q] = e
          \/ \E u \in Threads : pc[u] \in MkdirPcs /\ loc[u].dh = e
      BY <1>1, <2>1 DEF Tree, UsedKnown
    <3>2. CASE e = d BY <1>6, <3>2
    <3>3. CASE e # d BY <1>2, <1>3, <1>6, <1>7, <3>1, <3>3, DhsNotNone
    <3> QED BY <3>2, <3>3
  <2> QED BY <2>1 DEF UsedKnown
<1>16. Family'
  <2>1. ASSUME NEW e \in Dhs, NEW g \in Dhs
        PROVE  g \in children'[e] <=>
                 \E x \in Paths : x # Root /\ created_dirs'[x] = g /\ created_dirs'[Parent(x)] = e
    <3>1. g # None /\ e # None BY DhsNotNone
    <3>2. ASSUME g \in children'[e]
          PROVE  \E x \in Paths : x # Root /\ created_dirs'[x] = g /\ created_dirs'[Parent(x)] = e
      <4>1. CASE e = parent /\ g = d BY <1>2, <1>3, <1>4, <1>6, <4>1
      <4>2. CASE g \in children[e]
        <5>1. PICK x \in Paths : x # Root /\ created_dirs[x] = g /\ created_dirs[Parent(x)] = e
          BY <4>2 DEF Tree, Family
        <5>2. x # p /\ Parent(x) # p /\ Parent(x) \in Paths BY <1>8, <3>1, <5>1, PathsClosed
        <5> QED BY <1>6, <5>1, <5>2
      <4> QED BY <1>5, <3>2, <4>1, <4>2
    <3>3. ASSUME NEW x \in Paths, x # Root, created_dirs'[x] = g, created_dirs'[Parent(x)] = e
          PROVE  g \in children'[e]
      <4>1. CASE x = p BY <1>2, <1>3, <1>4, <1>5, <1>6, <3>3, <4>1
      <4>2. CASE x # p
        <5>1. created_dirs[x] = g BY <1>6, <3>3, <4>2
        <5>2. Parent(x) # p /\ Parent(x) \in Paths BY <1>8, <3>1, <3>3, <5>1, PathsClosed
        <5>3. created_dirs[Parent(x)] = e BY <1>6, <3>3, <5>2
        <5>4. g \in children[e] BY <3>3, <5>1, <5>3 DEF Tree, Family
        <5> QED BY <1>5, <5>4
      <4> QED BY <4>1, <4>2
    <3> QED BY <3>2, <3>3
  <2> QED BY <2>1 DEF Family
<1>17. Rooted'
  <2>1. ASSUME NEW x \in Paths, x # Root, created_dirs'[x] # None PROVE created_dirs'[Parent(x)] # None
    <3>1. CASE x = p BY <1>2, <1>3, <1>6, <3>1
    <3>2. CASE x # p
      <4>1. created_dirs[x] # None BY <1>6, <2>1, <3>2
      <4>2. Parent(x) # p /\ Parent(x) \in Paths BY <1>8, <2>1, <4>1, PathsClosed
      <4> QED BY <1>6, <2>1, <4>1, <4>2 DEF Tree, Rooted
    <3> QED BY <3>1, <3>2
  <2> QED BY <2>1 DEF Rooted
<1>18. OpenUsed' BY <1>1 DEF Tree, OpenUsed
<1>19. \A e : Claims(e)' <=> Claims(e) BY <1>1, <1>7 DEF Claims
<1>20. Synced' BY <1>1, <1>19 DEF Tree, Synced
<1>21. Empty' BY <1>1 DEF Empty
<1> QED BY <1>9, <1>10, <1>11, <1>13, <1>14, <1>15, <1>16, <1>17, <1>18, <1>20, <1>21 DEF Tree

\* What the kernel and libfuse grant a rename: nobody makes, removes or opens a
\* directory at its paths or makes one under them.
LEMMA RenameAlone ==
    ASSUME DInv, Tree, NEW t \in Threads, NEW p \in Paths, NEW q \in Paths, NEW good \in BOOLEAN,
           RenameDirectory(t, p, q, good), LeafRenames
    PROVE  /\ created_dirs[q] = None /\ children[created_dirs[p]] = {}
           /\ \A u \in Threads : pc[u] \in MkdirPcs \cup RmdirPcs =>
                 /\ loc[u].path \notin {p, q, Parent(p), Parent(q)}
                 /\ Parent(loc[u].path) \notin {p, q, Parent(p), Parent(q)}
           /\ \A u \in Threads : pc[u] = "opendir_inc" => loc[u].path \notin {p, q}
<1>1. /\ created_dirs[q] = None /\ children[created_dirs[p]] = {}
      /\ Unlocked({p, q, Parent(p), Parent(q)}) /\ ~Opening(p) /\ ~Opening(q)
  BY DEF RenameDirectory
<1>2. \A u \in Threads : pc[u] \in MkdirPcs \cup RmdirPcs =>
         loc[u].path \in loc[u].locks /\ Parent(loc[u].path) \in loc[u].locks
  BY DEF Tree, LocksApart
<1>3. \A u \in Threads : \A x \in loc[u].locks : x \notin {p, q, Parent(p), Parent(q)}
  BY <1>1 DEF Unlocked
<1> QED BY <1>1, <1>2, <1>3 DEF Opening

\* rename moves a directory without children to a free path.
LEMMA RenameTree ==
    ASSUME DInv, Tree, NEW t \in Threads, NEW p \in Paths, NEW q \in Paths, NEW good \in BOOLEAN,
           RenameDirectory(t, p, q, good), LeafRenames, failures' = 0
    PROVE  Tree'
<1>1. /\ TypeOK /\ status = "up" /\ UNCHANGED <<status, free_dhs, nlink, pc, loc, crashes>>
      /\ RenameMaps(p, q)
  BY Renamed DEF DInv
<1>2. PICK d \in Dhs, from \in Dhs, to \in Dhs :
         d = created_dirs[p] /\ from = created_dirs[Parent(p)] /\ to = created_dirs[Parent(q)]
  BY <1>1 DEF RenameMaps
<1>3. /\ p # Root /\ q # Root /\ p # q /\ Parent(p) \in Paths /\ Parent(q) \in Paths
      /\ Parent(q) # p /\ Parent(p) # q /\ Parent(p) # p /\ Parent(q) # q
  BY <1>1 DEF RenameMaps
<1>4. /\ created_dirs[q] = None /\ children[d] = {}
      /\ \A u \in Threads : pc[u] \in MkdirPcs \cup RmdirPcs =>
            /\ loc[u].path \notin {p, q, Parent(p), Parent(q)}
            /\ Parent(loc[u].path) \notin {p, q, Parent(p), Parent(q)}
      /\ \A u \in Threads : pc[u] = "opendir_inc" => loc[u].path \notin {p, q}
  BY <1>2, RenameAlone
<1>5. /\ created_dirs'[p] = None /\ created_dirs'[q] = d
      /\ \A x \in Paths : x # p /\ x # q => created_dirs'[x] = created_dirs[x]
  BY <1>1, <1>2, <1>3, <1>4 DEF RenameMaps
<1>6. \A e, g \in Dhs : g \in children'[e] <=>
         \/ g \in children[e] /\ ~(e = from /\ g = d)
         \/ e = to /\ g = d
  BY <1>1, <1>2 DEF RenameMaps
<1>7. RenameMeta(d, q, good) BY <1>2, Renamed
<1>8. PICK dm \in [Dhs -> DirMeta] :
         /\ WriteMeta(dm, d, good)
         /\ dm[d] = [used |-> dmeta[d].used, name |-> q, ok |-> dmeta[d].ok]
         /\ \A e \in Dhs : e # d => dm[e] = dmeta[e]
  BY <1>7 DEF RenameMeta
<1>9. /\ good /\ \A e \in Dhs : e # d => dmeta'[e] = dm[e]
      /\ dmeta'[d] = [used |-> dm[d].used, name |-> dm[d].name, ok |-> TRUE]
  BY <1>1, <1>8, Written
<1>10. /\ dmeta'[d].ok /\ dmeta'[d].name = q /\ (dmeta'[d].used <=> dmeta[d].used)
       /\ \A e \in Dhs : e # d => dmeta'[e] = dmeta[e]
  BY <1>8, <1>9
<1>11. \A x \in Paths : x # Root /\ created_dirs[x] # None => x # q /\ Parent(x) # p /\ Parent(x) # q
  <2>1. ASSUME NEW x \in Paths, x # Root, created_dirs[x] # None PROVE x # q /\ Parent(x) # p /\ Parent(x) # q
    <3>1. created_dirs[x] \in Dhs BY <2>1, PathOwners
    <3>2. Parent(x) = p => created_dirs[x] \in children[d] BY <1>2, <2>1, <3>1 DEF Tree, Family
    <3>3. Parent(x) # q BY <1>4, <2>1 DEF Tree, Rooted
    <3> QED BY <1>4, <2>1, <3>2, <3>3
  <2> QED BY <2>1
<1>12. LocksApart' BY <1>1 DEF Tree, LocksApart
<1>13. Making'
  <2>1. ASSUME NEW u \in Threads, pc[u] \in MkdirPcs
        PROVE  /\ loc[u].path \in Paths /\ Parent(loc[u].path) \in Paths
               /\ loc[u].path # p /\ loc[u].path # q
               /\ Parent(loc[u].path) # p /\ Parent(loc[u].path) # q
               /\ loc[u].dh \in Dhs /\ loc[u].dh # d
    BY <1>2, <1>4, <2>1, PathOwners
  <2> QED BY <1>1, <1>5, <1>10, <2>1 DEF Tree, Making
<1>14. Unmaking'
  <2>1. ASSUME NEW u \in Threads, pc[u] \in RmdirPcs
        PROVE  /\ created_dirs'[loc[u].path] = loc[u].dh /\ children'[loc[u].dh] = {}
    <3>1. /\ loc[u].path \in Paths /\ loc[u].dh \in Dhs /\ created_dirs[loc[u].path] = loc[u].dh
          /\ loc[u].path # p /\ loc[u].path # q /\ loc[u].path # Parent(q)
      BY <1>4, <2>1, PathOwners
    <3>2. loc[u].dh # to BY <1>2, <1>3, <3>1, PathOwners
    <3>3. children[loc[u].dh] = {} BY <2>1 DEF Tree, Unmaking
    <3>4. \A g \in Dhs : g \notin children'[loc[u].dh] BY <1>6, <3>1, <3>2, <3>3
    <3>5. children'[loc[u].dh] \subseteq Dhs BY <1>1, <3>1 DEF RenameMaps
    <3> QED BY <1>5, <3>1, <3>4, <3>5
  <2> QED BY <1>1, <2>1 DEF Tree, Unmaking
<1>15. \A x : (Removing(x)' <=> Removing(x)) /\ (Removed(x)' <=> Removed(x)) /\ (Claims(x)' <=> Claims(x))
  BY <1>1 DEF Removing, Removed, Claims
<1>16. OpeningFound'
  <2>1. \A u \in Threads : pc[u] = "opendir_inc" =>
           loc[u].path \in Paths /\ created_dirs'[loc[u].path] = created_dirs[loc[u].path]
    BY <1>4, <1>5, PathOwners
  <2> QED BY <1>1, <1>15, <2>1 DEF Tree, OpeningFound
<1>17. ~Removed(p) /\ ~Removed(q) BY <1>4 DEF Removed, RmdirPcs
<1>18. MetasNamed'
  <2>1. ASSUME NEW x \in Paths, created_dirs'[x] # None
        PROVE  /\ dmeta'[created_dirs'[x]].name = x /\ dmeta'[created_dirs'[x]].ok
               /\ dmeta'[created_dirs'[x]].used <=> ~Removed(x)'
    <3>1. CASE x = q
      <4>1. dmeta[d].used BY <1>2, <1>17, DhsNotNone DEF Tree, MetasNamed
      <4> QED BY <1>5, <1>10, <1>15, <1>17, <3>1, <4>1
    <3>2. CASE x # q
      <4>1. x # p /\ created_dirs'[x] = created_dirs[x] BY <1>5, <2>1, <3>2
      <4>2. created_dirs[x] \in Dhs /\ created_dirs[x] # d BY <1>2, <2>1, <4>1, PathOwners
      <4>3. /\ dmeta[created_dirs[x]].name = x /\ dmeta[created_dirs[x]].ok
            /\ dmeta[created_dirs[x]].used <=> ~Removed(x)
        BY <2>1, <4>1 DEF Tree, MetasNamed
      <4> QED BY <1>10, <1>15, <4>1, <4>2, <4>3
    <3> QED BY <3>1, <3>2
  <2> QED BY <2>1 DEF MetasNamed
<1>19. UsedKnown'
  <2>1. ASSUME NEW e \in Dhs, dmeta'[e].used
        PROVE  \/ \E x \in Paths : created_dirs'[x] = e
               \/ \E u \in Threads : pc'[u] \in MkdirPcs /\ loc'[u].dh = e
    <3>1. CASE e = d BY <1>5, <3>1
    <3>2. CASE e # d
      <4>1. \/ \E x \in Paths : created_dirs[x] = e
            \/ \E u \in Threads : pc[u] \in MkdirPcs /\ loc[u].dh = e
        BY <1>10, <2>1, <3>2 DEF Tree, UsedKnown
      <4> QED BY <1>1, <1>2, <1>4, <1>5, <3>2, <4>1, DhsNotNone
    <3> QED BY <3>1, <3>2
  <2> QED BY <2>1 DEF UsedKnown
<1>20. Family'
  <2>1. ASSUME NEW e \in Dhs, NEW g \in Dhs
        PROVE  g \in children'[e] <=>
                 \E x \in Paths : x # Root /\ created_dirs'[x] = g /\ created_dirs'[Parent(x)] = e
    <3>1. g # None /\ e # None BY DhsNotNone
    <3>2. ASSUME g \in children'[e]
          PROVE  \E x \in Paths : x # Root /\ created_dirs'[x] = g /\ created_dirs'[Parent(x)] = e
      <4>1. CASE e = to /\ g = d BY <1>2, <1>3, <1>5, <4>1
      <4>2. CASE g \in children[e] /\ ~(e = from /\ g = d)
        <5>1. PICK x \in Paths : x # Root /\ created_dirs[x] = g /\ created_dirs[Parent(x)] = e
          BY <4>2 DEF Tree, Family
        <5>2. x # q /\ Parent(x) # p /\ Parent(x) # q /\ Parent(x) \in Paths
          BY <1>11, <3>1, <5>1, PathsClosed
        <5>3. x # p BY <1>2, <4>2, <5>1
        <5> QED BY <1>5, <5>1, <5>2, <5>3
      <4> QED BY <1>6, <3>2, <4>1, <4>2
    <3>3. ASSUME NEW x \in Paths, x # Root, created_dirs'[x] = g, created_dirs'[Parent(x)] = e
          PROVE  g \in children'[e]
      <4>1. CASE x = q BY <1>2, <1>3, <1>5, <1>6, <3>3, <4>1
      <4>2. CASE x # q
        <5>1. x # p /\ created_dirs[x] = g BY <1>5, <3>1, <3>3, <4>2
        <5>2. Parent(x) # p /\ Parent(x) # q /\ Parent(x) \in Paths BY <1>11, <3>1, <3>3, <5>1, PathsClosed
        <5>3. created_dirs[Parent(x)] = e BY <1>5, <3>3, <5>2
        <5>4. g \in children[e] BY <3>3, <5>1, <5>3 DEF Tree, Family
        <5>5. g # d BY <1>2, <5>1, PathOwners
        <5> QED BY <1>6, <5>4, <5>5
      <4> QED BY <4>1, <4>2
    <3> QED BY <3>2, <3>3
  <2> QED BY <2>1 DEF Family
<1>21. Rooted'
  <2>1. ASSUME NEW x \in Paths, x # Root, created_dirs'[x] # None PROVE created_dirs'[Parent(x)] # None
    <3>1. CASE x = q BY <1>2, <1>3, <1>5, <3>1, DhsNotNone
    <3>2. CASE x # q
      <4>1. created_dirs[x] # None BY <1>5, <2>1, <3>2
      <4>2. Parent(x) # p /\ Parent(x) # q /\ Parent(x) \in Paths BY <1>11, <2>1, <4>1, PathsClosed
      <4> QED BY <1>5, <2>1, <4>1, <4>2 DEF Tree, Rooted
    <3> QED BY <3>1, <3>2
  <2> QED BY <2>1 DEF Rooted
<1>22. OpenUsed' BY <1>1, <1>10 DEF Tree, OpenUsed
<1>23. ~Claims(d)'
  <2>1. ~Claims(d) BY <1>2, PathOwners, DhsNotNone
  <2> QED BY <1>15, <2>1
<1>24. Synced' BY <1>1, <1>8, <1>9, <1>15, <1>23, SyncedWrite DEF Tree
<1>25. Empty' BY <1>1 DEF Empty
<1> QED BY <1>12, <1>13, <1>14, <1>16, <1>18, <1>19, <1>20, <1>21, <1>22, <1>24, <1>25 DEF Tree

\* A mount that accepts the device finds a tree on it.
LEMMA MountTree ==
    ASSUME DInv, Mount
    PROVE  Tree'
<1>1. /\ TypeOK /\ status = "down" /\ status' = "up" /\ dmeta' = disk_dmeta
      /\ CrcsMatch /\ NamesUnique /\ ParentsExist
      /\ created_dirs' = [p \in Paths |-> LoadedDir(p)]
      /\ children' = [d \in Dhs |-> LoadedChildren(d)]
      /\ nlink' = [d \in Dhs |-> 0]
      /\ UNCHANGED <<disk_dmeta, pc, loc, crashes, failures>>
  BY DEF DInv, Mount, MountOk
<1>2. \A t \in Threads : pc'[t] = "idle" /\ loc'[t] = NoLoc BY <1>1 DEF DInv, LocalsFit
<1>3. \A p \in Paths : \/ p \notin UsedNames /\ created_dirs'[p] = None
                       \/ /\ p \in UsedNames /\ created_dirs'[p] \in UsedDhs
                          /\ disk_dmeta[created_dirs'[p]].name = p
  <2>1. \A p \in Paths : created_dirs'[p] = LoadedDir(p) BY <1>1
  <2> QED BY <2>1, Loaded
<1>4. \A d : d \in UsedDhs <=> d \in Dhs /\ disk_dmeta[d].used BY DEF UsedDhs
<1>5. \A d \in UsedDhs : disk_dmeta[d].name \in UsedNames /\ disk_dmeta[d].name \in Paths
  BY <1>1, <1>4 DEF UsedNames, TypeOK, DirMeta
<1>6. \A d \in UsedDhs : created_dirs'[disk_dmeta[d].name] = d
  BY <1>1, <1>3, <1>5 DEF NamesUnique
<1>7. LocksApart' /\ Making' /\ Unmaking' /\ OpeningFound'
  BY <1>2 DEF LocksApart, Making, Unmaking, OpeningFound, MkdirPcs, RmdirPcs, NoLoc
<1>8. \A p : ~Removed(p)' BY <1>2 DEF Removed
<1>9. \A d : ~Claims(d)' BY <1>2 DEF Claims
<1>10. MetasNamed' BY <1>1, <1>3, <1>4, <1>8 DEF MetasNamed, CrcsMatch
<1>11. UsedKnown' BY <1>1, <1>4, <1>5, <1>6 DEF UsedKnown
<1>12. Family'
  <2>1. ASSUME NEW d \in Dhs, NEW e \in Dhs
        PROVE  e \in children'[d] <=>
                 \E p \in Paths : p # Root /\ created_dirs'[p] = e /\ created_dirs'[Parent(p)] = d
    <3>1. e \in children'[d] <=> /\ e \in UsedDhs /\ d \in UsedDhs /\ disk_dmeta[e].name # Root
                                 /\ Parent(disk_dmeta[e].name) = disk_dmeta[d].name
      BY <1>1 DEF LoadedChildren
    <3>2. ASSUME e \in children'[d]
          PROVE  \E p \in Paths : p # Root /\ created_dirs'[p] = e /\ created_dirs'[Parent(p)] = d
      BY <1>5, <1>6, <3>1, <3>2
    <3>3. ASSUME NEW p \in Paths, p # Root, created_dirs'[p] = e, created_dirs'[Parent(p)] = d
          PROVE  e \in children'[d]
      <4>1. Parent(p) \in Paths /\ e # None /\ d # None BY <3>3, PathsClosed, DhsNotNone
      <4>2. e \in UsedDhs /\ disk_dmeta[e].name = p BY <1>3, <3>3, <4>1
      <4>3. d \in UsedDhs /\ disk_dmeta[d].name = Parent(p) BY <1>3, <3>3, <4>1
      <4> QED BY <3>1, <3>3, <4>2, <4>3
    <3> QED BY <3>2, <3>3
  <2> QED BY <2>1 DEF Family
<1>13. Rooted'
  <2>1. ASSUME NEW p \in Paths, p # Root, created_dirs'[p] # None PROVE created_dirs'[Parent(p)] # None
    <3>1. p \in UsedNames /\ Parent(p) \in Paths BY <1>3, <2>1, PathsClosed
    <3>2. Parent(p) \in UsedNames BY <1>1, <2>1, <3>1 DEF ParentsExist
    <3> QED BY <1>3, <1>4, <3>1, <3>2, DhsNotNone
  <2> QED BY <2>1 DEF Rooted
<1>14. OpenUsed' BY <1>1 DEF OpenUsed
<1>15. Synced' /\ Empty' BY <1>1, <1>9 DEF Synced, Empty, CrcsMatch
<1> QED BY <1>7, <1>10, <1>11, <1>12, <1>13, <1>14, <1>15 DEF Tree

\* The mount point is made on a device that has no directory.
LEMMA MakeMountPointTree ==
    ASSUME DInv, Tree, MakeMountPoint
    PROVE  Tree'
<1>1. /\ TypeOK /\ status = "up" /\ created_dirs[Root] = None
      /\ UNCHANGED <<status, children, nlink, pc, loc, crashes>>
  BY DEF DInv, MakeMountPoint
<1>2. PICK d \in Dhs, dm \in [Dhs -> DirMeta] :
         /\ d = Head(free_dhs) /\ free_dhs # <<>> /\ d \in Range(free_dhs)
         /\ dm[d] = [used |-> TRUE, name |-> Root, ok |-> FALSE]
         /\ \A e \in Dhs : e # d => dm[e] = dmeta[e]
         /\ WriteMeta(dm, d, TRUE)
         /\ created_dirs'[Root] = d
         /\ \A p \in Paths : p # Root => created_dirs'[p] = created_dirs[p]
         /\ created_dirs' \in [Paths -> Dhs \cup {None}]
  BY MountPointMade
<1>3. /\ \A t \in Threads : pc'[t] = "idle" /\ loc'[t] = NoLoc /\ pc[t] = "idle"
      /\ \A p \in Paths : created_dirs[p] = None
      /\ \A e \in Dhs : ~dmeta[e].used
  BY <1>1 DEF DInv, RootFirst, LocalsFit
<1>4. /\ dmeta'[d] = [used |-> dm[d].used, name |-> dm[d].name, ok |-> TRUE]
      /\ \A e \in Dhs : e # d => dmeta'[e] = dm[e]
  BY <1>1, <1>2, Written
<1>5. /\ dmeta'[d].used /\ dmeta'[d].name = Root /\ dmeta'[d].ok
      /\ \A e \in Dhs : e # d => dmeta'[e] = dmeta[e]
  BY <1>2, <1>4
<1>6. Root \in Paths /\ \A p \in Paths : p # Root => created_dirs'[p] = None
  BY <1>2, <1>3, PathsClosed
<1>7. LocksApart' /\ Making' /\ Unmaking' /\ OpeningFound'
  BY <1>3 DEF LocksApart, Making, Unmaking, OpeningFound, MkdirPcs, RmdirPcs, NoLoc
<1>8. \A x : ~Removed(x)' /\ ~Claims(x)' /\ ~Claims(x) BY <1>3 DEF Removed, Claims
<1>9. MetasNamed' BY <1>2, <1>5, <1>6, <1>8 DEF MetasNamed
<1>10. UsedKnown' BY <1>2, <1>3, <1>5, <1>6 DEF UsedKnown
<1>11. Family'
  <2>1. \A e, g \in Dhs : g \notin children[e]
    BY <1>3, DhsNotNone DEF Tree, Family
  <2> QED BY <1>1, <1>6, <2>1, DhsNotNone DEF Family
<1>12. Rooted' BY <1>6 DEF Rooted
<1>13. OpenUsed' BY <1>1, <1>5 DEF Tree, OpenUsed
<1>14. Synced' BY <1>1, <1>2, <1>8, SyncedWrite DEF Tree
<1>15. Empty' BY <1>1 DEF Empty
<1> QED BY <1>7, <1>9, <1>10, <1>11, <1>12, <1>13, <1>14, <1>15 DEF Tree

\* A crash empties the memory.
LEMMA CrashTree ==
    ASSUME DInv, Crash
    PROVE  Tree'
<1>1. /\ crashes \in Nat /\ status' = "down" /\ crashes' = crashes + 1
      /\ dmeta' = [d \in Dhs |-> FreshDir]
      /\ created_dirs' = [p \in Paths |-> None]
      /\ children' = [d \in Dhs |-> {}] /\ nlink' = [d \in Dhs |-> 0]
      /\ pc' = [t \in Threads |-> "idle"] /\ loc' = [t \in Threads |-> NoLoc]
  BY DEF DInv, TypeOK, Crash
<1>2. /\ \A t \in Threads : pc'[t] = "idle" /\ loc'[t] = NoLoc
      /\ \A d \in Dhs : ~dmeta'[d].used /\ children'[d] = {} /\ nlink'[d] = 0
      /\ \A p \in Paths : created_dirs'[p] = None
      /\ crashes' # 0
  BY <1>1 DEF FreshDir
<1>3. LocksApart' /\ Making' /\ Unmaking' /\ OpeningFound'
  BY <1>2 DEF LocksApart, Making, Unmaking, OpeningFound, MkdirPcs, RmdirPcs, NoLoc
<1>4. MetasNamed' /\ UsedKnown' /\ Rooted' /\ OpenUsed' BY <1>2 DEF MetasNamed, UsedKnown, Rooted, OpenUsed
<1>5. Family' BY <1>2, DhsNotNone DEF Family
<1>6. Synced' /\ Empty' BY <1>1, <1>2 DEF Synced, Empty
<1> QED BY <1>3, <1>4, <1>5, <1>6 DEF Tree

\* The tree holds on a formatted device.
LEMMA TInvInit == Init => TInv
<1> SUFFICES ASSUME Init PROVE Tree BY DEF TInv
<1>1. /\ status = "down" /\ \A t \in Threads : pc[t] = "idle" /\ loc[t] = NoLoc
      /\ \A d \in Dhs : ~dmeta[d].used /\ children[d] = {} /\ nlink[d] = 0 /\ disk_dmeta[d] = FreshDir
      /\ \A p \in Paths : created_dirs[p] = None
  BY DEF Init, FreshDir
<1>2. LocksApart /\ Making /\ Unmaking /\ OpeningFound
  BY <1>1 DEF LocksApart, Making, Unmaking, OpeningFound, MkdirPcs, RmdirPcs, NoLoc
<1>3. MetasNamed /\ UsedKnown /\ Rooted /\ OpenUsed BY <1>1 DEF MetasNamed, UsedKnown, Rooted, OpenUsed
<1>4. Family BY <1>1, DhsNotNone DEF Family
<1>5. Synced /\ Empty BY <1>1 DEF Synced, Empty
<1> QED BY <1>2, <1>3, <1>4, <1>5 DEF Tree

\* No step turns the count of failed writes back.
LEMMA FailuresStay ==
    ASSUME DInv, Next, failures' = 0
    PROVE  failures = 0
<1>1. TypeOK /\ failures \in Nat BY DEF DInv, TypeOK
<1>2. CASE DeviceWrite(TRUE) \/ DeviceWrite(FALSE) BY <1>1, <1>2 DEF DeviceWrite
<1>3. CASE UNCHANGED failures BY <1>3
<1>4. \A dm, d : \A good \in BOOLEAN : WriteMeta(dm, d, good) => DeviceWrite(TRUE) \/ DeviceWrite(FALSE)
  BY DEF WriteMeta
<1>5. CASE Mount \/ Crash BY <1>3, <1>5 DEF Mount, Crash
<1>6. CASE MakeMountPoint BY <1>2, <1>4, <1>6 DEF MakeMountPoint
<1>7. ASSUME NEW t \in Threads, Operation(t) PROVE failures = 0
  <2>1. CASE mfs_mkdir(t) BY <1>3, <2>1 DEF mfs_mkdir, CreateDirectory
  <2>2. CASE bfs_rmdir(t) BY <1>3, <2>2 DEF bfs_rmdir, DeleteDirectory
  <2>3. CASE mfs_rename(t)
    <3>1. PICK p, q \in Paths, good \in BOOLEAN : RenameDirectory(t, p, q, good) BY <2>3 DEF mfs_rename
    <3>2. RenameMeta(created_dirs[p], q, good) BY <3>1, Renamed
    <3> QED BY <1>2, <1>4, <3>2 DEF RenameMeta
  <2>4. CASE bfs_opendir(t) BY <1>3, <2>4 DEF bfs_opendir, OpenDirectory
  <2>5. CASE bfs_releasedir(t) BY <1>3, <2>5 DEF bfs_releasedir, CloseDirectory
  <2>6. CASE MkdirAdd(t) \/ RmdirRemove(t) \/ OpenInc(t)
    BY <1>3, <2>6 DEF MkdirAdd, RmdirRemove, OpenInc
  <2>7. ASSUME NEW good \in BOOLEAN, MkdirWrite(t, good) \/ RmdirWrite(t, good) PROVE failures = 0
    BY <1>2, <1>4, <2>7 DEF MkdirWrite, RmdirWrite
  <2> QED BY <1>7, <2>1, <2>2, <2>3, <2>4, <2>5, <2>6, <2>7 DEF Operation
<1> QED BY <1>5, <1>6, <1>7 DEF Next

\* Every step keeps it, while no write fails, where only directories without
\* subdirectories are renamed, and to free paths.
LEMMA TInvStep == ASSUME LeafRenames PROVE DInv /\ TInv /\ [Next]_vars => TInv'
<1> SUFFICES ASSUME DInv, TInv, [Next]_vars, failures' = 0 PROVE Tree' BY DEF TInv
<1>1. CASE Next
  <2>1. Tree BY <1>1, FailuresStay DEF TInv
  <2>2. CASE Mount BY <2>2, MountTree
  <2>3. CASE MakeMountPoint BY <2>1, <2>3, MakeMountPointTree
  <2>4. CASE Crash BY <2>4, CrashTree
  <2>5. ASSUME NEW t \in Threads, Operation(t) PROVE Tree'
    <3>1. CASE mfs_mkdir(t) BY <2>1, <3>1, MkdirStartsTree DEF mfs_mkdir
    <3>2. CASE bfs_rmdir(t) BY <2>1, <3>2, RmdirStartsTree DEF bfs_rmdir
    <3>3. CASE mfs_rename(t) BY <2>1, <3>3, RenameTree DEF mfs_rename
    <3>4. CASE bfs_opendir(t) BY <2>1, <3>4, OpendirStartsTree DEF bfs_opendir
    <3>5. CASE bfs_releasedir(t) BY <2>1, <3>5, CloseDirectoryTree DEF bfs_releasedir
    <3>6. CASE MkdirAdd(t) BY <2>1, <3>6, MkdirAddTree
    <3>7. CASE RmdirRemove(t) BY <2>1, <3>7, RmdirRemoveTree
    <3>8. CASE OpenInc(t) BY <2>1, <3>8, OpenIncTree
    <3>9. ASSUME NEW good \in BOOLEAN, MkdirWrite(t, good) \/ RmdirWrite(t, good) PROVE Tree'
      BY <2>1, <3>9, MkdirWriteTree, RmdirWriteTree
    <3> QED BY <2>5, <3>1, <3>2, <3>3, <3>4, <3>5, <3>6, <3>7, <3>8, <3>9 DEF Operation
  <2> QED BY <1>1, <2>2, <2>3, <2>4, <2>5 DEF Next
<1>2. CASE UNCHANGED vars
  <2>1. UNCHANGED <<status, dmeta, disk_dmeta, free_dhs, created_dirs, children, nlink, pc, loc,
                    crashes, failures>>
    BY <1>2 DEF vars, memory
  <2>2. Tree BY <2>1 DEF TInv
  <2>3. \A x : (Removing(x)' <=> Removing(x)) /\ (Removed(x)' <=> Removed(x)) /\ (Claims(x)' <=> Claims(x))
    BY <2>1 DEF Removing, Removed, Claims
  <2>4. LocksApart' /\ Making' /\ Unmaking' /\ UsedKnown' /\ Family' /\ Rooted' /\ OpenUsed'
    BY <2>1, <2>2 DEF Tree, LocksApart, Making, Unmaking, UsedKnown, Family, Rooted, OpenUsed
  <2>5. OpeningFound' BY <2>1, <2>2, <2>3 DEF Tree, OpeningFound
  <2>6. MetasNamed' BY <2>1, <2>2, <2>3 DEF Tree, MetasNamed
  <2>7. Synced' /\ Empty' BY <2>1, <2>2, <2>3 DEF Tree, Synced, Empty
  <2> QED BY <2>4, <2>5, <2>6, <2>7 DEF Tree
<1> QED BY <1>1, <1>2

\* In a tree, a directory that is open or has a child is used.
LEMMA TreeKeepsOccupied == ASSUME DInv, TInv PROVE OccupiedKept
<1> SUFFICES ASSUME failures = 0, NEW d \in Dhs, children[d] # {} \/ nlink[d] > 0 PROVE dmeta[d].used
  BY DEF OccupiedKept
<1>1. Tree BY DEF TInv
<1>2. CASE nlink[d] > 0 BY <1>1, <1>2 DEF Tree, OpenUsed
<1>3. CASE children[d] # {}
  <2>1. PICK e \in Dhs : e \in children[d] BY <1>3 DEF DInv, TypeOK
  <2>2. PICK p \in Paths : p # Root /\ created_dirs[p] = e /\ created_dirs[Parent(p)] = d
    BY <1>1, <2>1 DEF Tree, Family
  <2>3. Parent(p) \in Paths /\ d # None BY <2>2, PathsClosed, DhsNotNone
  <2>4. ~Removed(Parent(p))
    <3>1. ASSUME NEW t \in Threads, pc[t] = "rmdir_remove", loc[t].path = Parent(p) PROVE FALSE
      <4>1. loc[t].dh = d /\ children[loc[t].dh] = {}
        BY <1>1, <2>2, <3>1 DEF Tree, Unmaking, RmdirPcs
      <4> QED BY <1>3, <4>1
    <3> QED BY <3>1 DEF Removed
  <2> QED BY <1>1, <2>2, <2>3, <2>4 DEF Tree, MetasNamed
<1> QED BY <1>2, <1>3

\* In a tree, a path that nobody has locked is on the device.
LEMMA TreeDurable == ASSUME DInv, TInv PROVE DirsDurable
<1> SUFFICES ASSUME failures = 0, NEW p \in Paths, created_dirs[p] # None, Unlocked({p})
             PROVE  disk_dmeta[created_dirs[p]] = [used |-> TRUE, name |-> p, ok |-> TRUE]
  BY DEF DirsDurable
<1>1. Tree BY DEF TInv
<1>2. status = "up" BY <1>1 DEF Tree, Empty, DInv, TypeOK
<1>3. created_dirs[p] \in Dhs /\ ~Claims(created_dirs[p]) BY <1>1, PathOwners
<1>4. ~Removed(p)
  <2>1. \A t \in Threads : pc[t] = "rmdir_remove" => loc[t].path \in loc[t].locks
    BY <1>1 DEF Tree, LocksApart, RmdirPcs
  <2> QED BY <2>1 DEF Removed, Unlocked
<1>5. PICK m \in DirMeta : m = dmeta[created_dirs[p]] BY <1>3 DEF DInv, TypeOK
<1>6. m.name = p /\ m.ok /\ m.used BY <1>1, <1>4, <1>5 DEF Tree, MetasNamed
<1>7. m.used = TRUE /\ m.ok = TRUE BY <1>6 DEF DirMeta
<1>8. m = [used |-> TRUE, name |-> p, ok |-> TRUE] BY <1>6, <1>7, MetaFields
<1>9. disk_dmeta[created_dirs[p]] = m BY <1>1, <1>2, <1>3, <1>5 DEF Tree, Synced
<1> QED BY <1>8, <1>9

-----------------------------------------------------------------------------
(* The device *)

Lives(p) == created_dirs[p] # None /\ ~Removed(p)
Added(p) == \E t \in Threads : pc[t] = "mkdir_add" /\ loc[t].path = p

\* A used meta on the device is that of a path, or that of a mkdir.
LEMMA UsedOwner ==
    ASSUME DInv, Tree, status = "up", NEW d \in UsedDhs
    PROVE  /\ d \in Dhs
           /\ \/ \E p \in Paths : created_dirs[p] = d /\ disk_dmeta[d].name = p /\ disk_dmeta[d].ok /\ Lives(p)
              \/ \E t \in Threads : /\ pc[t] \in MkdirPcs /\ loc[t].dh = d /\ disk_dmeta[d].name = loc[t].path
                                    /\ disk_dmeta[d].ok <=> pc[t] = "mkdir_add"
<1>1. d \in Dhs /\ disk_dmeta[d].used BY DEF UsedDhs
<1>2. /\ ~Claims(d) => disk_dmeta[d] = dmeta[d]
      /\ Claims(d) => disk_dmeta[d] = dmeta[d] \/ ~disk_dmeta[d].used
  BY <1>1 DEF Tree, Synced
<1>3. disk_dmeta[d] = dmeta[d] BY <1>1, <1>2
<1>4. \/ \E p \in Paths : created_dirs[p] = d
      \/ \E t \in Threads : pc[t] \in MkdirPcs /\ loc[t].dh = d
  BY <1>1, <1>3 DEF Tree, UsedKnown
<1>5. ASSUME NEW p \in Paths, created_dirs[p] = d
      PROVE  disk_dmeta[d].name = p /\ disk_dmeta[d].ok /\ Lives(p)
  BY <1>1, <1>3, <1>5, DhsNotNone DEF Tree, MetasNamed, Lives
<1>6. ASSUME NEW t \in Threads, pc[t] \in MkdirPcs, loc[t].dh = d
      PROVE  disk_dmeta[d].name = loc[t].path /\ (disk_dmeta[d].ok <=> pc[t] = "mkdir_add")
  BY <1>3, <1>6 DEF Tree, Making
<1> QED BY <1>1, <1>4, <1>5, <1>6

\* The device has every directory that is in the maps until its rmdir writes, and every
\* directory whose mkdir has written.
LEMMA OnDevice ==
    ASSUME DInv, Tree, status = "up"
    PROVE  /\ \A p \in Paths : Lives(p) =>
                 /\ created_dirs[p] \in UsedDhs /\ disk_dmeta[created_dirs[p]].name = p
                 /\ disk_dmeta[created_dirs[p]].ok
           /\ \A t \in Threads : pc[t] = "mkdir_add" =>
                 /\ loc[t].dh \in UsedDhs /\ disk_dmeta[loc[t].dh].name = loc[t].path
                 /\ disk_dmeta[loc[t].dh].ok
<1>1. ASSUME NEW p \in Paths, Lives(p)
      PROVE  /\ created_dirs[p] \in UsedDhs /\ disk_dmeta[created_dirs[p]].name = p
             /\ disk_dmeta[created_dirs[p]].ok
  <2>1. created_dirs[p] \in Dhs /\ ~Claims(created_dirs[p]) BY <1>1, PathOwners DEF Lives
  <2>2. disk_dmeta[created_dirs[p]] = dmeta[created_dirs[p]] BY <2>1 DEF Tree, Synced
  <2>3. /\ dmeta[created_dirs[p]].name = p /\ dmeta[created_dirs[p]].ok /\ dmeta[created_dirs[p]].used
    BY <1>1 DEF Tree, MetasNamed, Lives
  <2> QED BY <2>1, <2>2, <2>3 DEF UsedDhs
<1>2. ASSUME NEW t \in Threads, pc[t] = "mkdir_add"
      PROVE  /\ loc[t].dh \in UsedDhs /\ disk_dmeta[loc[t].dh].name = loc[t].path
             /\ disk_dmeta[loc[t].dh].ok
  <2>1. pc[t] \in MkdirPcs /\ loc[t].dh \in Dhs BY <1>2, PathOwners DEF MkdirPcs
  <2>2. ~Claims(loc[t].dh) BY <1>2, <2>1 DEF Claims, DInv, MadeApart, MkdirPcs
  <2>3. disk_dmeta[loc[t].dh] = dmeta[loc[t].dh] BY <2>1, <2>2 DEF Tree, Synced
  <2>4. dmeta[loc[t].dh].used /\ dmeta[loc[t].dh].name = loc[t].path /\ dmeta[loc[t].dh].ok
    BY <1>2, <2>1 DEF Tree, Making
  <2> QED BY <2>1, <2>3, <2>4 DEF UsedDhs
<1> QED BY <1>1, <1>2

\* A parent is on the device as long as the map or a mkdir has a child of it.
LEMMA ParentLives ==
    ASSUME DInv, Tree
    PROVE  /\ \A p \in Paths : p # Root /\ created_dirs[p] # None => Lives(Parent(p))
           /\ \A t \in Threads : pc[t] \in MkdirPcs => Lives(Parent(loc[t].path))
<1>1. ASSUME NEW p \in Paths, p # Root, created_dirs[p] # None PROVE Lives(Parent(p))
  <2>1. PICK q \in Paths : q = Parent(p) BY <1>1, PathsClosed
  <2>2. created_dirs[q] # None BY <1>1, <2>1 DEF Tree, Rooted
  <2>3. created_dirs[p] \in Dhs /\ created_dirs[q] \in Dhs BY <1>1, <2>2, PathOwners
  <2>4. created_dirs[p] \in children[created_dirs[q]] BY <1>1, <2>1, <2>3 DEF Tree, Family
  <2>5. ~Removed(q) BY <2>4 DEF Removed, Tree, Unmaking, RmdirPcs
  <2> QED BY <2>1, <2>2, <2>5 DEF Lives
<1>2. ASSUME NEW t \in Threads, pc[t] \in MkdirPcs PROVE Lives(Parent(loc[t].path))
  <2>1. PICK q : q = Parent(loc[t].path) OBVIOUS
  <2>2. created_dirs[q] # None BY <1>2, <2>1 DEF Tree, Making
  <2>3. ~Removed(q)
    <3>1. ASSUME NEW u \in Threads, pc[u] = "rmdir_remove", loc[u].path = q PROVE FALSE
      <4>1. u # t /\ pc[u] \in MkdirPcs \cup RmdirPcs BY <1>2, <3>1 DEF MkdirPcs, RmdirPcs
      <4> QED BY <1>2, <2>1, <3>1, <4>1, PathsApart
    <3> QED BY <3>1 DEF Removed
  <2> QED BY <2>1, <2>2, <2>3 DEF Lives
<1> QED BY <1>1, <1>2

\* A mount would accept the device, but for the crcs of claimed metas.
LEMMA TreeMountable == ASSUME DInv, TInv PROVE Mountable
<1> SUFFICES ASSUME failures = 0, crashes = 0
             PROVE  /\ \A d \in Dhs : disk_dmeta[d].ok \/ d \in Claimed
                    /\ NamesUnique /\ ParentsExist
  BY DEF Mountable
<1>1. Tree BY DEF TInv
<1>2. CASE status = "down"
  <2>1. \A d \in Dhs : disk_dmeta[d].ok /\ ~disk_dmeta[d].used BY <1>1, <1>2 DEF Tree, Empty, FreshDir
  <2>2. UsedDhs = {} BY <2>1 DEF UsedDhs
  <2> QED BY <2>1, <2>2 DEF NamesUnique, ParentsExist, UsedNames
<1>3. CASE status = "up"
  <2>1. \A d \in Dhs : disk_dmeta[d].ok \/ d \in Claimed
    <3>1. ASSUME NEW d \in Dhs, ~Claims(d) PROVE disk_dmeta[d].ok
      BY <1>1, <1>3, <3>1 DEF Tree, Synced
    <3> QED BY <3>1 DEF Claims, Claimed
  <2>2. NamesUnique
    <3>1. ASSUME NEW d \in UsedDhs, NEW e \in UsedDhs, disk_dmeta[d].name = disk_dmeta[e].name PROVE d = e
      <4>1. /\ \/ \E p \in Paths : created_dirs[p] = d /\ disk_dmeta[d].name = p
               \/ \E t \in Threads : pc[t] \in MkdirPcs /\ loc[t].dh = d /\ disk_dmeta[d].name = loc[t].path
            /\ \/ \E p \in Paths : created_dirs[p] = e /\ disk_dmeta[e].name = p
               \/ \E t \in Threads : pc[t] \in MkdirPcs /\ loc[t].dh = e /\ disk_dmeta[e].name = loc[t].path
            /\ d # None /\ e # None
        <5>1. d \in Dhs /\ e \in Dhs BY DEF UsedDhs
        <5> QED BY <1>1, <1>3, <5>1, UsedOwner, DhsNotNone
      <4>2. \A t \in Threads : pc[t] \in MkdirPcs => created_dirs[loc[t].path] = None BY <1>1, PathOwners
      <4>3. \A t, u \in Threads : pc[t] \in MkdirPcs /\ pc[u] \in MkdirPcs /\ loc[t].path = loc[u].path => t = u
        BY <1>1, PathsApart
      <4> QED BY <3>1, <4>1, <4>2, <4>3
    <3> QED BY <3>1 DEF NamesUnique
  <2>3. ParentsExist
    <3>1. ASSUME NEW p \in UsedNames, p # Root PROVE Parent(p) \in UsedNames
      <4>1. PICK d \in UsedDhs : disk_dmeta[d].name = p BY DEF UsedNames
      <4>2. \/ p \in Paths /\ created_dirs[p] # None
            \/ \E t \in Threads : pc[t] \in MkdirPcs /\ p = loc[t].path /\ loc[t].path \in Paths
        BY <1>1, <1>3, <4>1, UsedOwner, PathOwners DEF Lives
      <4>3. Lives(Parent(p)) /\ p \in Paths BY <1>1, <3>1, <4>2, ParentLives
      <4>4. Parent(p) \in Paths BY <3>1, <4>3, PathsClosed
      <4>5. created_dirs[Parent(p)] \in UsedDhs /\ disk_dmeta[created_dirs[Parent(p)]].name = Parent(p)
        BY <1>1, <1>3, <4>3, <4>4, OnDevice
      <4> QED BY <4>5 DEF UsedNames
    <3> QED BY <3>1 DEF ParentsExist
  <2> QED BY <2>1, <2>2, <2>3
<1> QED BY <1>2, <1>3 DEF DInv, TypeOK

\* The directories on the device are those of the maps that no rmdir has cleared and
\* those of the mkdirs that have written.
DurableFit ==
    /\ DurableNames \subseteq Paths
    /\ \A p \in Paths : p \in DurableNames <=> Lives(p) \/ Added(p)

\* They are so in a tree.
LEMMA DurablePaths == (DInv /\ Tree /\ status = "up") => DurableFit
<1> SUFFICES ASSUME DInv, Tree, status = "up" PROVE DurableFit OBVIOUS
<1>1. \A p : p \in DurableNames <=> \E d \in UsedDhs : disk_dmeta[d].ok /\ disk_dmeta[d].name = p
  BY DEF DurableNames
<1>2. ASSUME NEW p \in DurableNames PROVE p \in Paths /\ (Lives(p) \/ Added(p))
  <2>1. PICK d \in UsedDhs : disk_dmeta[d].ok /\ disk_dmeta[d].name = p BY <1>1
  <2> QED BY <2>1, UsedOwner, PathOwners DEF Added
<1>3. ASSUME NEW p \in Paths, Lives(p) \/ Added(p) PROVE p \in DurableNames
  BY <1>1, <1>3, OnDevice DEF Added
<1> QED BY <1>2, <1>3 DEF DurableFit

\* They are so after a step.
LEMMA DurablePathsThen == DInv' /\ Tree' /\ status' = "up" => DurableFit'
<1>1. (DInv /\ Tree /\ status = "up")' => DurableFit' BY DurablePaths, PTL
<1> QED BY <1>1

\* The write of a mkdir is the mkdir of the abstract tree.
LEMMA MkdirWriteAtomic ==
    ASSUME DInv, Tree, DInv', Tree', NEW t \in Threads, NEW good \in BOOLEAN,
           MkdirWrite(t, good), failures' = 0
    PROVE  \E p \in Paths : DurableTree!Mkdir(p)
<1>1. /\ TypeOK /\ pc[t] = "mkdir_write" /\ pc[t] \in MkdirPcs /\ WriteMeta(dmeta, loc[t].dh, good)
      /\ UNCHANGED <<status, free_dhs, created_dirs, children, nlink, crashes>>
  BY DEF DInv, MkdirWrite, At, MkdirPcs
<1>2. status = "up" /\ loc[t].dh \in Dhs BY <1>1, RootThere, PathOwners
<1>3. good BY <1>1, <1>2, Written DEF TypeOK
<1>4. pc'[t] = "mkdir_add" /\ loc' = loc /\ \A u \in Threads : u # t => pc'[u] = pc[u]
  BY <1>1, <1>3 DEF MkdirWrite, Goto, TypeOK
<1>5. PICK p \in Paths : p = loc[t].path /\ p # Root /\ Parent(p) \in Paths /\ created_dirs[p] = None
  BY <1>1, PathOwners
<1>6. Lives(Parent(p)) BY <1>1, <1>5, ParentLives
<1>7. \A x : Lives(x)' <=> Lives(x)
  <2>1. \A x : Removed(x)' <=> Removed(x) BY <1>1, <1>4 DEF Removed
  <2> QED BY <1>1, <2>1 DEF Lives
<1>8. ~Lives(p) BY <1>5 DEF Lives
<1>9. ~Added(p)
  <2>1. ASSUME NEW u \in Threads, pc[u] = "mkdir_add", loc[u].path = p PROVE FALSE
    <3>1. u # t /\ pc[u] \in MkdirPcs BY <1>1, <2>1 DEF MkdirPcs
    <3> QED BY <1>1, <1>5, <2>1, <3>1, PathsApart
  <2> QED BY <2>1 DEF Added
<1>10. Added(p)' /\ \A x : x # p => (Added(x)' <=> Added(x)) BY <1>1, <1>4, <1>5 DEF Added
<1>11. DurableFit /\ DurableFit' BY <1>1, <1>2, DurablePaths, DurablePathsThen
<1>12. p \notin DurableNames BY <1>8, <1>9, <1>11 DEF DurableFit
<1>13. DurableNames' = DurableNames \cup {p} BY <1>5, <1>7, <1>10, <1>11 DEF DurableFit
<1>14. Parent(p) \in DurableNames /\ DurableTree!IsParent(Parent(p), p)
  BY <1>5, <1>6, <1>11 DEF DurableFit, DurableTree!IsParent, Parent, Root
<1> QED BY <1>12, <1>13, <1>14 DEF DurableTree!Mkdir

\* The write of a rmdir is the rmdir of the abstract tree.
LEMMA RmdirWriteAtomic ==
    ASSUME DInv, Tree, DInv', Tree', NEW t \in Threads, NEW good \in BOOLEAN,
           RmdirWrite(t, good), failures' = 0
    PROVE  \E p \in Paths : DurableTree!Rmdir(p)
<1>1. /\ TypeOK /\ pc[t] = "rmdir_write" /\ pc[t] \in RmdirPcs
      /\ UNCHANGED <<status, free_dhs, created_dirs, children, nlink, crashes>>
  BY DEF DInv, RmdirWrite, At, RmdirPcs
<1>2. PICK d \in Dhs, p \in Paths :
         /\ d = loc[t].dh /\ p = loc[t].path /\ created_dirs[p] = d /\ children[d] = {} /\ p # Root
  BY <1>1, PathOwners DEF Tree, Unmaking
<1>3. status = "up" BY <1>1, RootThere
<1>4. good
  <2>1. failures \in Nat BY <1>1 DEF TypeOK
  <2> QED BY <2>1 DEF RmdirWrite, WriteMeta, DeviceWrite
<1>5. pc'[t] = "rmdir_remove" /\ loc' = loc /\ \A u \in Threads : u # t => pc'[u] = pc[u]
  BY <1>1, <1>4 DEF RmdirWrite, Goto, TypeOK
<1>6. Lives(p)
  <2>1. ASSUME NEW u \in Threads, pc[u] = "rmdir_remove", loc[u].path = p PROVE FALSE
    <3>1. u # t /\ pc[u] \in RmdirPcs BY <1>1, <2>1 DEF RmdirPcs
    <3> QED BY <1>1, <1>2, <2>1, <3>1, PathsApart
  <2> QED BY <1>2, <2>1, DhsNotNone DEF Lives, Removed
<1>7. ~Lives(p)' /\ \A x : x # p => (Lives(x)' <=> Lives(x))
  <2>1. Removed(p)' /\ \A x : x # p => (Removed(x)' <=> Removed(x)) BY <1>1, <1>2, <1>5 DEF Removed
  <2> QED BY <1>1, <2>1 DEF Lives
<1>8. ~Added(p) /\ \A x : Added(x)' <=> Added(x)
  <2>1. \A u \in Threads : pc[u] = "mkdir_add" => created_dirs[loc[u].path] = None
    BY PathOwners DEF MkdirPcs
  <2> QED BY <1>1, <1>2, <1>5, <2>1, DhsNotNone DEF Added
<1>9. DurableFit /\ DurableFit' BY <1>1, <1>3, DurablePaths, DurablePathsThen
<1>10. p \in DurableNames /\ DurableNames' = DurableNames \ {p}
  BY <1>6, <1>7, <1>8, <1>9 DEF DurableFit
<1>11. ASSUME NEW q \in DurableNames, q # Root, Parent(q) = p PROVE FALSE
  <2>1. q \in Paths BY <1>9 DEF DurableFit
  <2>2. CASE Lives(q)
    <3>1. created_dirs[q] \in Dhs BY <2>1, <2>2, PathOwners DEF Lives
    <3>2. created_dirs[q] \in children[d] BY <1>2, <1>11, <2>1, <3>1 DEF Tree, Family
    <3> QED BY <1>2, <3>2
  <2>3. CASE Added(q)
    <3>1. PICK u \in Threads : pc[u] = "mkdir_add" /\ loc[u].path = q BY <2>3 DEF Added
    <3>2. u # t /\ pc[u] \in MkdirPcs BY <1>1, <3>1 DEF MkdirPcs
    <3> QED BY <1>1, <1>2, <1>11, <3>1, <3>2, PathsApart
  <2> QED BY <1>9, <2>1, <2>2, <2>3 DEF DurableFit
<1>12. DurableTree!Leaf(p)
  BY <1>2, <1>10, <1>11 DEF DurableTree!Leaf, DurableTree!IsParent, Parent, Root
<1> QED BY <1>10, <1>12 DEF DurableTree!Rmdir

\* A rename is the rename of the abstract tree.
LEMMA RenameAtomic ==
    ASSUME DInv, Tree, DInv', Tree', NEW t \in Threads, NEW p \in Paths, NEW q \in Paths,
           NEW good \in BOOLEAN, RenameDirectory(t, p, q, good), LeafRenames, failures' = 0
    PROVE  DurableTree!Rename(p, q)
<1>1. /\ TypeOK /\ status = "up" /\ UNCHANGED <<status, free_dhs, nlink, pc, loc, crashes>>
      /\ RenameMaps(p, q)
  BY Renamed DEF DInv
<1>2. /\ p # Root /\ q # Root /\ p # q /\ Parent(p) \in Paths /\ Parent(q) \in Paths /\ Parent(q) # p
      /\ created_dirs[p] \in Dhs /\ created_dirs[Parent(q)] \in Dhs
  BY <1>1 DEF RenameMaps
<1>3. /\ created_dirs[q] = None /\ children[created_dirs[p]] = {}
      /\ \A u \in Threads : pc[u] \in MkdirPcs \cup RmdirPcs =>
            /\ loc[u].path \notin {p, q, Parent(p), Parent(q)}
            /\ Parent(loc[u].path) \notin {p, q, Parent(p), Parent(q)}
  BY RenameAlone
<1>4. /\ created_dirs'[p] = None /\ created_dirs'[q] \in Dhs
      /\ \A x \in Paths : x # p /\ x # q => created_dirs'[x] = created_dirs[x]
  BY <1>1, <1>2, <1>3 DEF RenameMaps
<1>5. ~Removed(p) /\ ~Removed(q) /\ ~Removed(Parent(q)) BY <1>3 DEF Removed, RmdirPcs
<1>6. ~Added(p) /\ ~Added(q) BY <1>3 DEF Added, MkdirPcs
<1>7. \A x : (Removed(x)' <=> Removed(x)) /\ (Added(x)' <=> Added(x)) BY <1>1 DEF Removed, Added
<1>8. /\ Lives(p) /\ ~Lives(q) /\ Lives(Parent(q)) /\ ~Lives(p)' /\ Lives(q)'
      /\ \A x \in Paths : x # p /\ x # q => (Lives(x)' <=> Lives(x))
  BY <1>2, <1>3, <1>4, <1>5, <1>7, DhsNotNone DEF Lives
<1>9. DurableFit /\ DurableFit' BY <1>1, DurablePaths, DurablePathsThen
<1>10. p \in DurableNames /\ q \notin DurableNames /\ Parent(q) \in DurableNames \ {p}
  BY <1>2, <1>6, <1>8, <1>9 DEF DurableFit
<1>11. DurableNames' = (DurableNames \ {p}) \cup {q}
  BY <1>2, <1>6, <1>7, <1>8, <1>9 DEF DurableFit
<1>12. ASSUME NEW x \in DurableNames, x # Root, Parent(x) = p PROVE FALSE
  <2>1. x \in Paths BY <1>9 DEF DurableFit
  <2>2. CASE Lives(x)
    <3>1. created_dirs[x] \in Dhs BY <2>1, <2>2, PathOwners DEF Lives
    <3>2. created_dirs[x] \in children[created_dirs[p]] BY <1>2, <1>12, <2>1, <3>1 DEF Tree, Family
    <3> QED BY <1>3, <3>2
  <2>3. CASE Added(x) BY <1>3, <1>12, <2>3 DEF Added, MkdirPcs
  <2> QED BY <1>9, <2>1, <2>2, <2>3 DEF DurableFit
<1>13. DurableTree!Leaf(p)
  BY <1>2, <1>10, <1>12 DEF DurableTree!Leaf, DurableTree!IsParent, Parent, Root
<1>14. DurableTree!IsParent(Parent(q), q) BY <1>2 DEF DurableTree!IsParent, Parent, Root
<1> QED BY <1>10, <1>11, <1>13, <1>14 DEF DurableTree!Rename

\* The creation of the mount point is the first mkdir of the abstract tree.
LEMMA MakeMountPointAtomic ==
    ASSUME DInv, Tree, DInv', Tree', MakeMountPoint
    PROVE  DurableTree!Mkdir(Root)
<1>1. /\ TypeOK /\ status = "up" /\ created_dirs[Root] = None /\ UNCHANGED <<status, pc, loc>>
  BY DEF DInv, MakeMountPoint
<1>2. /\ \A t \in Threads : pc[t] = "idle"
      /\ \A p \in Paths : created_dirs[p] = None
      /\ \A e \in Dhs : ~disk_dmeta[e].used
  BY <1>1 DEF DInv, RootFirst
<1>3. created_dirs'[Root] \in Dhs /\ \A p \in Paths : p # Root => created_dirs'[p] = None
  BY <1>2, MountPointMade
<1>4. UsedDhs = {} BY <1>2 DEF UsedDhs
<1>5. DurableNames = {} BY <1>4 DEF DurableNames
<1>6. \A x : ~Removed(x)' /\ ~Added(x)' BY <1>1, <1>2 DEF Removed, Added
<1>7. Root \in Paths /\ Lives(Root)' /\ \A x \in Paths : x # Root => ~Lives(x)'
  BY <1>3, <1>6, PathsClosed, DhsNotNone DEF Lives
<1>8. DurableFit' BY <1>1, DurablePathsThen
<1>9. DurableNames' = {Root} BY <1>6, <1>7, <1>8 DEF DurableFit
<1> QED BY <1>5, <1>9 DEF DurableTree!Mkdir, Root

\* Every step is a step of the abstract tree, or leaves the directories of the device
\* as they are.
LEMMA AtomicStep ==
    ASSUME LeafRenames
    PROVE  DInv /\ TInv /\ DInv' /\ TInv' /\ [Next]_vars =>
               (failures' = 0 => [DurableTree!Next]_DurableNames)
<1> SUFFICES ASSUME DInv, TInv, DInv', TInv', [Next]_vars, failures' = 0
             PROVE  [DurableTree!Next]_DurableNames
  OBVIOUS
<1>1. Tree' BY DEF TInv
<1>2. ASSUME disk_dmeta' = disk_dmeta PROVE DurableNames' = DurableNames
  BY <1>2 DEF DurableNames, UsedDhs
<1>3. CASE UNCHANGED vars BY <1>2, <1>3 DEF vars
<1>4. CASE Next
  <2>1. Tree BY <1>4, FailuresStay DEF TInv
  <2>2. CASE Mount BY <1>2, <2>2 DEF Mount
  <2>3. CASE Crash BY <1>2, <2>3 DEF Crash
  <2>4. CASE MakeMountPoint BY <1>1, <2>1, <2>4, MakeMountPointAtomic, PathsClosed DEF DurableTree!Next
  <2>5. ASSUME NEW t \in Threads, Operation(t) PROVE [DurableTree!Next]_DurableNames
    <3>1. CASE mfs_mkdir(t) BY <1>2, <3>1 DEF mfs_mkdir, CreateDirectory
    <3>2. CASE bfs_rmdir(t) BY <1>2, <3>2 DEF bfs_rmdir, DeleteDirectory
    <3>3. CASE mfs_rename(t)
      BY <1>1, <2>1, <3>3, RenameAtomic DEF mfs_rename, DurableTree!Next
    <3>4. CASE bfs_opendir(t) BY <1>2, <3>4 DEF bfs_opendir, OpenDirectory
    <3>5. CASE bfs_releasedir(t) BY <1>2, <3>5 DEF bfs_releasedir, CloseDirectory
    <3>6. CASE MkdirAdd(t) \/ RmdirRemove(t) \/ OpenInc(t)
      BY <1>2, <3>6 DEF MkdirAdd, RmdirRemove, OpenInc
    <3>7. ASSUME NEW good \in BOOLEAN, MkdirWrite(t, good) PROVE DurableTree!Next
      BY <1>1, <2>1, <3>7, MkdirWriteAtomic DEF DurableTree!Next
    <3>8. ASSUME NEW good \in BOOLEAN, RmdirWrite(t, good) PROVE DurableTree!Next
      BY <1>1, <2>1, <3>8, RmdirWriteAtomic DEF DurableTree!Next
    <3> QED BY <2>5, <3>1, <3>2, <3>3, <3>4, <3>5, <3>6, <3>7, <3>8 DEF Operation
  <2> QED BY <1>4, <2>2, <2>3, <2>4, <2>5 DEF Next
<1> QED BY <1>3, <1>4

-----------------------------------------------------------------------------
(* The theorems about the tree *)

\* Where directories are renamed only without subdirectories and to free paths, and no
\* device write has failed, DirHandle::DeleteDirectory has taken away nothing that is
\* open or has a child, whatever overlapped its check.
THEOREM OccupiedAlwaysKept == ASSUME LeafRenames PROVE Spec => []OccupiedKept
<1>1. DInv /\ TInv => OccupiedKept BY TreeKeepsOccupied
<1>2. Init => DInv /\ TInv BY DInvInit, TInvInit
<1>3. DInv /\ TInv /\ [Next]_vars => (DInv /\ TInv)' BY DInvStep, TInvStep
<1> QED BY <1>1, <1>2, <1>3, PTL DEF Spec

\* Under the same conditions, a directory that can be found and that no operation is
\* changing is on the device under its path.
THEOREM DirsAlwaysDurable == ASSUME LeafRenames PROVE Spec => []DirsDurable
<1>1. DInv /\ TInv => DirsDurable BY TreeDurable
<1>2. Init => DInv /\ TInv BY DInvInit, TInvInit
<1>3. DInv /\ TInv /\ [Next]_vars => (DInv /\ TInv)' BY DInvStep, TInvStep
<1> QED BY <1>1, <1>2, <1>3, PTL DEF Spec

\* Under the same conditions and before the first crash, DirHandle::InitializeMeta would
\* accept the device, but for the crc of a meta that a mkdir has claimed.
THEOREM AlwaysMountable == ASSUME LeafRenames PROVE Spec => []Mountable
<1>1. DInv /\ TInv => Mountable BY TreeMountable
<1>2. Init => DInv /\ TInv BY DInvInit, TInvInit
<1>3. DInv /\ TInv /\ [Next]_vars => (DInv /\ TInv)' BY DInvStep, TInvStep
<1> QED BY <1>1, <1>2, <1>3, PTL DEF Spec

\* Under the same conditions, mkdir, rmdir and rename are atomic on the device: it
\* implements PathTree, through every crash.
THEOREM TreeAlwaysAtomic == ASSUME LeafRenames PROVE Spec => TreeAtomic
<1>1. Init => DurableTree!Init
  <2> SUFFICES ASSUME Init PROVE DurableNames = {} BY DEF DurableTree!Init
  <2>1. UsedDhs = {} BY DEF Init, UsedDhs, FreshDir
  <2> QED BY <2>1 DEF DurableNames
<1>2. Init => DInv /\ TInv BY DInvInit, TInvInit
<1>3. DInv /\ TInv /\ [Next]_vars => (DInv /\ TInv)' BY DInvStep, TInvStep
<1>4. DInv /\ TInv /\ DInv' /\ TInv' /\ [Next]_vars =>
         (failures' = 0 => [DurableTree!Next]_DurableNames)
  BY AtomicStep
<1> QED BY <1>1, <1>2, <1>3, <1>4, PTL DEF Spec, TreeAtomic
=============================================================================
