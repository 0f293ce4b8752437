---------------------------- MODULE UnlinkProofs ----------------------------
(***************************************************************************)
(* Under the path locks of the kernel and of libfuse, a file that is open  *)
(* keeps its blocks and its metadata, unless it was opened while the last  *)
(* close of an unlinked or temporary file was removing it; and a temporary *)
(* or an unlinked file is gone after its last close, for any threads,      *)
(* files, handles and size of the pool.  OpenFilesProofs has what the      *)
(* argument needs of the descriptors and the link counts.                  *)
(***************************************************************************)
EXTENDS OpenFilesProofs

-----------------------------------------------------------------------------
(* The inductive invariant *)

WithFile == {"create_add", "lock_set"} \cup OpenPcs \cup ClosePcs \cup UnlinkPcs

\* Where a thread is about to link a file without a link, or to remove it.
Reapers == {"create_add", "close_check", "close_remove"} \cup OpenPcs

\* Where a thread has read a link count of 0 and not yet freed the blocks.
Removing == {"close_remove", "unlink_blocks"}

\* The last close removes f.
Doomed(f) == file[f].temp \/ file[f].deleted

\* A file that is not made is blank, one that is has a path, a temporary one its own.
FilesNamed == \A f \in Files :
    /\ ~file[f].made => file[f] = Unmade
    /\ file[f].made => file[f].name \in Names \cup {f}

\* Requests on one path are of kinds that may overlap.
Apart == \A t, u \in Threads :
    t # u /\ loc[t].name # NoName /\ loc[t].name = loc[u].name
    => MayOverlap(loc[t].op, loc[u].op)

\* A request has the path of its file, or a handle whose node was unlinked.
Named(r, f) ==
    \/ r.name = file[f].name
    \/ r.name = NoName /\ r.op \in {"flush", "release", "lock"} /\ Doomed(f)

\* A file that was made and is not in the maps yet.
Fresh(r, f) ==
    /\ file[f].kept /\ file[f].nlink = 0 /\ ~file[f].deleted
    /\ f \notin created_fhs /\ created_files[r.name] = NoFile
    /\ \A fd \in Keys : open_files[fd] # f
    /\ \A h \in Handles : handle[h].file # f

\* What a thread at place l with locals r relies on.
Knows(l, r) ==
    LET f == r.file IN
    /\ l \in WithFile => file[f].made /\ Named(r, f)
    /\ l = "close" /\ open_files[r.fd] # NoFile => Named(r, open_files[r.fd])
    /\ l \in {"create_add"} \cup OpenPcs /\ r.op = "tmpfile" => file[f].temp
    /\ l \in {"new_file", "create_add"} => r.op # "open"
    /\ l = "create_add" =>
          /\ Fresh(r, f) /\ (r.op = "mknod" => ~file[f].temp)
          /\ IF r.op = "tmpfile" THEN r.name = f ELSE r.name \in Names
    /\ l \in OpenPcs /\ r.op \in Openers => file[f].kept \/ Doomed(f)
    /\ l = "close_remove" => Doomed(f) /\ f \in created_fhs
    /\ l \in UnlinkPcs => r.op = "unlink" /\ created_files[r.name] \in {f, NoFile}
    /\ l = "unlink_mark" => Doomed(f) \/ file[f].nlink > 0
    /\ l \in {"unlink_blocks", "unlink_names"} => Doomed(f) \/ file[f].nlink = 0
    /\ l = "unlink_names" => ~file[f].kept
ThreadsKnow == \A t \in Threads : Knows(pc[t], loc[t])

\* A fresh file is its maker's.
FreshAlone == \A t, u \in Threads :
    t # u /\ pc[t] = "create_add" /\ pc[u] \in WithFile => loc[u].file # loc[t].file

\* The two maps have the same files, each under its own path.
MapsAgree ==
    /\ \A f \in created_fhs : file[f].made /\ created_files[file[f].name] = f
    /\ \A p \in Paths : created_files[p] # NoFile =>
          created_files[p] \in created_fhs /\ file[created_files[p]].name = p
    /\ \A fd \in Keys : open_files[fd] # NoFile => file[open_files[fd]].made

\* A file is kept exactly while it is in the maps, up to the threads that are about
\* to enter it or have not yet removed its name.
KeptInMaps == \A f \in Files :
    /\ file[f].kept /\ f \notin created_fhs =>
          \E t \in Threads : pc[t] = "create_add" /\ loc[t].file = f
    /\ f \in created_fhs /\ ~file[f].kept =>
          \E t \in Threads : pc[t] = "unlink_names" /\ loc[t].file = f

\* The file of an open handle is kept, or the handle is one of those that are lost,
\* as are all handles of a file that is being removed.
HandleKnown(v) ==
    LET f == v.file IN
    f # NoFile =>
        /\ file[f].kept \/ v.lost
        /\ v.lost => Doomed(f)
        /\ v.node = file[f].name \/ (v.node = NoName /\ Doomed(f))
        /\ \A t \in Threads : pc[t] \in Removing /\ loc[t].file = f => v.lost
HandlesKnown == \A h \in Handles : HandleKnown(handle[h])

\* A file to be removed without a link is removed, or some thread is about to link it
\* or to remove it.
Settled(f) == Doomed(f) /\ file[f].nlink = 0 => ~file[f].kept /\ f \notin created_fhs
Reaped == \A f \in Files :
    Settled(f) \/ \E t \in Threads : pc[t] \in Reapers /\ loc[t].file = f

Shared == /\ FilesNamed /\ Apart /\ ThreadsKnow /\ FreshAlone /\ MapsAgree
          /\ KeptInMaps /\ HandlesKnown /\ Reaped
SInv == ~exhausted => Shared

-----------------------------------------------------------------------------
(* Facts about single states *)

\* The kinds of requests that exclude each other do so both ways.
LEMMA OverlapFacts ==
    /\ \A a, b : MayOverlap(a, b) => MayOverlap(b, a)
    /\ \A b : MayOverlap("tmpfile", b)
    /\ \A b \in {"open", "create", "mknod", "flush", "release", "lock", "unlink"} :
          ~MayOverlap("unlink", b)
    /\ \A a, b \in {"create", "mknod"} : ~MayOverlap(a, b)
BY DEF MayOverlap, PathUsers, DirectoryUsers

\* A thread that returns needs to know nothing.
LEMMA IdleKnows ==
    /\ Knows("idle", NoLoc) /\ Knows("idle", NoLoc)'
    /\ NoLoc.name = NoName /\ "idle" \in Pcs /\ NoLoc \in Locals
BY Blanks DEF NoLoc, Knows, WithFile, OpenPcs, ClosePcs, UnlinkPcs, Pcs

\* What is known of a thread that works with a file.
LEMMA Working ==
    ASSUME TypeOK, LocalsFit, Shared, NEW t \in Threads, pc[t] \in WithFile
    PROVE  /\ loc[t] \in Locals /\ loc[t].file \in Files /\ loc[t].file # NoFile
           /\ file[loc[t].file] \in File /\ file[loc[t].file].made
           /\ file[loc[t].file].name \in Names \cup {loc[t].file}
           /\ file[loc[t].file].name \in Paths /\ file[loc[t].file].name # NoName
           /\ Named(loc[t], loc[t].file) /\ Knows(pc[t], loc[t])
           /\ \A u \in Threads : u # t /\ pc[u] = "create_add" => loc[u].file # loc[t].file
<1>1. loc[t] \in Locals BY DEF TypeOK
<1>2. loc[t].file \in Files BY DEF LocalsFit, Fit, WithFile
<1>3. Knows(pc[t], loc[t]) BY DEF Shared, ThreadsKnow
<1>4. file[loc[t].file].made /\ Named(loc[t], loc[t].file) BY <1>3 DEF Knows
<1>5. file[loc[t].file].name \in Names \cup {loc[t].file}
  BY <1>2, <1>4 DEF Shared, FilesNamed
<1>6. file[loc[t].file] \in File /\ loc[t].file # NoFile BY <1>2, OpenAssumption DEF TypeOK
<1> QED BY <1>1, <1>2, <1>3, <1>4, <1>5, <1>6, OpenAssumption DEF Shared, FreshAlone, Paths

\* A file in the maps or in the table is not fresh.
LEMMA NotFresh ==
    ASSUME Shared, NEW f, f \in created_fhs \/ \E fd \in Keys : open_files[fd] = f
    PROVE  \A u \in Threads : pc[u] = "create_add" => loc[u].file # f
BY DEF Shared, ThreadsKnow, Knows, Fresh

\* Unlink works alone on a file that was not to be removed anyway.
LEMMA UnlinkAlone ==
    ASSUME TypeOK, LocalsFit, Shared, NEW t \in Threads, pc[t] \in UnlinkPcs,
           ~Doomed(loc[t].file), NEW u \in Threads, u # t
    PROVE  /\ pc[u] \in WithFile => loc[u].file # loc[t].file
           /\ pc[u] = "close" => open_files[loc[u].fd] # loc[t].file
<1> DEFINE f == loc[t].file
<1>1. /\ pc[t] \in WithFile /\ loc[t].op = "unlink" /\ Knows(pc[t], loc[t])
      /\ f # NoFile /\ file[f].name # NoName
  BY Working DEF WithFile, Knows
<1>2. loc[t].name = file[f].name BY <1>1 DEF Knows, Named
<1>3. Knows(pc[u], loc[u]) /\ Fit(pc[u], loc[u]) BY DEF Shared, ThreadsKnow, LocalsFit
<1>4. loc[u].name = file[f].name => MayOverlap("unlink", loc[u].op)
  BY <1>1, <1>2 DEF Shared, Apart
<1>5. ASSUME pc[u] \in WithFile, loc[u].file = f PROVE FALSE
  <2>1. loc[u].name = file[f].name BY <1>3, <1>5 DEF Knows, Named
  <2>2. loc[u].op # "tmpfile"
    <3>1. pc[u] \in {"create_add"} \cup OpenPcs => ~(loc[u].op = "tmpfile")
      BY <1>3, <1>5 DEF Knows, Doomed
    <3>2. pc[u] \in UnlinkPcs => loc[u].op = "unlink" BY <1>3 DEF Knows
    <3> QED BY <1>3, <1>5, <3>1, <3>2 DEF WithFile, Fit, OpenPcs, ClosePcs
  <2>3. pc[u] \in UnlinkPcs => loc[u].op = "unlink" BY <1>3 DEF Knows
  <2>4. loc[u].op \in {"open", "create", "mknod", "flush", "release", "lock", "unlink"}
    BY <1>3, <1>5, <2>2, <2>3 DEF WithFile, Fit, Openers
  <2> QED BY <1>4, <2>1, <2>4, OverlapFacts
<1>6. ASSUME pc[u] = "close", open_files[loc[u].fd] = f PROVE FALSE
  <2>1. loc[u].name = file[f].name BY <1>1, <1>3, <1>6 DEF Knows, Named
  <2>2. loc[u].op \in {"flush", "release"} BY <1>3, <1>6 DEF Fit
  <2> QED BY <1>4, <2>1, <2>2, OverlapFacts
<1> QED BY <1>5, <1>6

\* A file without a link has no handle: the descriptor of a handle is counted.
LEMMA NoHandleOn ==
    ASSUME OInv, ~exhausted, NEW f \in Files, file[f].nlink = 0, NEW h \in Handles
    PROVE  handle[h].file # f
<1> SUFFICES ASSUME handle[h].file = f PROVE FALSE OBVIOUS
<1> DEFINE fd == handle[h].fd
<1>1. fd \in Keys /\ f # NoFile BY OpenAssumption DEF OInv, TypeOK, OpenHandle
<1>2. fd # BadFd /\ open_files[fd] = f BY <1>1 DEF OInv, NoBadFd, HandleOwnFile
<1>3. \A t \in Threads : pc[t] \in Counted => loc[t].fd = Held(t)
  BY DEF Held, Takers, Counted, ClosePcs
<1>4. \A t \in Threads : pc[t] \in Counted => loc[t].fd # fd
  BY <1>2, <1>3 DEF OInv, OneHolder
<1>5. fd \in Linked(f) BY <1>1, <1>2, <1>4 DEF Linked
<1>6. Cardinality(Linked(f)) = 0 BY DEF OInv, LinksCounted
<1> QED BY <1>5, <1>6, LinkedFinite, FS_EmptySet

\* The file behind the descriptor of a handle is the handle's.
LEMMA FileOfHandle ==
    ASSUME OInv, ~exhausted, NEW h \in Handles
    PROVE  /\ handle[h].fd \in Keys
           /\ open_files[handle[h].fd] # NoFile => handle[h].file = open_files[handle[h].fd]
           /\ handle[h].file # NoFile => open_files[handle[h].fd] = handle[h].file
<1>1. handle[h].fd \in Keys BY DEF OInv, TypeOK, OpenHandle
<1> QED BY <1>1 DEF OInv, HandleOwnFile, NoBadFd

\* A request on an open handle has its path.
LEMMA NodeNamed ==
    ASSUME OInv, Shared, ~exhausted, NEW h \in Handles, NEW r \in Locals,
           r.name = handle[h].node, r.op \in {"flush", "release", "lock"},
           open_files[handle[h].fd] # NoFile
    PROVE  /\ open_files[handle[h].fd] \in Files /\ file[open_files[handle[h].fd]].made
           /\ Named(r, open_files[handle[h].fd])
<1> DEFINE f == open_files[handle[h].fd]
<1>1. handle[h].fd \in Keys /\ handle[h].file = f BY FileOfHandle
<1>2. f \in Files /\ file[f].made BY <1>1 DEF OInv, TypeOK, Shared, MapsAgree
<1>3. HandleKnown(handle[h]) BY DEF Shared, HandlesKnown
<1> QED BY <1>1, <1>2, <1>3 DEF HandleKnown, Named

-----------------------------------------------------------------------------
(* Steps that change no file and no map *)

\* A step that moves thread t and at most closes handles keeps the invariant when t
\* knows what it must, may overlap with the others and leaves no file waiting for it.
LEMMA QuietShared ==
    ASSUME TypeOK, LocalsFit, Shared, NEW t \in Threads, NEW l \in Pcs, NEW r \in Locals,
           Step(t, l, r), UNCHANGED <<open_files, created_files, created_fhs, file>>,
           \A h \in Handles : handle'[h] = handle[h] \/ handle'[h].file = NoFile,
           Knows(l, r), l # "create_add",
           r.name # NoName => \A u \in Threads :
              u # t /\ loc[u].name = r.name => MayOverlap(r.op, loc[u].op),
           l \in WithFile => \A u \in Threads :
              u # t /\ pc[u] = "create_add" => loc[u].file # r.file,
           pc[t] \notin {"create_add", "unlink_names"},
           pc[t] \in Reapers => Settled(loc[t].file) \/ (l \in Reapers /\ r.file = loc[t].file),
           l \in Removing => \A h \in Handles : handle[h].file = r.file => handle[h].lost
    PROVE  Shared'
<1>1. /\ pc'[t] = l /\ loc'[t] = r
      /\ \A u \in Threads : u # t => pc'[u] = pc[u] /\ loc'[u] = loc[u]
  BY StepTypes
<1>2. FilesNamed' /\ MapsAgree' BY DEF Shared, FilesNamed, MapsAgree
<1>3. Apart' BY <1>1, OverlapFacts DEF Shared, Apart
<1>4. ThreadsKnow'
  <2>1. ASSUME NEW m, NEW q, Knows(m, q), m = "create_add" => q.file \in Files
        PROVE  Knows(m, q)'
    <3>1. m = "create_add" => Fresh(q, q.file)'
      BY <2>1, OpenAssumption DEF Knows, Fresh
    <3> QED BY <2>1, <3>1 DEF Knows, Named, Doomed
  <2>2. \A u \in Threads : Knows(pc[u], loc[u]) /\ (pc[u] = "create_add" => loc[u].file \in Files)
    BY DEF Shared, ThreadsKnow, LocalsFit, Fit
  <2>3. Knows(l, r)' BY <2>1
  <2>4. ASSUME NEW u \in Threads, u # t PROVE Knows(pc[u], loc[u])'
    <3>1. PICK m, q : m = pc[u] /\ q = loc[u] OBVIOUS
    <3>2. Knows(m, q)' BY <2>1, <2>2, <3>1
    <3>3. pc'[u] = m /\ loc'[u] = q BY <1>1, <2>4, <3>1
    <3> QED BY <3>2, <3>3 DEF Knows, Named, Doomed, Fresh
  <2>5. Knows(pc[t], loc[t])' BY <1>1, <2>3 DEF Knows, Named, Doomed, Fresh
  <2> QED BY <2>4, <2>5 DEF ThreadsKnow
<1>5. FreshAlone' BY <1>1 DEF Shared, FreshAlone
<1>6. KeptInMaps' BY <1>1 DEF Shared, KeptInMaps
<1>7. HandlesKnown'
  <2> SUFFICES ASSUME NEW h \in Handles, handle'[h] = handle[h], handle[h].file # NoFile
               PROVE  HandleKnown(handle[h])'
    BY DEF HandlesKnown, HandleKnown
  <2>1. HandleKnown(handle[h]) BY DEF Shared, HandlesKnown
  <2>2. \A u \in Threads : pc'[u] \in Removing /\ loc'[u].file = handle[h].file => handle[h].lost
    BY <1>1, <2>1 DEF HandleKnown
  <2> QED BY <2>1, <2>2 DEF HandleKnown, Doomed
<1>8. Reaped'
  <2> SUFFICES ASSUME NEW f \in Files, ~Settled(f)
               PROVE  \E u \in Threads : pc'[u] \in Reapers /\ loc'[u].file = f
    BY DEF Reaped, Settled, Doomed
  <2>1. PICK u \in Threads : pc[u] \in Reapers /\ loc[u].file = f BY DEF Shared, Reaped
  <2>2. CASE u = t BY <1>1, <2>1, <2>2
  <2>3. CASE u # t BY <1>1, <2>1, <2>3
  <2> QED BY <2>2, <2>3
<1> QED BY <1>2, <1>3, <1>4, <1>5, <1>6, <1>7, <1>8 DEF Shared

\* A thread that stays idle might as well return.
LEMMA StandStill ==
    ASSUME TypeOK, LocalsFit, NEW t \in Threads, pc[t] = "idle", UNCHANGED <<pc, loc>>
    PROVE  Return(t)
BY DEF TypeOK, LocalsFit, Fit, Return, Step

\* Steps that end an operation and change no file.
LEMMA ReturnShared ==
    ASSUME TypeOK, LocalsFit, Shared, NEW t \in Threads, Return(t),
           pc[t] \notin Reapers \cup {"unlink_names"},
           UNCHANGED <<open_files, created_files, created_fhs, file>>,
           \A h \in Handles : handle'[h] = handle[h] \/ handle'[h].file = NoFile
    PROVE  Shared'
<1>1. "idle" \notin WithFile \cup Removing \cup {"create_add"}
  BY DEF WithFile, OpenPcs, ClosePcs, UnlinkPcs, Removing
<1> QED BY <1>1, IdleKnows, QuietShared DEF Return, Reapers

-----------------------------------------------------------------------------
(* Steps that change one file, its entries in the maps or in the table *)

\* At most f changes: it may be made, keeps its path, and what dooms it stays.
ChangesOne(f) ==
    /\ \A g \in Files : g # f =>
          file'[g] = file[g] /\ (g \in created_fhs' <=> g \in created_fhs)
    /\ file'[f].made /\ file'[f].name \in Names \cup {f}
    /\ file[f].made => /\ file'[f].name = file[f].name /\ file'[f].temp = file[f].temp
                       /\ file[f].deleted => file'[f].deleted
                       /\ file'[f].kept => file[f].kept
    /\ \A fd \in Keys : open_files'[fd] \in {open_files[fd], NoFile, f}
    /\ \A h \in Handles : handle'[h].file \in {handle[h].file, NoFile, f}

\* What thread u relies on is left alone.
Undisturbed(u, f) ==
    LET m == pc[u]
        q == loc[u]
    IN
    /\ m \in {"create_add"} \cup UnlinkPcs =>
          created_files'[q.name] \in {created_files[q.name], NoFile}
    /\ m = "close_remove" => q.file \in created_fhs'
    /\ m = "close" => open_files'[q.fd] \in {open_files[q.fd], NoFile}
    /\ m = "create_add" => q.file # f
    /\ m \in UnlinkPcs /\ q.file = f => Doomed(f)' \/ file'[f].nlink = file[f].nlink
    /\ m \in OpenPcs /\ q.op \in Openers /\ q.file = f =>
          Doomed(f)' \/ file'[f].kept = file[f].kept

\* So it still knows what it did.
LEMMA StillKnows ==
    ASSUME TypeOK, LocalsFit, Shared, NEW f \in Files, ChangesOne(f), NEW u \in Threads,
           Undisturbed(u, f), NEW m \in Pcs, NEW q \in Locals, m = pc[u], q = loc[u]
    PROVE  Knows(m, q)'
<1>1. Knows(m, q) BY DEF Shared, ThreadsKnow
<1>2. m \in WithFile => q.file \in Files /\ file[q.file].made /\ q.file # NoFile
  BY <1>1, OpenAssumption DEF LocalsFit, Fit, WithFile, Knows
<1>3. ASSUME NEW g \in Files, file[g].made
      PROVE  /\ file'[g].made /\ (Named(q, g) => Named(q, g)') /\ (Doomed(g) => Doomed(g)')
             /\ file'[g].temp = file[g].temp /\ (file'[g].kept => file[g].kept)
  <2>1. CASE g # f BY <1>3, <2>1 DEF ChangesOne, Named, Doomed
  <2>2. CASE g = f BY <1>3, <2>2 DEF ChangesOne, Named, Doomed
  <2> QED BY <2>1, <2>2
<1>4. m = "close" /\ open_files'[q.fd] # NoFile => Named(q, open_files[q.fd])'
  <2> SUFFICES ASSUME m = "close", open_files'[q.fd] # NoFile
               PROVE  Named(q, open_files[q.fd])'
    OBVIOUS
  <2>1. q.fd \in Keys /\ open_files'[q.fd] = open_files[q.fd] BY DEF Undisturbed, Locals
  <2>2. PICK g \in Files : g = open_files[q.fd] BY <2>1 DEF TypeOK
  <2>3. file[g].made /\ Named(q, g) BY <1>1, <2>1, <2>2 DEF Shared, MapsAgree, Knows
  <2>4. Named(q, g)' BY <1>3, <2>3
  <2> QED BY <2>1, <2>2, <2>4 DEF Named, Doomed
<1>5. m = "create_add" => Fresh(q, q.file)'
  <2> SUFFICES ASSUME m = "create_add" PROVE Fresh(q, q.file)' OBVIOUS
  <2>1. PICK g \in Files : g = q.file /\ g # f /\ g # NoFile
    BY <1>2 DEF Undisturbed, WithFile
  <2>2. Fresh(q, g) BY <1>1, <2>1 DEF Knows
  <2>3. file'[g] = file[g] /\ g \notin created_fhs' BY <2>1, <2>2 DEF ChangesOne, Fresh
  <2>4. created_files'[q.name] = NoFile BY <2>2 DEF Undisturbed, Fresh
  <2>5. \A fd \in Keys : open_files'[fd] # g BY <2>1, <2>2 DEF ChangesOne, Fresh
  <2>6. \A h \in Handles : handle'[h].file # g BY <2>1, <2>2 DEF ChangesOne, Fresh
  <2> QED BY <2>1, <2>2, <2>3, <2>4, <2>5, <2>6 DEF Fresh
<1>6. m \in UnlinkPcs \cup {"close_remove"} \cup OpenPcs \cup {"create_add"} => m \in WithFile
  BY DEF WithFile, ClosePcs
<1>7. m \in OpenPcs /\ q.op \in Openers => file'[q.file].kept \/ Doomed(q.file)'
  BY <1>1, <1>2, <1>3, <1>6 DEF Knows, Undisturbed, ChangesOne
<1>8. /\ m = "unlink_mark" => Doomed(q.file)' \/ file'[q.file].nlink > 0
      /\ m \in {"unlink_blocks", "unlink_names"} => Doomed(q.file)' \/ file'[q.file].nlink = 0
  BY <1>1, <1>2, <1>3, <1>6 DEF Knows, Undisturbed, ChangesOne, UnlinkPcs
<1>9. /\ m \in WithFile => file'[q.file].made /\ Named(q, q.file)'
      /\ m \in {"create_add"} \cup OpenPcs /\ q.op = "tmpfile" => file'[q.file].temp
      /\ m = "create_add" /\ q.op = "mknod" => ~file'[q.file].temp
      /\ m = "close_remove" => Doomed(q.file)' /\ q.file \in created_fhs'
      /\ m \in UnlinkPcs =>
            q.op = "unlink" /\ created_files'[q.name] \in {q.file, NoFile}
      /\ m = "unlink_names" => ~file'[q.file].kept
  BY <1>1, <1>2, <1>3, <1>6 DEF Knows, Undisturbed, UnlinkPcs
<1>10. /\ m \in {"new_file", "create_add"} => q.op # "open"
       /\ m = "create_add" => IF q.op = "tmpfile" THEN q.name = q.file ELSE q.name \in Names
  BY <1>1 DEF Knows
<1> QED BY <1>4, <1>5, <1>7, <1>8, <1>9, <1>10 DEF Knows

\* A step of t that changes one file keeps the invariant when t knows what it must, the
\* others are undisturbed, and the file is in the maps or removed as it should.
LEMMA FileShared ==
    ASSUME TypeOK, LocalsFit, Shared, NEW t \in Threads, NEW f \in Files,
           NEW l \in Pcs, NEW r \in Locals, Step(t, l, r), ChangesOne(f),
           \A u \in Threads : u # t => Undisturbed(u, f),
           Knows(l, r)', MapsAgree', HandlesKnown',
           r.name # NoName => \A u \in Threads :
              u # t /\ loc[u].name = r.name => MayOverlap(r.op, loc[u].op),
           l \in WithFile => r.file = f, pc[t] \in WithFile => loc[t].file = f,
           l = "create_add" => \A u \in Threads :
              u # t /\ pc[u] \in WithFile => loc[u].file # f,
           file'[f].kept /\ f \notin created_fhs' =>
              \/ l = "create_add"
              \/ file[f].kept /\ f \notin created_fhs /\ pc[t] # "create_add",
           f \in created_fhs' /\ ~file'[f].kept =>
              \/ l = "unlink_names"
              \/ f \in created_fhs /\ ~file[f].kept /\ pc[t] # "unlink_names",
           \/ Settled(f)' \/ l \in Reapers
           \/ pc[t] \notin Reapers /\ (Settled(f) => Settled(f)')
    PROVE  Shared'
<1>1. /\ pc'[t] = l /\ loc'[t] = r
      /\ \A u \in Threads : u # t => pc'[u] = pc[u] /\ loc'[u] = loc[u]
  BY StepTypes
<1>2. FilesNamed' BY DEF Shared, FilesNamed, ChangesOne
<1>3. Apart' BY <1>1, OverlapFacts DEF Shared, Apart
<1>4. ThreadsKnow'
  <2>1. ASSUME NEW u \in Threads, u # t PROVE Knows(pc[u], loc[u])'
    <3>1. PICK m \in Pcs, q \in Locals : m = pc[u] /\ q = loc[u] BY DEF TypeOK
    <3>2. Knows(m, q)' BY <2>1, <3>1, StillKnows
    <3>3. pc'[u] = m /\ loc'[u] = q BY <1>1, <2>1, <3>1
    <3> QED BY <3>2, <3>3 DEF Knows, Named, Doomed, Fresh
  <2>2. Knows(pc[t], loc[t])' BY <1>1 DEF Knows, Named, Doomed, Fresh
  <2> QED BY <2>1, <2>2 DEF ThreadsKnow
<1>5. /\ {"create_add", "unlink_names"} \subseteq WithFile /\ Reapers \subseteq WithFile
      /\ "create_add" \in WithFile
  BY DEF WithFile, Reapers, OpenPcs, ClosePcs, UnlinkPcs
<1>6. FreshAlone'
  <2> SUFFICES ASSUME NEW a \in Threads, NEW b \in Threads, a # b,
                      pc'[a] = "create_add", pc'[b] \in WithFile
               PROVE  loc'[b].file # loc'[a].file
    BY DEF FreshAlone
  <2>1. CASE a = t BY <1>1, <1>5, <2>1
  <2>2. CASE b = t BY <1>1, <2>2 DEF Undisturbed
  <2>3. CASE a # t /\ b # t BY <1>1, <2>3 DEF Shared, FreshAlone
  <2> QED BY <2>1, <2>2, <2>3
<1>7. ASSUME NEW g \in Files
      PROVE  /\ file'[g].kept /\ g \notin created_fhs' =>
                   \E u \in Threads : pc'[u] = "create_add" /\ loc'[u].file = g
             /\ g \in created_fhs' /\ ~file'[g].kept =>
                   \E u \in Threads : pc'[u] = "unlink_names" /\ loc'[u].file = g
  <2>1. \A u \in Threads : pc[u] \in {"create_add", "unlink_names"} /\ loc[u].file = g /\ g # f
           => u # t
    BY <1>5
  <2>2. /\ file[g].kept /\ g \notin created_fhs =>
              \E u \in Threads : pc[u] = "create_add" /\ loc[u].file = g
        /\ g \in created_fhs /\ ~file[g].kept =>
              \E u \in Threads : pc[u] = "unlink_names" /\ loc[u].file = g
    BY DEF Shared, KeptInMaps
  <2>3. CASE g # f BY <1>1, <2>1, <2>2, <2>3 DEF ChangesOne
  <2>4. CASE g = f BY <1>1, <1>5, <2>2, <2>4
  <2> QED BY <2>3, <2>4
<1>8. ASSUME NEW g \in Files, ~Settled(g)'
      PROVE  \E u \in Threads : pc'[u] \in Reapers /\ loc'[u].file = g
  <2>1. ~Settled(g) => \E u \in Threads : pc[u] \in Reapers /\ loc[u].file = g
    BY DEF Shared, Reaped
  <2>2. CASE g # f
    <3>1. ~Settled(g) BY <1>8, <2>2 DEF Settled, Doomed, ChangesOne
    <3> QED BY <1>1, <1>5, <2>1, <2>2, <3>1
  <2>3. CASE g = f /\ l \in Reapers BY <1>1, <1>5, <2>3
  <2>4. CASE g = f /\ l \notin Reapers
    <3>1. pc[t] \notin Reapers /\ ~Settled(f) BY <1>8, <2>4
    <3> QED BY <1>1, <2>1, <2>4, <3>1
  <2> QED BY <2>2, <2>3, <2>4
<1>9. KeptInMaps' BY <1>7 DEF KeptInMaps
<1>10. Reaped'
  <2> SUFFICES ASSUME NEW g \in Files PROVE
        Settled(g)' \/ \E u \in Threads : pc'[u] \in Reapers /\ loc'[u].file = g
    BY DEF Reaped
  <2> QED BY <1>8
<1> QED BY <1>2, <1>3, <1>4, <1>6, <1>9, <1>10 DEF Shared

\* What is known of a handle stays known of it and of one that only lost its node, when
\* the file is kept or the handle is lost.
LEMMA HandlesStay ==
    ASSUME TypeOK, Shared, NEW t \in Threads, NEW f \in Files, ChangesOne(f),
           NEW l \in Pcs, NEW r \in Locals, Step(t, l, r),
           file'[f].kept # file[f].kept =>
              \A h \in Handles : handle[h].file = f => handle[h].lost,
           l \in Removing => \A h \in Handles : handle[h].file = r.file => handle[h].lost,
           \A h \in Handles :
              \/ handle'[h].file = NoFile
              \/ /\ handle'[h].file = handle[h].file /\ handle'[h].lost = handle[h].lost
                 /\ \/ handle'[h].node = handle[h].node
                    \/ handle[h].file # NoFile =>
                          handle'[h].node = NoName /\ Doomed(handle[h].file)'
              \/ HandleKnown(handle[h])'
    PROVE  HandlesKnown'
<1>1. /\ pc'[t] = l /\ loc'[t] = r
      /\ \A u \in Threads : u # t => pc'[u] = pc[u] /\ loc'[u] = loc[u]
  BY StepTypes
<1> SUFFICES ASSUME NEW h \in Handles, handle'[h].file = handle[h].file,
                    handle'[h].lost = handle[h].lost, handle[h].file # NoFile,
                    \/ handle'[h].node = handle[h].node
                    \/ handle'[h].node = NoName /\ Doomed(handle[h].file)'
             PROVE  HandleKnown(handle[h])'
  BY DEF HandlesKnown, HandleKnown
<1>2. PICK g \in Files : g = handle[h].file BY DEF TypeOK, OpenHandle
<1>3. HandleKnown(handle[h]) BY DEF Shared, HandlesKnown
<1>4. file[g].made
  BY <1>2, <1>3 DEF HandleKnown, Doomed, Shared, FilesNamed, Unmade
<1>5. /\ file'[g].kept \/ handle[h].lost
      /\ handle[h].lost => Doomed(g)'
      /\ file'[g].name = file[g].name /\ (Doomed(g) => Doomed(g)')
      /\ file[g].kept \/ handle[h].lost
      /\ file'[g].kept = file[g].kept \/ handle[h].lost
      /\ handle[h].lost => Doomed(g)
  BY <1>2, <1>3, <1>4 DEF ChangesOne, HandleKnown, Doomed
<1>6. handle'[h].node = file'[g].name \/ (handle'[h].node = NoName /\ Doomed(g)')
  BY <1>2, <1>3, <1>5 DEF HandleKnown, Doomed
<1>7. ASSUME NEW u \in Threads, pc'[u] \in Removing, loc'[u].file = g PROVE handle[h].lost
  BY <1>1, <1>2, <1>3, <1>7 DEF HandleKnown
<1> QED BY <1>2, <1>5, <1>6, <1>7 DEF HandleKnown, Doomed

\* A handle whose node unlink forgets is on the unlinked file, or on one to be removed.
LEMMA NodesKnown ==
    ASSUME OInv, Shared, ~exhausted, NEW t \in Threads, pc[t] \in UnlinkPcs, NEW h \in Handles,
           handle[h].node = loc[t].name, handle[h].file \notin {NoFile, loc[t].file},
           loc[t].name # NoName
    PROVE  Doomed(handle[h].file)
<1>1. TypeOK /\ LocalsFit BY DEF OInv
<1>2. PICK g \in Files : g = handle[h].file /\ g # loc[t].file
  BY <1>1 DEF TypeOK, OpenHandle
<1>3. HandleKnown(handle[h]) BY DEF Shared, HandlesKnown
<1>4. SUFFICES ASSUME ~Doomed(g) PROVE FALSE BY <1>2
<1>5. file[g].kept /\ file[g].name = loc[t].name BY <1>2, <1>3, <1>4 DEF HandleKnown
<1>6. \A u \in Threads : pc[u] = "create_add" => loc[u].file # g
  BY <1>2 DEF Shared, ThreadsKnow, Knows, Fresh
<1>7. g \in created_fhs BY <1>5, <1>6 DEF Shared, KeptInMaps
<1>8. created_files[loc[t].name] = g BY <1>5, <1>7 DEF Shared, MapsAgree
<1>9. Knows(pc[t], loc[t]) BY DEF Shared, ThreadsKnow
<1>10. created_files[loc[t].name] \in {loc[t].file, NoFile} BY <1>9 DEF Knows
<1> QED BY <1>2, <1>8, <1>10, OpenAssumption

\* The maps agree as long as files keep their paths and the table gets made files.
LEMMA NamesKept ==
    ASSUME TypeOK, MapsAgree, UNCHANGED <<created_files, created_fhs>>,
           \A g \in Files : file[g].made => file'[g].made /\ file'[g].name = file[g].name,
           \A fd \in Keys : \/ open_files'[fd] = NoFile \/ open_files'[fd] = open_files[fd]
                            \/ open_files'[fd] \in Files /\ file[open_files'[fd]].made
    PROVE  MapsAgree'
<1>1. \A g \in created_fhs : g \in Files /\ file[g].made BY DEF TypeOK, MapsAgree
<1>2. \A p \in Paths : created_files[p] # NoFile =>
         created_files[p] \in Files /\ file[created_files[p]].made
  BY DEF TypeOK, MapsAgree
<1>3. \A fd \in Keys : open_files[fd] # NoFile => open_files[fd] \in Files BY DEF TypeOK
<1>4. \A g \in created_fhs : file'[g].made /\ created_files[file'[g].name] = g
  BY <1>1 DEF MapsAgree
<1>5. \A p \in Paths : created_files[p] # NoFile =>
         created_files[p] \in created_fhs /\ file'[created_files[p]].name = p
  BY <1>2 DEF MapsAgree
<1>6. \A fd \in Keys : open_files'[fd] # NoFile => file'[open_files'[fd]].made
  BY <1>3 DEF MapsAgree
<1> QED BY <1>4, <1>5, <1>6 DEF MapsAgree

\* A file is removed from both maps, and no other is, unless its path has gone to
\* another one.
LEMMA NamesGone ==
    ASSUME TypeOK, FilesNamed, MapsAgree, NEW f \in Files, file[f].made, NamesRemoved(f),
           created_files[file[f].name] \in {f, NoFile}, UNCHANGED open_files,
           \A g \in Files : file[g].made => file'[g].made /\ file'[g].name = file[g].name
    PROVE  /\ MapsAgree' /\ f \notin created_fhs'
           /\ \A g \in Files : g # f => (g \in created_fhs' <=> g \in created_fhs)
           /\ \A p \in Paths : created_files'[p] \in {created_files[p], NoFile}
<1>1. /\ file[f].name \in Paths /\ f # NoFile
      /\ created_fhs' = created_fhs \ {f}
      /\ created_files' = [created_files EXCEPT ![file[f].name] = NoFile]
  BY OpenAssumption DEF TypeOK, FilesNamed, NamesRemoved, Paths
<1>2. \A p \in Paths : created_files'[p] = IF p = file[f].name THEN NoFile ELSE created_files[p]
  BY <1>1 DEF TypeOK
<1>3. \A g \in created_fhs : /\ g \in Files /\ file[g].name \in Paths /\ file'[g].made
                             /\ file'[g].name = file[g].name
  BY DEF TypeOK, FilesNamed, MapsAgree, Paths
<1>4. \A g \in created_fhs : g # f => file[g].name # file[f].name
  BY OpenAssumption DEF MapsAgree, TypeOK
<1>5. \A g \in created_fhs' : file'[g].made /\ created_files'[file'[g].name] = g
  BY <1>1, <1>2, <1>3, <1>4 DEF MapsAgree
<1>6. \A p \in Paths : created_files'[p] # NoFile =>
         created_files'[p] \in created_fhs' /\ file'[created_files'[p]].name = p
  <2> SUFFICES ASSUME NEW p \in Paths, created_files'[p] # NoFile
               PROVE  created_files'[p] \in created_fhs' /\ file'[created_files'[p]].name = p
    OBVIOUS
  <2>1. created_files'[p] = created_files[p] /\ p # file[f].name BY <1>2
  <2>2. created_files[p] \in created_fhs /\ file[created_files[p]].name = p
    BY <2>1 DEF MapsAgree
  <2> QED BY <1>1, <1>3, <2>1, <2>2
<1>7. \A fd \in Keys : open_files[fd] # NoFile => file'[open_files[fd]].made
  BY DEF TypeOK, MapsAgree
<1> QED BY <1>1, <1>2, <1>5, <1>6, <1>7 DEF MapsAgree

-----------------------------------------------------------------------------
(* Requests, and the steps that only read *)

\* Open finds the file of the name, which nobody is removing, or goes on to make it.
LEMMA OpenLookupShared ==
    ASSUME PathLocks, TypeOK, LocalsFit, Shared, NEW t \in Threads, NEW h \in Handles,
           NEW n \in Paths, NEW creat \in BOOLEAN, NEW excl \in BOOLEAN,
           OpenLookup(t, h, n, creat, excl)
    PROVE  Shared'
<1> DEFINE f == created_files[n]
           op == IF creat THEN "create" ELSE "open"
           r == [NoLoc EXCEPT !.op = op, !.name = n, !.file = f, !.h = h]
<1>1. /\ n # NoName /\ \A u \in Threads : loc[u].name = n => MayOverlap(op, loc[u].op)
      /\ pc[t] = "idle" /\ op \in {"create", "open"}
      /\ UNCHANGED <<open_files, created_files, created_fhs, file>>
  BY OpenAssumption DEF OpenLookup, Free, Start, Paths
<1>2. \A g \in Handles : handle'[g] = handle[g] \/ handle'[g].file = NoFile
  BY DEF OpenLookup, TypeOK, OpenHandle, Failed, Closed
<1>3. r \in Locals /\ r.name = n /\ r.file = f /\ r.op = op
  BY DEF TypeOK, NoLoc, Locals, AllOps, BadFd, Keys
<1>4. CASE UNCHANGED <<pc, loc>>
  <2>1. pc[t] \notin Reapers \cup {"unlink_names"} BY <1>1 DEF Reapers, OpenPcs
  <2> QED BY <1>1, <1>2, <1>4, <2>1, StandStill, ReturnShared
<1>5. CASE creat /\ Step(t, "new_file", r)
  <2>1. /\ "new_file" \in Pcs /\ "new_file" \notin WithFile \cup Removing
        /\ pc[t] \notin Reapers
    BY <1>1 DEF Pcs, WithFile, OpenPcs, ClosePcs, UnlinkPcs, Removing, Reapers
  <2>2. r.op # "open" BY <1>3, <1>5
  <2>3. Knows("new_file", r) BY <2>2 DEF Knows, WithFile, OpenPcs, ClosePcs, UnlinkPcs
  <2> HIDE DEF r, op
  <2> QED BY <1>1, <1>2, <1>3, <1>5, <2>1, <2>3, QuietShared
<1>6. CASE f # NoFile /\ Step(t, "get_fd", r)
  <2>1. "get_fd" \in Pcs /\ "get_fd" \notin Removing /\ pc[t] \notin Reapers
    BY <1>1 DEF Pcs, Removing, Reapers, OpenPcs
  <2>2. f \in created_fhs /\ f \in Files /\ file[f].made /\ file[f].name = n
    BY <1>6 DEF Shared, MapsAgree, TypeOK
  <2>3. file[f].kept
    <3> SUFFICES ASSUME ~file[f].kept PROVE FALSE OBVIOUS
    <3>1. PICK u \in Threads : pc[u] = "unlink_names" /\ loc[u].file = f
      BY <2>2 DEF Shared, KeptInMaps
    <3>2. Knows(pc[u], loc[u]) BY DEF Shared, ThreadsKnow
    <3>3. loc[u].name = n /\ loc[u].op = "unlink"
      BY <2>2, <3>1, <3>2 DEF Knows, Named, WithFile, UnlinkPcs
    <3>4. MayOverlap("unlink", op) BY <1>1, <3>3, OverlapFacts
    <3> HIDE DEF op
    <3> QED BY <1>1, <3>4, OverlapFacts
  <2>4. Knows("get_fd", r)
    BY <1>1, <1>3, <2>2, <2>3 DEF Knows, Named, WithFile, OpenPcs, ClosePcs, UnlinkPcs
  <2>5. \A u \in Threads : pc[u] = "create_add" => loc[u].file # f BY <2>2, NotFresh
  <2> HIDE DEF r, op
  <2> QED BY <1>1, <1>2, <1>3, <1>6, <2>1, <2>4, <2>5, QuietShared
<1> QED BY <1>4, <1>5, <1>6 DEF OpenLookup, GetCreatedFile

\* The other requests that go on to make a file.
LEMMA MakeShared ==
    ASSUME PathLocks, TypeOK, LocalsFit, Shared, NEW t \in Threads,
           \/ \E h \in Handles : OpenTmp(t, h)
           \/ \E n \in Names : Mknod(t, n)
    PROVE  Shared'
<1>1. PICK r \in Locals :
         /\ pc[t] = "idle" /\ Step(t, "new_file", r) /\ r.op # "open"
         /\ UNCHANGED <<open_files, created_files, created_fhs, file, handle>>
         /\ r.name # NoName =>
               \A u \in Threads : loc[u].name = r.name => MayOverlap(r.op, loc[u].op)
  <2>1. ASSUME NEW h \in Handles, OpenTmp(t, h)
        PROVE  \E r \in Locals :
                  /\ pc[t] = "idle" /\ Step(t, "new_file", r) /\ r.op # "open"
                  /\ UNCHANGED <<open_files, created_files, created_fhs, file, handle>>
                  /\ r.name # NoName =>
                        \A u \in Threads : loc[u].name = r.name => MayOverlap(r.op, loc[u].op)
    <3> DEFINE r == [NoLoc EXCEPT !.op = "tmpfile", !.h = h]
    <3>1. r \in Locals /\ r.name = NoName /\ r.op # "open"
      BY DEF NoLoc, Locals, AllOps, BadFd, Keys
    <3>2. Step(t, "new_file", r) BY <2>1 DEF OpenTmp
    <3> HIDE DEF r
    <3> QED BY <2>1, <3>1, <3>2 DEF OpenTmp, Start
  <2>2. ASSUME NEW n \in Names, Mknod(t, n)
        PROVE  \E r \in Locals :
                  /\ pc[t] = "idle" /\ Step(t, "new_file", r) /\ r.op # "open"
                  /\ UNCHANGED <<open_files, created_files, created_fhs, file, handle>>
                  /\ r.name # NoName =>
                        \A u \in Threads : loc[u].name = r.name => MayOverlap(r.op, loc[u].op)
    <3> DEFINE r == [NoLoc EXCEPT !.op = "mknod", !.name = n]
    <3>1. r \in Locals /\ r.name = n /\ r.op = "mknod"
      BY DEF NoLoc, Locals, AllOps, BadFd, Keys, Paths
    <3>2. Step(t, "new_file", r) BY <2>2 DEF Mknod
    <3>3. n # NoName => \A u \in Threads : loc[u].name = n => MayOverlap("mknod", loc[u].op)
      BY <2>2 DEF Mknod, Free
    <3> HIDE DEF r
    <3> QED BY <2>2, <3>1, <3>2, <3>3 DEF Mknod, Start
  <2> QED BY <2>1, <2>2
<1>2. /\ "new_file" \in Pcs /\ "new_file" \notin WithFile \cup Removing
      /\ pc[t] \notin Reapers
  BY <1>1 DEF Pcs, WithFile, OpenPcs, ClosePcs, UnlinkPcs, Removing, Reapers
<1>3. Knows("new_file", r) BY <1>1 DEF Knows, WithFile, OpenPcs, ClosePcs, UnlinkPcs
<1> QED BY <1>1, <1>2, <1>3, QuietShared

\* A flush takes a descriptor of an open file, or closes the -1 that dup gave it.
LEMMA FlushShared ==
    ASSUME PathLocks, OInv, Shared, ~exhausted, NEW t \in Threads, NEW h \in Handles,
           Flush(t, h)
    PROVE  Shared'
<1> DEFINE p == handle[h].node
           f == open_files[handle[h].fd]
           l == IF f = NoFile THEN "close" ELSE "get_fd"
           r == [NoLoc EXCEPT !.op = "flush", !.name = p, !.file = f, !.h = h]
<1>1. /\ TypeOK /\ LocalsFit /\ handle[h].fd \in Keys /\ f \in Files \cup {NoFile}
      /\ pc[t] = "idle" /\ Step(t, l, r) /\ l \in Pcs /\ p \in Paths \cup {NoName}
      /\ UNCHANGED <<open_files, created_files, created_fhs, file, handle>>
      /\ p # NoName => \A u \in Threads : loc[u].name = p => MayOverlap("flush", loc[u].op)
  BY DEF OInv, TypeOK, OpenHandle, Flush, Dup, Start, Pcs, Free
<1>2. r \in Locals /\ r.name = p /\ r.file = f /\ r.fd = BadFd /\ r.op = "flush"
  BY <1>1 DEF NoLoc, Locals, AllOps, BadFd, Keys
<1>3. f # NoFile => file[f].made /\ Named(r, f) /\ f \in Files
  <2> HIDE DEF r
  <2> QED BY <1>2, NodeNamed
<1>4. Knows(l, r)
  <2>1. CASE f = NoFile
    <3>1. open_files[r.fd] = NoFile BY <1>2 DEF OInv, NoBadFd
    <3> HIDE DEF r
    <3> QED BY <2>1, <3>1 DEF Knows, WithFile, OpenPcs, ClosePcs, UnlinkPcs
  <2>2. CASE f # NoFile
    <3> HIDE DEF r
    <3> QED BY <1>2, <1>3, <2>2 DEF Knows, WithFile, OpenPcs, ClosePcs, UnlinkPcs, Openers
  <2> QED BY <2>1, <2>2
<1>5. l \in WithFile => \A u \in Threads : pc[u] = "create_add" => loc[u].file # f
  <2>1. l \in WithFile => f # NoFile BY DEF WithFile, OpenPcs, ClosePcs, UnlinkPcs
  <2> QED BY <1>1, <2>1, NotFresh
<1>6. l \notin Removing \cup {"create_add"} /\ pc[t] \notin Reapers \cup {"unlink_names"}
  BY <1>1 DEF Removing, Reapers, OpenPcs
<1> HIDE DEF r, l
<1> QED BY <1>1, <1>2, <1>4, <1>5, <1>6, QuietShared DEF Reapers

\* A release closes the handle and goes on to close its descriptor.
LEMMA ReleaseShared ==
    ASSUME PathLocks, OInv, Shared, ~exhausted, NEW t \in Threads, NEW h \in Handles,
           Release(t, h)
    PROVE  Shared'
<1> DEFINE p == handle[h].node
           f == open_files[handle[h].fd]
           r == [NoLoc EXCEPT !.op = "release", !.name = p, !.fd = handle[h].fd]
<1>1. /\ TypeOK /\ LocalsFit /\ handle[h].fd \in Keys
      /\ pc[t] = "idle" /\ Step(t, "close", r) /\ "close" \in Pcs /\ p \in Paths \cup {NoName}
      /\ UNCHANGED <<open_files, created_files, created_fhs, file>>
      /\ p # NoName => \A u \in Threads : loc[u].name = p => MayOverlap("release", loc[u].op)
  BY DEF OInv, TypeOK, OpenHandle, Release, Pcs, Free
<1>2. r \in Locals /\ r.name = p /\ r.fd = handle[h].fd /\ r.op = "release"
  BY <1>1 DEF NoLoc, Locals, AllOps
<1>3. f # NoFile => Named(r, f)
  <2> HIDE DEF r
  <2> QED BY <1>2, NodeNamed
<1>4. \A g \in Handles : handle'[g] = handle[g] \/ handle'[g].file = NoFile
  BY <1>1 DEF Release, TypeOK, Closed
<1>5. /\ "close" \notin WithFile \cup Removing \cup {"create_add"}
      /\ pc[t] \notin Reapers \cup {"unlink_names"}
  BY <1>1 DEF WithFile, OpenPcs, ClosePcs, UnlinkPcs, Removing, Reapers
<1> HIDE DEF r
<1>6. Knows("close", r) BY <1>2, <1>3 DEF Knows, WithFile, OpenPcs, ClosePcs, UnlinkPcs
<1> QED BY <1>1, <1>2, <1>4, <1>5, <1>6, QuietShared DEF Reapers

\* A lock request works on the file of its handle.
LEMMA LockShared ==
    ASSUME PathLocks, OInv, Shared, ~exhausted, NEW t \in Threads, NEW h \in Handles,
           Lock(t, h)
    PROVE  Shared'
<1> DEFINE p == handle[h].node
           f == open_files[handle[h].fd]
           r == [NoLoc EXCEPT !.op = "lock", !.name = p, !.file = f, !.h = h]
<1>1. /\ TypeOK /\ LocalsFit /\ handle[h].fd \in Keys /\ f \in Files /\ f # NoFile
      /\ pc[t] = "idle" /\ Step(t, "lock_set", r) /\ "lock_set" \in Pcs
      /\ p \in Paths \cup {NoName}
      /\ UNCHANGED <<open_files, created_files, created_fhs, file, handle>>
      /\ p # NoName => \A u \in Threads : loc[u].name = p => MayOverlap("lock", loc[u].op)
  BY DEF OInv, TypeOK, OpenHandle, Lock, Start, Pcs, Free
<1>2. r \in Locals /\ r.name = p /\ r.file = f /\ r.op = "lock"
  BY <1>1 DEF NoLoc, Locals, AllOps, BadFd, Keys
<1>3. /\ "lock_set" \notin Removing \cup {"create_add"}
      /\ pc[t] \notin Reapers \cup {"unlink_names"}
  BY <1>1 DEF Removing, Reapers, OpenPcs
<1>4. \A u \in Threads : pc[u] = "create_add" => loc[u].file # f BY <1>1, NotFresh
<1> HIDE DEF r
<1>5. Knows("lock_set", r)
  BY <1>1, <1>2, NodeNamed DEF Knows, WithFile, OpenPcs, ClosePcs, UnlinkPcs
<1> QED BY <1>1, <1>2, <1>3, <1>4, <1>5, QuietShared DEF Reapers

\* An unlink finds the file of the name.
LEMMA UnlinkShared ==
    ASSUME PathLocks, OInv, Shared, NEW t \in Threads, NEW n \in Paths, Unlink(t, n)
    PROVE  Shared'
<1> DEFINE f == created_files[n]
           r == [NoLoc EXCEPT !.op = "unlink", !.name = n, !.file = f]
<1>1. /\ TypeOK /\ LocalsFit /\ f \in Files /\ f # NoFile
      /\ pc[t] = "idle" /\ Step(t, "unlink_check", r) /\ "unlink_check" \in Pcs
      /\ UNCHANGED <<open_files, created_files, created_fhs, file, handle>>
      /\ n # NoName => \A u \in Threads : loc[u].name = n => MayOverlap("unlink", loc[u].op)
  BY DEF OInv, TypeOK, Unlink, GetCreatedFile, Start, Pcs, Free
<1>2. f \in created_fhs /\ file[f].made /\ file[f].name = n BY <1>1 DEF Shared, MapsAgree
<1>3. r \in Locals /\ r.name = n /\ r.file = f /\ r.op = "unlink"
  BY <1>1 DEF NoLoc, Locals, AllOps, BadFd, Keys
<1>4. /\ "unlink_check" \notin Removing \cup {"create_add"}
      /\ pc[t] \notin Reapers \cup {"unlink_names"}
  BY <1>1 DEF Removing, Reapers, OpenPcs
<1>5. \A u \in Threads : pc[u] = "create_add" => loc[u].file # f BY <1>2, NotFresh
<1> HIDE DEF r
<1>6. Knows("unlink_check", r)
  BY <1>2, <1>3 DEF Knows, Named, WithFile, OpenPcs, ClosePcs, UnlinkPcs
<1> QED BY <1>1, <1>3, <1>4, <1>5, <1>6, QuietShared DEF Reapers

\* A thread that goes on with the same request overlaps with the same others.
LEMMA SameRequest ==
    ASSUME Shared, NEW t \in Threads, NEW r, r.name = loc[t].name, r.op = loc[t].op
    PROVE  r.name # NoName => \A u \in Threads :
              u # t /\ loc[u].name = r.name => MayOverlap(r.op, loc[u].op)
BY DEF Shared, Apart

\* Getting a descriptor leaves what the thread knows of its file.
LEMMA GetFdShared ==
    ASSUME OInv, Shared, NEW t \in Threads, GetFd(t)
    PROVE  Shared'
<1>1. PICK fd \in Keys : TakeFd(t, fd)
  BY DEF GetFd, OInv, TypeOK, Keys
<1> DEFINE r == [loc[t] EXCEPT !.fd = fd]
<1>2. /\ TypeOK /\ LocalsFit /\ pc[t] = "get_fd" /\ pc[t] \in WithFile
      /\ Step(t, "add_open", r) /\ "add_open" \in Pcs
      /\ UNCHANGED <<open_files, created_files, created_fhs, file, handle>>
  BY <1>1 DEF OInv, GetFd, TakeFd, At, Pcs, WithFile, OpenPcs
<1>3. r \in Locals /\ r.file = loc[t].file /\ r.name = loc[t].name /\ r.op = loc[t].op
  BY <1>2 DEF TypeOK, Locals
<1> HIDE DEF r
<1>4. Knows("add_open", r)
  BY <1>2, <1>3, Working DEF Knows, Named, WithFile, OpenPcs, ClosePcs, UnlinkPcs
<1>5. "add_open" \notin Removing \cup {"create_add"} /\ "add_open" \in Reapers
  BY DEF Removing, Reapers, OpenPcs
<1>6. \A u \in Threads : u # t /\ pc[u] = "create_add" => loc[u].file # r.file
  BY <1>2, <1>3, Working
<1> QED BY <1>2, <1>3, <1>4, <1>5, <1>6, SameRequest, QuietShared

\* A close that finds no link left, and an unlink that does, decide on the removal of a
\* file without handles; the others leave the file as it is.
LEMMA ChecksShared ==
    ASSUME OInv, Shared, ~exhausted, NEW t \in Threads, CloseCheck(t) \/ UnlinkCheck(t)
    PROVE  Shared'
<1>1. PICK f \in Files, r \in Locals : f = loc[t].file /\ r = loc[t]
  BY DEF OInv, TypeOK, LocalsFit, Fit, CloseCheck, UnlinkCheck, At, ClosePcs, UnlinkPcs
<1>2. PICK l \in Pcs :
         /\ Step(t, l, r)
         /\ \/ pc[t] = "close_check" /\ l = "close_remove" /\ LastLink(f)
            \/ pc[t] = "close_check" /\ l = "close_end" /\ ~LastLink(f)
            \/ pc[t] = "unlink_check" /\ l = "unlink_mark" /\ file[f].nlink > 0
            \/ pc[t] = "unlink_check" /\ l = "unlink_blocks" /\ ~(file[f].nlink > 0)
  <2>1. {"close_remove", "close_end", "unlink_mark", "unlink_blocks"} \subseteq Pcs BY DEF Pcs
  <2>2. CASE CloseCheck(t) BY <1>1, <2>1, <2>2 DEF CloseCheck, At
  <2>3. CASE UnlinkCheck(t) BY <1>1, <2>1, <2>3 DEF UnlinkCheck, At
  <2> QED BY <2>2, <2>3
<1>3. /\ TypeOK /\ LocalsFit
      /\ UNCHANGED <<open_files, created_files, created_fhs, file, handle>>
      /\ pc[t] \in {"close_check", "unlink_check"} /\ pc[t] \in WithFile /\ r.file = f
  BY <1>1, <1>2 DEF OInv, CloseCheck, UnlinkCheck, WithFile, ClosePcs, UnlinkPcs
<1>4. /\ \A u \in Threads : u # t /\ pc[u] = "create_add" => loc[u].file # f
      /\ file[f].made /\ Named(r, f) /\ Knows(pc[t], r)
  BY <1>1, <1>3, Working
<1>5. file[f].nlink \in Nat BY LinkedFinite DEF OInv, LinksCounted
<1>6. Knows(l, r)
  <2>1. pc[t] = "unlink_check" => r.op = "unlink" /\ created_files[r.name] \in {f, NoFile}
    BY <1>3, <1>4 DEF Knows, UnlinkPcs
  <2>2. CASE l = "close_remove"
    BY <1>2, <1>3, <1>4, <2>2
       DEF Knows, LastLink, Doomed, WithFile, OpenPcs, ClosePcs, UnlinkPcs
  <2>3. CASE l = "close_end"
    BY <1>3, <1>4, <2>3 DEF Knows, WithFile, OpenPcs, ClosePcs, UnlinkPcs
  <2>4. CASE l \in {"unlink_mark", "unlink_blocks"}
    BY <1>2, <1>3, <1>4, <1>5, <2>1, <2>4 DEF Knows, WithFile, OpenPcs, ClosePcs, UnlinkPcs
  <2> QED BY <1>2, <2>2, <2>3, <2>4
<1>7. l \in Removing => \A h \in Handles : handle[h].file # f
  <2>1. l \in Removing => file[f].nlink = 0 BY <1>2, <1>5 DEF Removing, LastLink
  <2> QED BY <2>1, NoHandleOn
<1>8. pc[t] \in Reapers => Settled(f) \/ l \in Reapers
  <2> SUFFICES ASSUME pc[t] = "close_check", ~LastLink(f) PROVE Settled(f)
    BY <1>2, <1>3 DEF Reapers, OpenPcs
  <2>1. file[f].kept => f \in created_fhs
    BY <1>1, <1>4 DEF Shared, KeptInMaps
  <2> QED BY <2>1 DEF LastLink, Settled, Doomed
<1>9. l # "create_add" /\ pc[t] \notin {"create_add", "unlink_names"} BY <1>2, <1>3
<1> QED BY <1>1, <1>2, <1>3, <1>4, <1>6, <1>7, <1>8, <1>9, SameRequest, QuietShared

-----------------------------------------------------------------------------
(* Steps that change one file, its entries in the maps or in the table *)

\* A file is made under a path that no map has, for a thread that is alone with it.
LEMMA NewFileShared ==
    ASSUME OInv, Shared, NEW t \in Threads, NewFile(t)
    PROVE  Shared'
<1>1. TypeOK /\ LocalsFit /\ pc[t] = "new_file" BY DEF OInv, NewFile, At
<1>2. CASE OpenFails(t) /\ UNCHANGED file
  <2>1. /\ Return(t) /\ UNCHANGED <<open_files, created_files, created_fhs, file>>
        /\ \A h \in Handles : handle'[h] = handle[h] \/ handle'[h].file = NoFile
    BY <1>1, <1>2 DEF NewFile, OpenFails, TypeOK, Failed, Closed
  <2>2. pc[t] \notin Reapers \cup {"unlink_names"} BY <1>1 DEF Reapers, OpenPcs
  <2> QED BY <1>1, <2>1, <2>2, ReturnShared
<1>3. CASE ~(OpenFails(t) /\ UNCHANGED file)
  <2>1. PICK f \in Files, p \in Paths, temp \in BOOLEAN :
           /\ temp = (loc[t].op = "tmpfile")
           /\ IF temp THEN p = f
              ELSE p = loc[t].name /\ p \in Names /\ created_files[p] = NoFile
           /\ ~file[f].made
           /\ file' = [file EXCEPT ![f].made = TRUE, ![f].name = p,
                                   ![f].temp = temp, ![f].kept = TRUE]
           /\ Step(t, "create_add", [loc[t] EXCEPT !.file = f, !.name = p])
           /\ UNCHANGED <<handle, open_files, created_files, created_fhs>>
    BY <1>1, <1>3 DEF NewFile, LocalsFit, Fit, Paths
  <2>2. PICK r \in Locals : r = [loc[t] EXCEPT !.file = f, !.name = p]
    BY <1>1 DEF TypeOK, Locals
  <2>3. /\ r.file = f /\ r.name = p /\ r.op = loc[t].op
        /\ Step(t, "create_add", r) /\ "create_add" \in Pcs
    BY <1>1, <2>1, <2>2 DEF TypeOK, Locals, Pcs
  <2>4. /\ file[f] = Unmade /\ f # NoFile /\ f \notin created_fhs
        /\ ~file[f].kept /\ ~Doomed(f)
    <3>1. file[f] = Unmade /\ f # NoFile BY <2>1, OpenAssumption DEF Shared, FilesNamed
    <3>2. f \notin created_fhs BY <2>1 DEF Shared, MapsAgree
    <3> QED BY <3>1, <3>2 DEF Unmade, Doomed
  <2>5. /\ \A fd \in Keys : open_files[fd] # f
        /\ \A h \in Handles : handle[h].file # f
        /\ \A u \in Threads : pc[u] \in WithFile => loc[u].file # f
    <3>1. \A fd \in Keys : open_files[fd] # f BY <2>1, <2>4 DEF Shared, MapsAgree
    <3>2. \A h \in Handles : handle[h].file # f
      BY <2>4 DEF Shared, HandlesKnown, HandleKnown
    <3>3. \A u \in Threads : Knows(pc[u], loc[u]) BY DEF Shared, ThreadsKnow
    <3>4. \A u \in Threads : pc[u] \in WithFile => loc[u].file # f BY <2>1, <3>3 DEF Knows
    <3> QED BY <3>1, <3>2, <3>4
  <2>6. created_files[p] = NoFile
    <3> SUFFICES ASSUME temp, created_files[p] # NoFile PROVE FALSE BY <2>1
    <3>1. p = f BY <2>1
    <3>2. PICK g \in Files : g = created_files[p] BY <1>1 DEF TypeOK
    <3>3. g \in created_fhs /\ file[g].name = p BY <3>2 DEF Shared, MapsAgree
    <3>4. file[g].made BY <3>3 DEF Shared, MapsAgree
    <3>5. g = f BY <3>1, <3>2, <3>3, <3>4, OpenAssumption DEF Shared, FilesNamed
    <3> QED BY <2>1, <3>4, <3>5
  <2>7. /\ file'[f].made /\ file'[f].name = p /\ file'[f].temp = temp /\ file'[f].kept
        /\ ~file'[f].deleted /\ file'[f].nlink = 0
        /\ \A g \in Files : g # f => file'[g] = file[g]
    <3>1. file \in [Files -> File] BY <1>1 DEF TypeOK
    <3>2. file'[f] = [file[f] EXCEPT !.made = TRUE, !.name = p, !.temp = temp, !.kept = TRUE]
      BY <2>1, <3>1
    <3> QED BY <2>1, <2>4, <3>1, <3>2 DEF Unmade
  <2>8. ChangesOne(f) /\ \A u \in Threads : Undisturbed(u, f)
    <3>1. p \in Names \cup {f} BY <2>1
    <3>2. \A u \in Threads : pc[u] = "close_remove" => loc[u].file \in created_fhs
      BY DEF Shared, ThreadsKnow, Knows
    <3>3. \A u \in Threads : pc[u] \in {"create_add"} \cup UnlinkPcs \cup OpenPcs =>
             loc[u].file # f
      BY <2>5 DEF WithFile
    <3>4. /\ created_files' = created_files /\ created_fhs' = created_fhs
          /\ open_files' = open_files /\ handle' = handle /\ ~file[f].made
      BY <2>1
    <3>5. ChangesOne(f) BY <2>7, <3>1, <3>4 DEF ChangesOne
    <3> QED BY <3>2, <3>3, <3>4, <3>5 DEF Undisturbed
  <2>9. MapsAgree'
    <3>1. \A g \in Files : file[g].made => file'[g].made /\ file'[g].name = file[g].name
      BY <2>1, <2>7
    <3> QED BY <1>1, <2>1, <3>1, NamesKept DEF Shared
  <2>10. HandlesKnown'
    BY <1>1, <2>1, <2>3, <2>5, <2>8, HandlesStay DEF Removing
  <2>11. Knows("create_add", r)'
    <3>1. r.op # "open" BY <1>1, <2>3 DEF Shared, ThreadsKnow, Knows
    <3>2. IF r.op = "tmpfile" THEN r.name = f ELSE r.name \in Names BY <2>1, <2>3
    <3> QED
      BY <2>1, <2>3, <2>4, <2>5, <2>6, <2>7, <3>1, <3>2
         DEF Knows, Named, Fresh, Doomed, WithFile, OpenPcs, ClosePcs, UnlinkPcs
  <2>12. r.name # NoName => \A u \in Threads :
            u # t /\ loc[u].name = r.name => MayOverlap(r.op, loc[u].op)
    <3>1. CASE r.op = "tmpfile" BY <3>1, OverlapFacts
    <3>2. CASE r.op # "tmpfile"
      <4>1. r.name = loc[t].name BY <2>1, <2>3, <3>2
      <4> QED BY <2>3, <4>1, SameRequest
    <3> QED BY <3>1, <3>2
  <2>13. "create_add" \in Reapers /\ pc[t] \notin WithFile /\ f \notin created_fhs'
    BY <1>1, <2>1, <2>4 DEF Reapers, WithFile, OpenPcs, ClosePcs, UnlinkPcs
  <2> QED BY <1>1, <2>3, <2>5, <2>8, <2>9, <2>10, <2>11, <2>12, <2>13, FileShared
<1> QED BY <1>2, <1>3

\* No other thread is about to enter or to remove the path that a new file gets.
LEMMA PathFresh ==
    ASSUME OInv, Shared, NEW t \in Threads, pc[t] = "create_add",
           NEW u \in Threads, u # t, pc[u] \in {"create_add"} \cup UnlinkPcs
    PROVE  loc[u].name \in Paths /\ loc[u].name # loc[t].name
<1> DEFINE f == loc[t].file
           g == loc[u].file
<1>1. TypeOK /\ LocalsFit /\ pc[t] \in WithFile /\ pc[u] \in WithFile
  BY DEF OInv, WithFile
<1>2. /\ f \in Files /\ Knows(pc[t], loc[t])
      /\ g \in Files /\ Knows(pc[u], loc[u]) /\ file[g].name \in Names \cup {g}
      /\ Named(loc[u], g) /\ g # f
  BY <1>1, Working DEF Shared, FreshAlone
<1>3. pc[u] \in UnlinkPcs => loc[u].op = "unlink" /\ loc[u].name = file[g].name
  BY <1>2 DEF Knows, Named
<1>4. pc[u] = "create_add" =>
         /\ loc[u].op \in {"create", "mknod", "tmpfile"}
         /\ IF loc[u].op = "tmpfile" THEN loc[u].name = g ELSE loc[u].name \in Names
  BY <1>1, <1>2 DEF Knows, LocalsFit, Fit, Openers
<1>5. /\ loc[t].op \in {"create", "mknod", "tmpfile"}
      /\ IF loc[t].op = "tmpfile" THEN loc[t].name = f ELSE loc[t].name \in Names
  BY <1>1, <1>2 DEF Knows, LocalsFit, Fit, Openers
<1>6. loc[u].name \in Names \cup {g} BY <1>2, <1>3, <1>4
<1>7. loc[t].name = loc[u].name /\ loc[t].name # NoName => MayOverlap(loc[t].op, loc[u].op)
  BY DEF Shared, Apart
<1>8. CASE loc[t].op = "tmpfile" BY <1>2, <1>5, <1>6, <1>8, OpenAssumption DEF Paths
<1>9. CASE loc[t].op # "tmpfile"
  <2> SUFFICES ASSUME loc[u].name = loc[t].name PROVE FALSE BY <1>2, <1>6 DEF Paths
  <2>1. MayOverlap(loc[t].op, loc[u].op) /\ loc[t].op \in {"create", "mknod"}
    BY <1>5, <1>7, <1>9, OpenAssumption
  <2>2. CASE pc[u] \in UnlinkPcs BY <1>3, <2>1, <2>2, OverlapFacts
  <2>3. CASE pc[u] = "create_add"
    <3>1. loc[u].op \in {"create", "mknod"} BY <1>2, <1>4, <1>5, <1>9, <2>3, OpenAssumption
    <3> QED BY <2>1, <3>1, OverlapFacts
  <2> QED BY <2>2, <2>3
<1> QED BY <1>8, <1>9

\* The file is entered in the maps under its path.
LEMMA CreateAddShared ==
    ASSUME OInv, Shared, NEW t \in Threads, CreateAdd(t)
    PROVE  Shared'
<1>1. /\ TypeOK /\ LocalsFit /\ pc[t] = "create_add" /\ pc[t] \in WithFile
  BY DEF OInv, CreateAdd, At, WithFile
<1>2. PICK f \in Files, q \in Locals : f = loc[t].file /\ q = loc[t] /\ q.file = f
  BY <1>1, Working
<1>3. /\ f # NoFile /\ file[f].made /\ file[f].name = q.name /\ Named(q, f) /\ q.name \in Paths
      /\ Fresh(q, f) /\ q.op \in {"create", "mknod", "tmpfile"}
      /\ q.op = "tmpfile" => file[f].temp
      /\ q.op = "mknod" => ~file[f].temp
      /\ file[f].name \in Names \cup {f}
      /\ \A u \in Threads : u # t /\ pc[u] = "create_add" => loc[u].file # f
  <2>1. Knows("create_add", q) BY <1>1, <1>2, Working
  <2>2. q.op \in {"create", "mknod", "tmpfile"}
    BY <1>1, <1>2, <2>1 DEF Knows, LocalsFit, Fit, Openers
  <2>3. Named(q, f) /\ f # NoFile /\ file[f].name \in Paths /\ file[f].made
        /\ file[f].name \in Names \cup {f}
        /\ \A u \in Threads : u # t /\ pc[u] = "create_add" => loc[u].file # f
    BY <1>1, <1>2, Working
  <2> QED BY <1>2, <2>1, <2>2, <2>3 DEF Knows, Named
<1>4. /\ created_files' = [created_files EXCEPT ![q.name] = f]
      /\ created_fhs' = created_fhs \cup {f}
      /\ UNCHANGED <<open_files, file, handle>>
  BY <1>2 DEF CreateAdd
<1>5. \A p \in Paths : created_files'[p] = IF p = q.name THEN f ELSE created_files[p]
  BY <1>1, <1>4 DEF TypeOK
<1>6. MapsAgree'
  <2>1. \A g \in created_fhs : file[g].name \in Paths /\ file[g].name # q.name
    BY <1>1, <1>3, OpenAssumption DEF Shared, MapsAgree, TypeOK, FilesNamed, Paths, Fresh
  <2>2. \A g \in created_fhs' : file'[g].made /\ created_files'[file'[g].name] = g
    BY <1>3, <1>4, <1>5, <2>1 DEF Shared, MapsAgree
  <2>3. \A p \in Paths : created_files'[p] # NoFile =>
           created_files'[p] \in created_fhs' /\ file'[created_files'[p]].name = p
    BY <1>3, <1>4, <1>5 DEF Shared, MapsAgree
  <2> QED BY <1>4, <2>2, <2>3 DEF Shared, MapsAgree
<1>7. ChangesOne(f) BY <1>3, <1>4 DEF ChangesOne
<1>8. ASSUME NEW u \in Threads, u # t PROVE Undisturbed(u, f)
  <2>1. pc[u] \in {"create_add"} \cup UnlinkPcs =>
           created_files'[loc[u].name] = created_files[loc[u].name]
    BY <1>1, <1>2, <1>5, <1>8, PathFresh
  <2>2. pc[u] = "close_remove" => loc[u].file \in created_fhs'
    BY <1>4 DEF Shared, ThreadsKnow, Knows
  <2> QED BY <1>3, <1>4, <1>8, <2>1, <2>2 DEF Undisturbed
<1>9. PICK l \in Pcs, r \in Locals :
         /\ Step(t, l, r) /\ Knows(l, r)'
         /\ \/ l = "idle" /\ r = NoLoc /\ q.op = "mknod"
            \/ l = "get_fd" /\ r = q
  <2>1. CASE q.op = "mknod" BY <1>2, <2>1, IdleKnows DEF CreateAdd, Return
  <2>2. CASE q.op # "mknod"
    <3>1. Step(t, "get_fd", q) /\ "get_fd" \in Pcs BY <1>2, <2>2 DEF CreateAdd, Pcs
    <3>2. Knows("get_fd", q)'
      BY <1>2, <1>3, <1>4 DEF Knows, Fresh, Named, WithFile, OpenPcs, ClosePcs, UnlinkPcs
    <3> QED BY <3>1, <3>2
  <2> QED BY <2>1, <2>2
<1>10. l \notin Removing \cup {"create_add"} BY <1>9 DEF Removing
<1>11. HandlesKnown' BY <1>1, <1>4, <1>7, <1>9, <1>10, HandlesStay
<1>12. /\ l \in WithFile => r.file = f
       /\ r.name # NoName => \A u \in Threads :
             u # t /\ loc[u].name = r.name => MayOverlap(r.op, loc[u].op)
  <2>1. CASE l = "idle" BY <1>9, <2>1, IdleKnows DEF WithFile, OpenPcs, ClosePcs, UnlinkPcs
  <2>2. CASE r = q BY <1>2, <2>2, SameRequest
  <2> QED BY <1>9, <2>1, <2>2
<1>13. Settled(f)' \/ l \in Reapers
  BY <1>3, <1>4, <1>9 DEF Settled, Doomed, Fresh, Reapers, OpenPcs
<1>14. file'[f].kept /\ f \in created_fhs' BY <1>3, <1>4 DEF Fresh
<1> QED BY <1>1, <1>2, <1>6, <1>7, <1>8, <1>9, <1>10, <1>11, <1>12, <1>13, <1>14, FileShared

\* The descriptor is entered in the table, at an entry that no closing thread has.
LEMMA AddOpenFileShared ==
    ASSUME OInv, Shared, ~exhausted, NEW t \in Threads, AddOpenFile(t)
    PROVE  Shared'
<1>1. TypeOK /\ LocalsFit /\ pc[t] = "add_open" /\ pc[t] \in WithFile
  BY DEF OInv, AddOpenFile, At, WithFile, OpenPcs
<1>2. PICK f \in Files, q \in Locals : f = loc[t].file /\ q = loc[t] /\ q.file = f
  BY <1>1, Working
<1>3. /\ file[f].made /\ file[f].name \in Names \cup {f} /\ Named(q, f) /\ Knows(pc[t], q)
      /\ \A u \in Threads : u # t /\ pc[u] = "create_add" => loc[u].file # f
  BY <1>1, <1>2, Working
<1>4. /\ open_files' = [open_files EXCEPT ![q.fd] = f] /\ q.fd \in Keys
      /\ Step(t, "inc_link", q) /\ "inc_link" \in Pcs
      /\ UNCHANGED <<created_files, created_fhs, file, handle>>
  BY <1>2 DEF AddOpenFile, Pcs, Locals
<1>5. \A fd \in Keys : open_files'[fd] = IF fd = q.fd THEN f ELSE open_files[fd]
  BY <1>1, <1>4 DEF TypeOK
<1>6. MapsAgree'
  <2>1. \A fd \in Keys : \/ open_files'[fd] = open_files[fd]
                         \/ open_files'[fd] \in Files /\ file[open_files'[fd]].made
    BY <1>3, <1>5
  <2> QED BY <1>1, <1>4, <2>1, NamesKept DEF Shared
<1>7. ChangesOne(f) BY <1>3, <1>4, <1>5 DEF ChangesOne
<1>8. ASSUME NEW u \in Threads, u # t PROVE Undisturbed(u, f)
  <2>1. pc[u] = "close" => open_files'[loc[u].fd] = open_files[loc[u].fd]
    <3> SUFFICES ASSUME pc[u] = "close" PROVE loc[u].fd # q.fd
      BY <1>1, <1>5 DEF TypeOK, Locals
    <3>1. Held(t) = q.fd /\ Held(u) = loc[u].fd BY <1>1, <1>2 DEF Held, Takers
    <3>2. q.fd # BadFd BY <1>1, <1>2 DEF OInv, NoBadFd
    <3> QED BY <1>8, <3>1, <3>2 DEF OInv, OneHolder
  <2>2. pc[u] = "close_remove" => loc[u].file \in created_fhs'
    BY <1>4 DEF Shared, ThreadsKnow, Knows
  <2> QED BY <1>3, <1>4, <1>8, <2>1, <2>2 DEF Undisturbed
<1>9. Knows("inc_link", q)'
  BY <1>1, <1>2, <1>3, <1>4
     DEF Knows, Named, Doomed, WithFile, OpenPcs, ClosePcs, UnlinkPcs
<1>10. "inc_link" \in Reapers /\ "inc_link" \notin Removing \cup {"create_add"}
  BY DEF Reapers, OpenPcs, Removing
<1>11. HandlesKnown' BY <1>1, <1>4, <1>7, <1>10, HandlesStay
<1>12. q.name # NoName => \A u \in Threads :
          u # t /\ loc[u].name = q.name => MayOverlap(q.op, loc[u].op)
  BY <1>2, SameRequest
<1>13. /\ file'[f] = file[f] /\ created_fhs' = created_fhs
       /\ pc[t] \notin {"create_add", "unlink_names"}
  BY <1>1, <1>4
<1> QED BY <1>1, <1>2, <1>4, <1>6, <1>7, <1>8, <1>9, <1>10, <1>11, <1>12, <1>13, FileShared

\* The end of a close takes the entry of its descriptor from the table, and a lock is set.
LEMMA EndsShared ==
    ASSUME OInv, Shared, NEW t \in Threads, CloseEnd(t) \/ LockSet(t)
    PROVE  Shared'
<1>1. /\ TypeOK /\ LocalsFit /\ pc[t] \in {"close_end", "lock_set"} /\ pc[t] \in WithFile
      /\ Step(t, "idle", NoLoc) /\ UNCHANGED <<created_files, created_fhs, handle>>
  BY DEF OInv, CloseEnd, LockSet, At, WithFile, ClosePcs, Return
<1>2. PICK f \in Files, q \in Locals : f = loc[t].file /\ q = loc[t] BY <1>1, Working
<1>3. /\ file[f].made /\ file[f].name \in Names \cup {f}
      /\ \A u \in Threads : u # t /\ pc[u] = "create_add" => loc[u].file # f
  BY <1>1, <1>2, Working
<1>4. PICK x \in File : x = file[f] BY <1>1 DEF TypeOK
<1>5. /\ \A g \in Files : g # f => file'[g] = file[g]
      /\ file'[f] = x \/ file'[f] = [x EXCEPT !.locked = TRUE]
      /\ \A fd \in Keys : open_files'[fd] \in {open_files[fd], NoFile}
  <2>1. CASE CloseEnd(t) BY <1>1, <1>4, <2>1 DEF CloseEnd, TypeOK
  <2>2. CASE LockSet(t) BY <1>1, <1>2, <1>4, <2>2 DEF LockSet, TypeOK
  <2> QED BY <2>1, <2>2
<1>6. /\ file'[f].made /\ file'[f].name = file[f].name /\ file'[f].kept = file[f].kept
      /\ file'[f].nlink = file[f].nlink /\ file'[f].temp = file[f].temp
      /\ file'[f].deleted = file[f].deleted
  BY <1>3, <1>4, <1>5 DEF File
<1>7. MapsAgree'
  <2>1. \A g \in Files : file[g].made => file'[g].made /\ file'[g].name = file[g].name
    BY <1>5, <1>6
  <2> QED BY <1>1, <1>5, <2>1, NamesKept DEF Shared
<1>8. ChangesOne(f) BY <1>1, <1>3, <1>5, <1>6 DEF ChangesOne
<1>9. ASSUME NEW u \in Threads, u # t PROVE Undisturbed(u, f)
  <2>1. pc[u] = "close_remove" => loc[u].file \in created_fhs'
    BY <1>1 DEF Shared, ThreadsKnow, Knows
  <2>2. loc[u].fd \in Keys BY <1>1 DEF TypeOK, Locals
  <2> QED BY <1>1, <1>3, <1>5, <1>6, <1>9, <2>1, <2>2 DEF Undisturbed
<1>10. "idle" \notin WithFile \cup Removing \cup {"create_add"} /\ pc[t] \notin Reapers
  BY <1>1 DEF WithFile, OpenPcs, ClosePcs, UnlinkPcs, Removing, Reapers
<1>11. HandlesKnown'
  <2>1. "idle" \in Pcs /\ NoLoc \in Locals BY IdleKnows
  <2> QED BY <1>1, <1>6, <1>8, <1>10, <2>1, HandlesStay
<1>12. Settled(f)' <=> Settled(f) BY <1>1, <1>6 DEF Settled, Doomed
<1>13. created_fhs' = created_fhs /\ pc[t] \notin {"create_add", "unlink_names"} BY <1>1
<1> QED BY <1>1, <1>2, <1>6, <1>7, <1>8, <1>9, <1>10, <1>11, <1>12, <1>13, IdleKnows, FileShared

\* Close takes a link of its file, or returns.  No unlink that has read the link count of a
\* file it alone removes is under way.
LEMMA CloseShared ==
    ASSUME OInv, Shared, NEW t \in Threads, Close(t)
    PROVE  Shared'
<1>1. /\ TypeOK /\ LocalsFit /\ pc[t] = "close"
      /\ UNCHANGED <<open_files, created_files, created_fhs, handle>>
  BY DEF OInv, Close, At
<1>2. CASE open_files[loc[t].fd] = NoFile
  <2>1. Return(t) /\ UNCHANGED file BY <1>2 DEF Close
  <2>2. pc[t] \notin Reapers \cup {"unlink_names"} BY <1>1 DEF Reapers, OpenPcs
  <2> QED BY <1>1, <2>1, <2>2, ReturnShared
<1>3. CASE open_files[loc[t].fd] # NoFile
  <2>1. loc[t].fd \in Keys /\ open_files[loc[t].fd] \in Files
    BY <1>1, <1>3 DEF TypeOK, Locals
  <2>2. PICK f \in Files, q \in Locals :
           f = open_files[loc[t].fd] /\ q = [loc[t] EXCEPT !.file = f]
    BY <1>1, <2>1 DEF TypeOK, Locals
  <2>3. /\ Step(t, "close_check", q) /\ "close_check" \in Pcs /\ file' = DecLink(f)
        /\ q.file = f /\ q.name = loc[t].name /\ q.op = loc[t].op
    BY <1>1, <1>3, <2>2 DEF Close, Pcs, TypeOK, Locals
  <2>4. file[f].made /\ file[f].name \in Names \cup {f} /\ Named(q, f)
    <3>1. Knows(pc[t], loc[t]) BY DEF Shared, ThreadsKnow
    <3>2. file[f].made BY <1>3, <2>1, <2>2 DEF Shared, MapsAgree
    <3> QED BY <1>1, <1>3, <2>2, <2>3, <3>1, <3>2 DEF Knows, Named, Shared, FilesNamed
  <2>5. PICK x \in File : x = file[f] BY <1>1 DEF TypeOK
  <2>6. /\ \A g \in Files : g # f => file'[g] = file[g]
        /\ file'[f] = [x EXCEPT !.nlink = @ - 1, !.locked = FALSE]
    BY <1>1, <2>3, <2>5 DEF TypeOK, DecLink
  <2>7. /\ file'[f].made /\ file'[f].name = file[f].name /\ file'[f].kept = file[f].kept
        /\ file'[f].temp = file[f].temp /\ file'[f].deleted = file[f].deleted
    BY <2>4, <2>5, <2>6 DEF File
  <2>8. MapsAgree'
    <3>1. \A g \in Files : file[g].made => file'[g].made /\ file'[g].name = file[g].name
      BY <2>6, <2>7
    <3> QED BY <1>1, <3>1, NamesKept DEF Shared
  <2>9. ChangesOne(f) BY <1>1, <2>4, <2>6, <2>7 DEF ChangesOne
  <2>10. ASSUME NEW u \in Threads, u # t PROVE Undisturbed(u, f)
    <3>1. pc[u] = "create_add" => loc[u].file # f BY <2>1, <2>2, NotFresh
    <3>2. pc[u] \in UnlinkPcs /\ loc[u].file = f => Doomed(f)'
      <4> SUFFICES ASSUME pc[u] \in UnlinkPcs, loc[u].file = f, ~Doomed(f) PROVE FALSE
        BY <2>7 DEF Doomed
      <4> QED BY <1>1, <2>2, <2>10, UnlinkAlone
    <3>3. pc[u] = "close_remove" => loc[u].file \in created_fhs'
      BY <1>1 DEF Shared, ThreadsKnow, Knows
    <3> QED BY <1>1, <2>7, <2>10, <3>1, <3>2, <3>3 DEF Undisturbed
  <2>11. Knows("close_check", q)'
    BY <2>3, <2>4, <2>7
       DEF Knows, Named, Doomed, WithFile, OpenPcs, ClosePcs, UnlinkPcs
  <2>12. "close_check" \in Reapers /\ "close_check" \notin Removing \cup {"create_add"}
    BY DEF Reapers, Removing
  <2>13. HandlesKnown' BY <1>1, <2>3, <2>7, <2>9, <2>12, HandlesStay
  <2>14. q.name # NoName => \A u \in Threads :
            u # t /\ loc[u].name = q.name => MayOverlap(q.op, loc[u].op)
    BY <2>3, SameRequest
  <2>15. /\ created_fhs' = created_fhs
         /\ pc[t] \notin WithFile \cup {"create_add", "unlink_names"}
    BY <1>1 DEF WithFile, OpenPcs, ClosePcs, UnlinkPcs
  <2> QED BY <1>1, <2>3, <2>7, <2>8, <2>9, <2>10, <2>11, <2>12, <2>13, <2>14, <2>15, FileShared
<1> QED BY <1>2, <1>3

\* A handle is given to the kernel with all that is known of it: it is lost when the
\* removal of its file is decided.
LEMMA HandleGiven ==
    ASSUME OInv, Shared, NEW t \in Threads, pc[t] = "inc_link", loc[t].op \in Openers
    PROVE  LET f == loc[t].file IN
           /\ file[f].kept \/ RemovalDecided(f)
           /\ RemovalDecided(f) => Doomed(f)
           /\ loc[t].op = "tmpfile" => Doomed(f)
           /\ loc[t].op # "tmpfile" => loc[t].name = file[f].name
           /\ \A u \in Threads : pc[u] \in Removing /\ loc[u].file = f => RemovalDecided(f)
<1> DEFINE f == loc[t].file
<1>1. TypeOK /\ LocalsFit /\ pc[t] \in WithFile BY DEF OInv, WithFile, OpenPcs
<1>2. Knows(pc[t], loc[t]) /\ Named(loc[t], f) BY <1>1, Working
<1>3. file[f].kept \/ Doomed(f) BY <1>2 DEF Knows, OpenPcs
<1>4. ASSUME NEW u \in Threads, pc[u] \in Removing, loc[u].file = f PROVE Doomed(f)
  <2>1. u # t BY <1>4 DEF Removing
  <2>2. Knows(pc[u], loc[u]) BY DEF Shared, ThreadsKnow
  <2>3. CASE pc[u] = "close_remove" BY <1>4, <2>2, <2>3 DEF Knows
  <2>4. CASE pc[u] = "unlink_blocks"
    <3> SUFFICES ASSUME ~Doomed(f) PROVE FALSE OBVIOUS
    <3> QED BY <1>1, <1>4, <2>1, <2>4, UnlinkAlone DEF UnlinkPcs
  <2> QED BY <1>4, <2>3, <2>4 DEF Removing
<1>5. loc[t].op = "tmpfile" => Doomed(f) BY <1>2 DEF Knows, OpenPcs, Doomed
<1>6. loc[t].op # "tmpfile" => loc[t].name = file[f].name BY <1>2 DEF Named, Openers
<1> QED BY <1>3, <1>4, <1>5, <1>6 DEF RemovalDecided, Removing

\* A link is counted, and the handle of an open is given to the kernel.
LEMMA IncLinkShared ==
    ASSUME OInv, Shared, ~exhausted, NEW t \in Threads, IncLink(t)
    PROVE  Shared'
<1>1. TypeOK /\ LocalsFit /\ pc[t] = "inc_link" /\ pc[t] \in WithFile
  BY DEF OInv, IncLink, At, WithFile, OpenPcs
<1>2. PICK f \in Files, q \in Locals : f = loc[t].file /\ q = loc[t] /\ q.file = f
  BY <1>1, Working
<1>3. /\ file[f].made /\ file[f].name \in Names \cup {f} /\ Named(q, f) /\ Knows(pc[t], q)
      /\ f # NoFile
      /\ \A u \in Threads : u # t /\ pc[u] = "create_add" => loc[u].file # f
  BY <1>1, <1>2, Working
<1>4. /\ file' = [file EXCEPT ![f].nlink = @ + 1]
      /\ UNCHANGED <<created_files, created_fhs, open_files>>
  BY <1>2 DEF IncLink
<1>5. PICK x \in File : x = file[f] BY <1>1 DEF TypeOK
<1>6. file[f].nlink \in Nat BY LinkedFinite DEF OInv, LinksCounted
<1>7. /\ \A g \in Files : g # f => file'[g] = file[g]
      /\ file'[f] = [x EXCEPT !.nlink = @ + 1]
  BY <1>1, <1>4, <1>5 DEF TypeOK
<1>8. /\ file'[f].made /\ file'[f].name = file[f].name /\ file'[f].kept = file[f].kept
      /\ file'[f].temp = file[f].temp /\ file'[f].deleted = file[f].deleted
      /\ file'[f].nlink = file[f].nlink + 1
  BY <1>3, <1>5, <1>7 DEF File
<1>9. Settled(f)' BY <1>6, <1>8 DEF Settled
<1>10. MapsAgree'
  <2>1. \A g \in Files : file[g].made => file'[g].made /\ file'[g].name = file[g].name
    BY <1>7, <1>8
  <2> QED BY <1>1, <1>4, <2>1, NamesKept DEF Shared
<1>11. PICK l \in Pcs, r \in Locals :
          /\ Step(t, l, r) /\ Knows(l, r)'
          /\ \/ l = "idle" /\ r = NoLoc /\ q.op # "flush"
             \/ l = "close" /\ r = q /\ q.op = "flush" /\ UNCHANGED handle
  <2>1. CASE q.op = "flush"
    <3>1. Step(t, "close", q) /\ "close" \in Pcs /\ UNCHANGED handle
      BY <1>2, <2>1 DEF IncLink, Pcs
    <3>2. open_files[q.fd] = f
      BY <1>1, <1>2 DEF OInv, TableAgrees, NoBadFd, Held, Takers, Counted
    <3>3. Knows("close", q)'
      BY <1>3, <1>4, <1>8, <3>2
         DEF Knows, Named, Doomed, WithFile, OpenPcs, ClosePcs, UnlinkPcs
    <3> QED BY <2>1, <3>1, <3>3
  <2>2. CASE q.op # "flush" BY <1>2, <2>2, IdleKnows DEF IncLink, Return
  <2> QED BY <2>1, <2>2
<1>12. l \notin Removing \cup {"create_add"} \cup WithFile
  BY <1>11 DEF Removing, WithFile, OpenPcs, ClosePcs, UnlinkPcs
<1>13. PICK v \in OpenHandle :
          /\ v.file = f
          /\ v.node = IF q.op = "tmpfile" THEN NoName ELSE q.name
          /\ v.lost = RemovalDecided(f)
          /\ handle' = handle \/ (q.op # "flush" /\ handle' = [handle EXCEPT ![q.h] = v])
  <2> DEFINE v == [open |-> TRUE, fd |-> q.fd, file |-> f,
                   node |-> IF q.op = "tmpfile" THEN NoName ELSE q.name,
                   lost |-> RemovalDecided(f)]
  <2>1. v \in OpenHandle BY DEF OpenHandle, Locals, RemovalDecided
  <2>2. handle' = handle \/ (q.op # "flush" /\ handle' = [handle EXCEPT ![q.h] = v])
    BY <1>2 DEF IncLink
  <2>3. /\ v.file = f /\ v.lost = RemovalDecided(f)
        /\ v.node = IF q.op = "tmpfile" THEN NoName ELSE q.name
    OBVIOUS
  <2> HIDE DEF v
  <2> QED BY <2>1, <2>2, <2>3
<1>14. ChangesOne(f)
  <2>1. \A h \in Handles : handle'[h].file \in {handle[h].file, f} BY <1>1, <1>13 DEF TypeOK
  <2> QED BY <1>3, <1>4, <1>7, <1>8, <2>1 DEF ChangesOne
<1>15. HandlesKnown'
  <2>1. ASSUME NEW h \in Handles, handle'[h] = v, q.op # "flush" PROVE HandleKnown(handle[h])'
    <3>1. q.op \in Openers BY <1>1, <1>2, <2>1 DEF LocalsFit, Fit, OpenPcs
    <3>2. /\ file[f].kept \/ v.lost
          /\ v.lost => Doomed(f)
          /\ v.node = file[f].name \/ (v.node = NoName /\ Doomed(f))
          /\ \A u \in Threads : pc[u] \in Removing /\ loc[u].file = f => v.lost
      BY <1>1, <1>2, <1>13, <3>1, HandleGiven
    <3>3. \A u \in Threads : pc'[u] \in Removing /\ loc'[u].file = f => v.lost
      <4>1. /\ pc'[t] = l
            /\ \A u \in Threads : u # t => pc'[u] = pc[u] /\ loc'[u] = loc[u]
        BY <1>1, <1>11, StepTypes
      <4> QED BY <1>12, <3>2, <4>1
    <3> QED BY <1>8, <1>13, <2>1, <3>2, <3>3 DEF HandleKnown, Doomed
  <2>2. \A h \in Handles : \/ handle'[h] = handle[h]
                           \/ HandleKnown(handle[h])'
    BY <1>1, <1>13, <2>1 DEF TypeOK
  <2> QED BY <1>1, <1>8, <1>11, <1>12, <1>14, <2>2, HandlesStay
<1>16. ASSUME NEW u \in Threads, u # t PROVE Undisturbed(u, f)
  <2>1. pc[u] \in UnlinkPcs /\ loc[u].file = f => Doomed(f)'
    <3> SUFFICES ASSUME pc[u] \in UnlinkPcs, loc[u].file = f, ~Doomed(f) PROVE FALSE
      BY <1>8 DEF Doomed
    <3> QED BY <1>1, <1>2, <1>16, UnlinkAlone
  <2>2. pc[u] = "close_remove" => loc[u].file \in created_fhs'
    BY <1>4 DEF Shared, ThreadsKnow, Knows
  <2> QED BY <1>3, <1>4, <1>8, <1>16, <2>1, <2>2 DEF Undisturbed
<1>17. r.name # NoName => \A u \in Threads :
          u # t /\ loc[u].name = r.name => MayOverlap(r.op, loc[u].op)
  BY <1>2, <1>11, IdleKnows, SameRequest
<1>18. created_fhs' = created_fhs /\ pc[t] \notin {"create_add", "unlink_names"} BY <1>1, <1>4
<1> QED BY <1>1, <1>2, <1>8, <1>9, <1>10, <1>11, <1>12, <1>14, <1>15, <1>16, <1>17, <1>18,
           FileShared

\* Unlink marks a file that has a link, or had one and is to be removed by its last close.
LEMMA UnlinkMarkShared ==
    ASSUME OInv, Shared, ~exhausted, NEW t \in Threads, UnlinkMark(t)
    PROVE  Shared'
<1>1. /\ TypeOK /\ LocalsFit /\ pc[t] = "unlink_mark" /\ pc[t] \in WithFile
      /\ pc[t] \in UnlinkPcs /\ Step(t, "idle", NoLoc)
      /\ UNCHANGED <<open_files, created_files, created_fhs>>
  BY DEF OInv, UnlinkMark, At, WithFile, UnlinkPcs, Return
<1>2. PICK f \in Files, q \in Locals : f = loc[t].file /\ q = loc[t] BY <1>1, Working
<1>3. /\ file[f].made /\ file[f].name \in Names \cup {f} /\ q.name = file[f].name
      /\ q.name # NoName
      /\ Doomed(f) \/ file[f].nlink > 0
      /\ \A u \in Threads : u # t /\ pc[u] = "create_add" => loc[u].file # f
  <2>1. /\ file[f].made /\ file[f].name \in Names \cup {f} /\ file[f].name # NoName
        /\ Named(q, f) /\ Knows(pc[t], q)
        /\ \A u \in Threads : u # t /\ pc[u] = "create_add" => loc[u].file # f
    BY <1>1, <1>2, Working
  <2> QED BY <1>1, <1>2, <2>1 DEF Knows, Named
<1>4. PICK x \in File : x = file[f] BY <1>1 DEF TypeOK
<1>5. /\ \A g \in Files : g # f => file'[g] = file[g]
      /\ file'[f] = [x EXCEPT !.deleted = TRUE]
  BY <1>1, <1>2, <1>4 DEF UnlinkMark, TypeOK
<1>6. /\ file'[f].made /\ file'[f].name = file[f].name /\ file'[f].kept = file[f].kept
      /\ file'[f].nlink = file[f].nlink /\ file'[f].temp = file[f].temp /\ file'[f].deleted
  BY <1>3, <1>4, <1>5 DEF File
<1>7. Doomed(f)' BY <1>6 DEF Doomed
<1>8. MapsAgree'
  <2>1. \A g \in Files : file[g].made => file'[g].made /\ file'[g].name = file[g].name
    BY <1>5, <1>6
  <2> QED BY <1>1, <2>1, NamesKept DEF Shared
<1>9. \A h \in Handles :
         /\ handle'[h].file = handle[h].file /\ handle'[h].lost = handle[h].lost
         /\ handle'[h].node = IF handle[h].node = q.name THEN NoName ELSE handle[h].node
  <2>1. NodesUnlinked(q.name) BY <1>2 DEF UnlinkMark
  <2> QED BY <1>1, <2>1, NodesForgotten
<1>10. ChangesOne(f) BY <1>1, <1>3, <1>5, <1>6, <1>9 DEF ChangesOne
<1>11. "idle" \notin WithFile \cup Removing \cup {"create_add"} /\ pc[t] \notin Reapers
  BY <1>1 DEF WithFile, OpenPcs, ClosePcs, UnlinkPcs, Removing, Reapers
<1>12. HandlesKnown'
  <2>1. ASSUME NEW h \in Handles, handle[h].node = q.name, handle[h].file # NoFile
        PROVE  Doomed(handle[h].file)'
    <3>1. CASE handle[h].file = f BY <1>7, <1>9, <3>1 DEF Doomed
    <3>2. CASE handle[h].file # f
      <4>1. Doomed(handle[h].file) BY <1>1, <1>2, <1>3, <2>1, <3>2, NodesKnown
      <4>2. handle[h].file \in Files BY <1>1, <2>1 DEF TypeOK, OpenHandle
      <4> QED BY <1>5, <1>9, <3>2, <4>1, <4>2 DEF Doomed
    <3> QED BY <3>1, <3>2
  <2>2. "idle" \in Pcs /\ NoLoc \in Locals BY IdleKnows
  <2> QED BY <1>1, <1>6, <1>9, <1>10, <1>11, <2>1, <2>2, HandlesStay
<1>13. ASSUME NEW u \in Threads, u # t PROVE Undisturbed(u, f)
  <2>1. pc[u] = "close_remove" => loc[u].file \in created_fhs'
    BY <1>1 DEF Shared, ThreadsKnow, Knows
  <2> QED BY <1>1, <1>3, <1>6, <1>7, <1>13, <2>1 DEF Undisturbed
<1>14. Settled(f) => Settled(f)' BY <1>1, <1>3, <1>4, <1>6 DEF Settled, File
<1>15. created_fhs' = created_fhs /\ pc[t] \notin {"create_add", "unlink_names"} BY <1>1
<1> QED BY <1>1, <1>2, <1>6, <1>8, <1>10, <1>11, <1>12, <1>13, <1>14, <1>15, IdleKnows,
           FileShared

\* Unlink frees the blocks of a file that it alone has, or that is to be removed anyway.
LEMMA UnlinkBlocksShared ==
    ASSUME OInv, Shared, NEW t \in Threads, UnlinkBlocks(t)
    PROVE  Shared'
<1>1. /\ TypeOK /\ LocalsFit /\ pc[t] = "unlink_blocks" /\ pc[t] \in WithFile
      /\ pc[t] \in UnlinkPcs /\ pc[t] \in Removing
      /\ UNCHANGED <<open_files, created_files, created_fhs, handle>>
  BY DEF OInv, UnlinkBlocks, At, WithFile, UnlinkPcs, Removing
<1>2. PICK f \in Files, q \in Locals : f = loc[t].file /\ q = loc[t] /\ q.file = f
  BY <1>1, Working
<1>3. /\ file[f].made /\ file[f].name \in Names \cup {f} /\ Knows(pc[t], q) /\ Named(q, f)
      /\ \A u \in Threads : u # t /\ pc[u] = "create_add" => loc[u].file # f
  BY <1>1, <1>2, Working
<1>4. Step(t, "unlink_names", q) /\ "unlink_names" \in Pcs BY <1>2 DEF UnlinkBlocks, Pcs
<1>5. PICK x \in File : x = file[f] BY <1>1 DEF TypeOK
<1>6. /\ \A g \in Files : g # f => file'[g] = file[g]
      /\ file'[f] = [x EXCEPT !.kept = FALSE]
  BY <1>1, <1>2, <1>5 DEF UnlinkBlocks, TypeOK
<1>7. /\ file'[f].made /\ file'[f].name = file[f].name /\ ~file'[f].kept
      /\ file'[f].nlink = file[f].nlink /\ file'[f].temp = file[f].temp
      /\ file'[f].deleted = file[f].deleted
  BY <1>3, <1>5, <1>6 DEF File
<1>8. MapsAgree'
  <2>1. \A g \in Files : file[g].made => file'[g].made /\ file'[g].name = file[g].name
    BY <1>6, <1>7
  <2> QED BY <1>1, <2>1, NamesKept DEF Shared
<1>9. ChangesOne(f) BY <1>1, <1>3, <1>6, <1>7 DEF ChangesOne
<1>10. \A h \in Handles : handle[h].file = f => handle[h].lost
  <2>1. f # NoFile BY <1>1, <1>2, Working
  <2> QED BY <1>1, <1>2, <2>1 DEF Shared, HandlesKnown, HandleKnown
<1>11. "unlink_names" \notin Removing \cup {"create_add"} /\ pc[t] \notin Reapers
  BY <1>1 DEF Removing, Reapers, OpenPcs
<1>12. HandlesKnown' BY <1>1, <1>4, <1>9, <1>10, <1>11, HandlesStay
<1>13. ASSUME NEW u \in Threads, u # t PROVE Undisturbed(u, f)
  <2>1. pc[u] = "close_remove" => loc[u].file \in created_fhs'
    BY <1>1 DEF Shared, ThreadsKnow, Knows
  <2>2. pc[u] \in OpenPcs /\ loc[u].file = f => Doomed(f)'
    <3> SUFFICES ASSUME pc[u] \in OpenPcs, loc[u].file = f, ~Doomed(f) PROVE FALSE
      BY <1>7 DEF Doomed
    <3> QED BY <1>1, <1>2, <1>13, UnlinkAlone DEF WithFile
  <2> QED BY <1>1, <1>3, <1>7, <1>13, <2>1, <2>2 DEF Undisturbed
<1>14. Knows("unlink_names", q)'
  BY <1>1, <1>2, <1>3, <1>7
     DEF Knows, Named, Doomed, WithFile, OpenPcs, ClosePcs, UnlinkPcs
<1>15. Settled(f) => Settled(f)' BY <1>1, <1>7 DEF Settled, Doomed
<1>16. q.name # NoName => \A u \in Threads :
          u # t /\ loc[u].name = q.name => MayOverlap(q.op, loc[u].op)
  BY <1>2, SameRequest
<1> QED BY <1>1, <1>2, <1>4, <1>7, <1>8, <1>9, <1>11, <1>12, <1>13, <1>14, <1>15, <1>16,
           FileShared

\* The last close removes a file whose handles, if any, are lost.
LEMMA CloseRemoveShared ==
    ASSUME OInv, Shared, NEW t \in Threads, CloseRemove(t)
    PROVE  Shared'
<1>1. /\ TypeOK /\ LocalsFit /\ pc[t] = "close_remove" /\ pc[t] \in WithFile
      /\ pc[t] \in Removing /\ UNCHANGED <<open_files, handle>>
  BY DEF OInv, CloseRemove, At, WithFile, ClosePcs, Removing
<1>2. PICK f \in Files, q \in Locals : f = loc[t].file /\ q = loc[t] /\ q.file = f
  BY <1>1, Working
<1>3. /\ file[f].made /\ file[f].name \in Names \cup {f} /\ Knows(pc[t], q) /\ Named(q, f)
      /\ \A u \in Threads : u # t /\ pc[u] = "create_add" => loc[u].file # f
      /\ f # NoFile
  BY <1>1, <1>2, Working
<1>4. Step(t, "close_end", q) /\ "close_end" \in Pcs /\ NamesRemoved(f)
  BY <1>2 DEF CloseRemove, Pcs
<1>5. PICK x \in File : x = file[f] BY <1>1 DEF TypeOK
<1>6. /\ \A g \in Files : g # f => file'[g] = file[g]
      /\ file'[f] = [x EXCEPT !.kept = FALSE]
  BY <1>1, <1>2, <1>5 DEF CloseRemove, TypeOK
<1>7. /\ file'[f].made /\ file'[f].name = file[f].name /\ ~file'[f].kept
      /\ file'[f].nlink = file[f].nlink /\ file'[f].temp = file[f].temp
      /\ file'[f].deleted = file[f].deleted
  BY <1>3, <1>5, <1>6 DEF File
<1>8. f \in created_fhs /\ Doomed(f) /\ Doomed(f)' BY <1>1, <1>2, <1>3, <1>7 DEF Knows, Doomed
<1>9. /\ MapsAgree' /\ f \notin created_fhs'
      /\ \A g \in Files : g # f => (g \in created_fhs' <=> g \in created_fhs)
      /\ \A p \in Paths : created_files'[p] \in {created_files[p], NoFile}
  <2>1. \A g \in Files : file[g].made => file'[g].made /\ file'[g].name = file[g].name
    BY <1>6, <1>7
  <2>2. created_files[file[f].name] = f BY <1>8 DEF Shared, MapsAgree
  <2> QED BY <1>1, <1>3, <1>4, <2>1, <2>2, NamesGone DEF Shared
<1>10. ChangesOne(f) BY <1>1, <1>3, <1>6, <1>7, <1>9 DEF ChangesOne
<1>11. \A h \in Handles : handle[h].file = f => handle[h].lost
  BY <1>1, <1>2, <1>3 DEF Shared, HandlesKnown, HandleKnown
<1>12. "close_end" \notin Removing \cup {"create_add"} BY DEF Removing
<1>13. HandlesKnown' BY <1>1, <1>4, <1>10, <1>11, <1>12, HandlesStay
<1>14. ASSUME NEW u \in Threads, u # t PROVE Undisturbed(u, f)
  <2>1. pc[u] # "close_remove" BY <1>1, <1>14 DEF LocalsFit, ClosePcs
  <2>2. pc[u] \in {"create_add"} \cup UnlinkPcs => loc[u].name \in Paths
    <3>1. pc[u] = "create_add" => loc[u].name \in Paths BY <1>1 DEF LocalsFit, Fit
    <3>2. pc[u] \in UnlinkPcs => loc[u].name \in Paths
      BY <1>1, Working DEF WithFile, Knows, Named
    <3> QED BY <3>1, <3>2
  <2> QED BY <1>1, <1>3, <1>7, <1>8, <1>9, <1>14, <2>1, <2>2 DEF Undisturbed
<1>15. Knows("close_end", q)'
  BY <1>2, <1>3, <1>7 DEF Knows, Named, Doomed, WithFile, OpenPcs, ClosePcs, UnlinkPcs
<1>16. Settled(f)' BY <1>7, <1>9 DEF Settled
<1>17. q.name # NoName => \A u \in Threads :
          u # t /\ loc[u].name = q.name => MayOverlap(q.op, loc[u].op)
  BY <1>2, SameRequest
<1> QED BY <1>1, <1>2, <1>4, <1>7, <1>9, <1>10, <1>12, <1>13, <1>14, <1>15, <1>16, <1>17,
           FileShared

\* Unlink removes the names of a file whose blocks are free, under the mutex of the closes.
LEMMA UnlinkNamesShared ==
    ASSUME OInv, Shared, ~exhausted, NEW t \in Threads, UnlinkNames(t)
    PROVE  Shared'
<1>1. /\ TypeOK /\ LocalsFit /\ pc[t] = "unlink_names" /\ pc[t] \in WithFile
      /\ pc[t] \in UnlinkPcs /\ fh_mutex = NoThread /\ Step(t, "idle", NoLoc)
      /\ UNCHANGED <<open_files, file>>
  BY DEF OInv, UnlinkNames, At, WithFile, UnlinkPcs, Return, MetaGuard
<1>2. PICK f \in Files, q \in Locals : f = loc[t].file /\ q = loc[t] /\ q.file = f
  BY <1>1, Working
<1>3. /\ file[f].made /\ file[f].name \in Names \cup {f} /\ q.name = file[f].name
      /\ q.name # NoName /\ ~file[f].kept
      /\ created_files[file[f].name] \in {f, NoFile}
      /\ Doomed(f) \/ file[f].nlink = 0
      /\ \A u \in Threads : u # t /\ pc[u] = "create_add" => loc[u].file # f
  <2>1. /\ file[f].made /\ file[f].name \in Names \cup {f} /\ file[f].name # NoName
        /\ Named(q, f) /\ Knows(pc[t], q)
        /\ \A u \in Threads : u # t /\ pc[u] = "create_add" => loc[u].file # f
    BY <1>1, <1>2, Working
  <2> QED BY <1>1, <1>2, <2>1 DEF Knows, Named
<1>4. NamesRemoved(f) /\ NodesUnlinked(q.name) BY <1>2 DEF UnlinkNames
<1>5. /\ MapsAgree' /\ f \notin created_fhs'
      /\ \A g \in Files : g # f => (g \in created_fhs' <=> g \in created_fhs)
      /\ \A p \in Paths : created_files'[p] \in {created_files[p], NoFile}
  <2>1. \A g \in Files : file[g].made => file'[g].made /\ file'[g].name = file[g].name
    BY <1>1
  <2> QED BY <1>1, <1>3, <1>4, <2>1, NamesGone DEF Shared
<1>6. \A h \in Handles :
         /\ handle'[h].file = handle[h].file /\ handle'[h].lost = handle[h].lost
         /\ handle'[h].node = IF handle[h].node = q.name THEN NoName ELSE handle[h].node
  BY <1>1, <1>4, NodesForgotten
<1>7. ChangesOne(f) BY <1>1, <1>3, <1>5, <1>6 DEF ChangesOne
<1>8. "idle" \notin WithFile \cup Removing \cup {"create_add"} /\ pc[t] # "create_add"
  BY <1>1 DEF WithFile, OpenPcs, ClosePcs, UnlinkPcs, Removing
<1>9. HandlesKnown'
  <2>1. ASSUME NEW h \in Handles, handle[h].node = q.name, handle[h].file # NoFile
        PROVE  Doomed(handle[h].file)'
    <3>1. CASE handle[h].file = f
      <4>1. Doomed(f) BY <1>3, <3>1, NoHandleOn
      <4> QED BY <1>1, <1>6, <3>1, <4>1 DEF Doomed
    <3>2. CASE handle[h].file # f
      <4>1. Doomed(handle[h].file) BY <1>1, <1>2, <1>3, <2>1, <3>2, NodesKnown
      <4> QED BY <1>1, <1>6, <4>1 DEF Doomed
    <3> QED BY <3>1, <3>2
  <2>2. "idle" \in Pcs /\ NoLoc \in Locals BY IdleKnows
  <2> QED BY <1>1, <1>6, <1>7, <1>8, <2>1, <2>2, HandlesStay
<1>10. ASSUME NEW u \in Threads, u # t PROVE Undisturbed(u, f)
  <2>1. pc[u] # "close_remove" BY <1>1, OpenAssumption DEF LocalsFit, ClosePcs
  <2>2. pc[u] \in {"create_add"} \cup UnlinkPcs => loc[u].name \in Paths
    <3>1. pc[u] = "create_add" => loc[u].name \in Paths BY <1>1 DEF LocalsFit, Fit
    <3>2. pc[u] \in UnlinkPcs => loc[u].name \in Paths
      BY <1>1, Working DEF WithFile, Knows, Named
    <3> QED BY <3>1, <3>2
  <2> QED BY <1>1, <1>3, <1>5, <1>10, <2>1, <2>2 DEF Undisturbed
<1>11. Settled(f)' BY <1>1, <1>3, <1>5 DEF Settled
<1>12. ~file'[f].kept BY <1>1, <1>3
<1> QED BY <1>1, <1>2, <1>5, <1>7, <1>8, <1>9, <1>10, <1>11, <1>12, IdleKnows, FileShared

-----------------------------------------------------------------------------
(* The invariant *)

\* Descriptors that ran out stay so.
LEMMA ExhaustedStays ==
    ASSUME [Next]_vars, ~exhausted' PROVE ~exhausted
<1>1. ASSUME NEW t \in Threads, Call(t) PROVE exhausted' = exhausted
  BY <1>1 DEF Call, OpenDirectory, CloseDirectory, OpenLookup, OpenTmp, Flush, Release, Lock,
              Mknod, Unlink
<1>2. ASSUME NEW t \in Threads, Continue(t) PROVE exhausted' = exhausted \/ exhausted' = TRUE
  <2>1. CASE NewFile(t) BY <2>1 DEF NewFile
  <2>2. CASE GetFd(t) BY <2>2 DEF GetFd
  <2>3. CASE CreateAdd(t) \/ AddOpenFile(t) \/ IncLink(t) \/ LockSet(t)
    BY <2>3 DEF CreateAdd, AddOpenFile, IncLink, LockSet
  <2>4. CASE Close(t) \/ CloseCheck(t) \/ CloseRemove(t) \/ CloseEnd(t)
    BY <2>4 DEF Close, CloseCheck, CloseRemove, CloseEnd
  <2>5. CASE UnlinkCheck(t) \/ UnlinkMark(t) \/ UnlinkBlocks(t) \/ UnlinkNames(t)
    BY <2>5 DEF UnlinkCheck, UnlinkMark, UnlinkBlocks, UnlinkNames
  <2> QED BY <1>2, <2>1, <2>2, <2>3, <2>4, <2>5 DEF Continue
<1>3. CASE UNCHANGED vars BY <1>3 DEF vars
<1>4. CASE Next BY <1>1, <1>2, <1>4 DEF Next
<1> QED BY <1>3, <1>4

\* Every step keeps SInv.
LEMMA SharedStep ==
    ASSUME PathLocks, OInv, SInv, [Next]_vars PROVE SInv'
<1> SUFFICES ASSUME ~exhausted' PROVE Shared' BY DEF SInv
<1>1. ~exhausted /\ Shared BY ExhaustedStays DEF SInv
<1>2. TypeOK /\ LocalsFit BY DEF OInv
<1>3. CASE UNCHANGED <<open_files, created_files, created_fhs, file, handle, pc, loc>>
  <2>1. FilesNamed' /\ Apart' /\ FreshAlone' /\ MapsAgree' /\ KeptInMaps' /\ Reaped'
    BY <1>1, <1>3 DEF Shared, FilesNamed, Apart, FreshAlone, MapsAgree, KeptInMaps, Reaped,
                      Settled, Doomed
  <2>2. ThreadsKnow'
    BY <1>1, <1>3 DEF Shared, ThreadsKnow, Knows, Named, Fresh, Doomed
  <2>3. HandlesKnown' BY <1>1, <1>3 DEF Shared, HandlesKnown, HandleKnown, Doomed
  <2> QED BY <2>1, <2>2, <2>3 DEF Shared
<1>4. ASSUME NEW t \in Threads, Call(t) PROVE Shared'
  <2>1. ASSUME NEW d \in Streams, OpenDirectory(t, d) \/ CloseDirectory(t, d) PROVE Shared'
    BY <1>3, <2>1 DEF OpenDirectory, CloseDirectory
  <2>2. ASSUME NEW h \in Handles, OpenTmp(t, h) \/ Flush(t, h) \/ Release(t, h) \/ Lock(t, h)
        PROVE  Shared'
    BY <1>1, <1>2, <2>2, MakeShared, FlushShared, ReleaseShared, LockShared
  <2>3. ASSUME NEW n \in Names, Mknod(t, n) PROVE Shared' BY <1>1, <1>2, <2>3, MakeShared
  <2>4. ASSUME NEW n \in Paths, Unlink(t, n) PROVE Shared' BY <1>1, <2>4, UnlinkShared
  <2>5. ASSUME NEW h \in Handles, NEW n \in Paths, NEW creat \in BOOLEAN, NEW excl \in BOOLEAN,
               OpenLookup(t, h, n, creat, excl)
        PROVE  Shared'
    BY <1>1, <1>2, <2>5, OpenLookupShared
  <2> QED BY <1>4, <2>1, <2>2, <2>3, <2>4, <2>5 DEF Call
<1>5. ASSUME NEW t \in Threads, Continue(t) PROVE Shared'
  BY <1>1, <1>5, NewFileShared, CreateAddShared, GetFdShared, AddOpenFileShared,
     IncLinkShared, CloseShared, ChecksShared, CloseRemoveShared, EndsShared,
     UnlinkMarkShared, UnlinkBlocksShared, UnlinkNamesShared
     DEF Continue
<1> QED BY <1>3, <1>4, <1>5 DEF Next, vars

\* The start.
LEMMA SharedInit == ASSUME Init PROVE SInv
<1>1. /\ \A f \in Files : file[f] = Unmade
      /\ \A p \in Paths : created_files[p] = NoFile
      /\ \A fd \in Keys : open_files[fd] = NoFile
      /\ \A h \in Handles : handle[h].file = NoFile
      /\ created_fhs = {}
      /\ \A t \in Threads : pc[t] = "idle" /\ loc[t] = NoLoc
  BY DEF Init, Closed
<1>2. \A f \in Files : ~file[f].made /\ ~file[f].kept /\ ~Doomed(f)
  BY <1>1 DEF Unmade, Doomed
<1>3. FilesNamed BY <1>1, <1>2 DEF FilesNamed
<1>4. MapsAgree /\ HandlesKnown BY <1>1 DEF MapsAgree, HandlesKnown, HandleKnown
<1>5. KeptInMaps /\ Reaped BY <1>1, <1>2 DEF KeptInMaps, Reaped, Settled
<1>6. Apart /\ ThreadsKnow /\ FreshAlone
  BY <1>1, IdleKnows DEF Apart, ThreadsKnow, FreshAlone
<1> QED BY <1>3, <1>4, <1>5, <1>6 DEF SInv, Shared

\* Always OInv and SInv.
LEMMA SharedInvariant == ASSUME PathLocks PROVE Spec => [](OInv /\ SInv)
<1>1. Init => OInv /\ SInv BY OpenFilesInit, SharedInit
<1>2. OInv /\ SInv /\ [Next]_vars => (OInv /\ SInv)' BY OpenFilesStep, SharedStep
<1> QED BY <1>1, <1>2, PTL DEF Spec

-----------------------------------------------------------------------------
(* The theorems *)

\* When the kernel and libfuse lock paths as they do, and until descriptors run out, a file
\* keeps its blocks and its metadata while a handle is open on it, whatever opens, flushes
\* and closes of it overlap, unless it was unlinked or temporary and the handle's link was
\* counted after a removal had been decided (FileHandle::open, FileHandle::close,
\* FileHandle::unlink).
THEOREM OpenFileAlwaysKept == ASSUME PathLocks PROVE Spec => []OpenFileKept
<1>1. OInv /\ SInv => OpenFileKept
  BY DEF SInv, Shared, HandlesKnown, HandleKnown, Doomed, OpenFileKept
<1> QED BY <1>1, SharedInvariant, PTL

\* Under the same assumption, a temporary or an unlinked file without a descriptor is
\* gone from the device and from the maps whenever no request is under way
\* (FileHandle::close, UnlinkFileNolock).
THEOREM AlwaysReapedWhenClosed == ASSUME PathLocks PROVE Spec => []ReapedWhenClosed
<1>1. OInv /\ SInv => ReapedWhenClosed
  BY DEF SInv, Shared, Reaped, Settled, Doomed, ReapedWhenClosed, Reapers, OpenPcs
<1> QED BY <1>1, SharedInvariant, PTL
=============================================================================
