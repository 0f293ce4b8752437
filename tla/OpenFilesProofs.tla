-------------------------- MODULE OpenFilesProofs --------------------------
(***************************************************************************)
(* Proofs about OpenFiles, for any threads, files, handles and size of the *)
(* pool: a descriptor stands for the file it was opened on, the link count *)
(* is the number of descriptors, and no lock outlives them.  UnlinkProofs  *)
(* goes on to what becomes of a file that is open or unlinked.             *)
(***************************************************************************)
EXTENDS OpenFiles, FiniteSetTheorems, TLAPS

-----------------------------------------------------------------------------
(* The inductive invariant *)

Openers == {"open", "create", "tmpfile"}
OpenPcs == {"get_fd", "add_open", "inc_link"}
ClosePcs == {"close_check", "close_remove", "close_end"}
UnlinkPcs == {"unlink_check", "unlink_mark", "unlink_blocks", "unlink_names"}
Takers == {"add_open", "inc_link", "close"} \cup ClosePcs
Counted == {"inc_link"} \cup ClosePcs

\* What the code at place l relies on in its locals r.
Fit(l, r) ==
    /\ l = "idle" => r = NoLoc
    /\ l \in {"new_file", "create_add"} => r.op \in Openers \cup {"mknod"}
    /\ l \in {"new_file", "create_add"} /\ r.op # "mknod" => r.h \in Handles
    /\ l = "new_file" /\ r.op # "tmpfile" => r.name \in Names
    /\ l = "create_add" => r.name \in Paths
    /\ l \in OpenPcs => r.op \in Openers \cup {"flush"} /\ r.h \in Handles
    /\ l \in {"create_add", "lock_set"} \cup OpenPcs \cup ClosePcs \cup UnlinkPcs
          => r.file \in Files
    /\ l = "lock_set" => r.h \in Handles /\ r.op = "lock"
    /\ l \in {"close"} \cup ClosePcs => r.op \in {"flush", "release"}
    /\ r.op \in {"mknod", "release"} => r.h = NoHandle
    /\ r.op \in Openers => l \in {"new_file", "create_add"} \cup OpenPcs

LocalsFit == \A t \in Threads :
    Fit(pc[t], loc[t]) /\ (pc[t] \in ClosePcs => fh_mutex = t)

\* A handle that is not open is blank.
HandlesBlank == \A h \in Handles : ~handle[h].open => handle[h] = Closed

\* The descriptor that thread t answers for, BadFd if none.
Held(t) == IF pc[t] \in Takers THEN loc[t].fd ELSE BadFd

InPool(fd) == \E i \in 1 .. Len(free_fd_pool) : free_fd_pool[i] = fd

\* A descriptor is in the pool once, or with one handle, stream or thread.
PoolOnce ==
    \A i, j \in 1 .. Len(free_fd_pool) :
        free_fd_pool[i] = free_fd_pool[j] /\ free_fd_pool[i] # BadFd => i = j
NotPooled ==
    /\ \A h \in Handles : handle[h].fd # BadFd => ~InPool(handle[h].fd)
    /\ \A d \in Streams : stream[d] # BadFd => ~InPool(stream[d])
    /\ \A t \in Threads : Held(t) # BadFd => ~InPool(Held(t))
OneHolder ==
    /\ \A g, h \in Handles : handle[g].fd # BadFd /\ handle[g].fd = handle[h].fd => g = h
    /\ \A c, d \in Streams : stream[c] # BadFd /\ stream[c] = stream[d] => c = d
    /\ \A t, u \in Threads : Held(t) # BadFd /\ Held(t) = Held(u) => t = u
    /\ \A h \in Handles, d \in Streams : handle[h].fd # BadFd => handle[h].fd # stream[d]
    /\ \A h \in Handles, t \in Threads : handle[h].fd # BadFd => handle[h].fd # Held(t)
    /\ \A d \in Streams, t \in Threads : stream[d] # BadFd => stream[d] # Held(t)

\* The table has the file that a descriptor was entered for, and no other.
TableAgrees ==
    /\ \A fd \in Fds : InPool(fd) => open_files[fd] = NoFile
    /\ \A t \in Threads : Held(t) # BadFd =>
          /\ pc[t] = "add_open" => open_files[loc[t].fd] = NoFile
          /\ pc[t] \in Counted => open_files[loc[t].fd] = loc[t].file

\* Before descriptors run out, none is -1 where it stands for a file.
NoBadFd ==
    ~exhausted =>
        /\ ~InPool(BadFd) /\ open_files[BadFd] = NoFile
        /\ \A t \in Threads : pc[t] \in {"add_open"} \cup Counted => loc[t].fd # BadFd
        /\ \A h \in Handles : handle[h].file # NoFile => handle[h].fd # BadFd

\* The descriptors that the link count of f counts: entered, counted and not being
\* closed.
Linked(f) ==
    {fd \in Keys : /\ open_files[fd] = f
                   /\ \A t \in Threads : pc[t] \in Counted => loc[t].fd # fd}
LinksCounted == ~exhausted => \A f \in Files : file[f].nlink = Cardinality(Linked(f))

\* A thread that opens a handle is alone with it, and the handle is closed; one that
\* flushes or locks has it open.
HandlesInUse == \A t \in Threads :
    loc[t].h \in Handles =>
        IF loc[t].op \in Openers
        THEN ~handle[loc[t].h].open /\ \A u \in Threads : u # t => loc[u].h # loc[t].h
        ELSE handle[loc[t].h].open

\* A lock belongs to a descriptor that is not being closed.
LocksLinked ==
    ~exhausted =>
        /\ \A f \in Files : file[f].locked => Linked(f) # {}
        /\ \A t \in Threads : pc[t] = "lock_set" => handle[loc[t].h].file = loc[t].file

OInv == /\ TypeOK /\ LocalsFit /\ HandlesBlank /\ HandlesInUse
        /\ PoolOnce /\ NotPooled /\ OneHolder /\ TableAgrees /\ HandleOwnFile /\ NoBadFd
        /\ LinksCounted /\ LocksLinked

-----------------------------------------------------------------------------
(* Types *)

\* A thread moves on.
LEMMA StepTypes ==
    ASSUME TypeOK, NEW t \in Threads, NEW l \in Pcs, NEW r \in Locals, Step(t, l, r)
    PROVE  /\ pc' \in [Threads -> Pcs] /\ loc' \in [Threads -> Locals]
           /\ pc'[t] = l /\ loc'[t] = r
           /\ \A u \in Threads : u # t => pc'[u] = pc[u] /\ loc'[u] = loc[u]
BY DEF TypeOK, Step

\* The constants have their types.
LEMMA Blanks ==
    /\ NoLoc \in Locals /\ Unmade \in File /\ Closed \in OpenHandle /\ Failed \in OpenHandle
    /\ BadFd \in Keys /\ Fds \subseteq Keys /\ BadFd \notin Fds
<1>1. BadFd \in Keys /\ Fds \subseteq Keys /\ BadFd \notin Fds BY DEF BadFd, Keys, Fds
<1>2. NoLoc \in Locals BY <1>1 DEF NoLoc, Locals
<1>3. Unmade \in File BY DEF Unmade, File
<1>4. Closed \in OpenHandle BY <1>1 DEF Closed, OpenHandle
<1>5. \A r \in OpenHandle : [r EXCEPT !.open = TRUE] \in OpenHandle BY DEF OpenHandle
<1> QED BY <1>1, <1>2, <1>3, <1>4, <1>5 DEF Failed

\* Unlink takes a name from the handles and nothing else.
LEMMA NodesForgotten ==
    ASSUME TypeOK, NEW p, NodesUnlinked(p)
    PROVE  /\ handle' \in [Handles -> OpenHandle]
           /\ \A h \in Handles :
                 /\ handle'[h].open = handle[h].open /\ handle'[h].fd = handle[h].fd
                 /\ handle'[h].file = handle[h].file /\ handle'[h].lost = handle[h].lost
                 /\ handle'[h].node = IF handle[h].node = p THEN NoName ELSE handle[h].node
                 /\ handle[h] = Closed => handle'[h] = Closed
<1>1. \A r \in OpenHandle, q \in Paths \cup {NoName} :
         /\ [r EXCEPT !.node = q] \in OpenHandle
         /\ [r EXCEPT !.node = q].open = r.open /\ [r EXCEPT !.node = q].fd = r.fd
         /\ [r EXCEPT !.node = q].file = r.file /\ [r EXCEPT !.node = q].lost = r.lost
         /\ [r EXCEPT !.node = q].node = q
  BY DEF OpenHandle
<1>2. \A r \in OpenHandle : r.node \in Paths \cup {NoName} BY DEF OpenHandle
<1>3. Closed.node = NoName BY DEF Closed
<1>4. [Closed EXCEPT !.node = NoName] = Closed
  <2>1. \A r \in OpenHandle : [r EXCEPT !.node = r.node] = r BY DEF OpenHandle
  <2> QED BY <1>3, <2>1, Blanks
<1> DEFINE to(h) == IF handle[h].node = p THEN NoName ELSE handle[h].node
<1>5. \A h \in Handles : /\ handle'[h] = [handle[h] EXCEPT !.node = to(h)]
                         /\ handle[h] \in OpenHandle /\ to(h) \in Paths \cup {NoName}
  BY <1>2 DEF TypeOK, NodesUnlinked
<1>6. handle' \in [Handles -> OpenHandle]
  <2>1. handle' = [h \in Handles |-> [handle[h] EXCEPT !.node = to(h)]] BY DEF NodesUnlinked
  <2>2. \A h \in Handles : [handle[h] EXCEPT !.node = to(h)] \in OpenHandle
    <3> HIDE DEF to
    <3> QED BY <1>1, <1>5
  <2> HIDE DEF to
  <2> QED BY <2>1, <2>2
<1>7. ASSUME NEW h \in Handles, handle[h] = Closed PROVE handle'[h] = Closed
  BY <1>3, <1>4, <1>5, <1>7
<1>8. ASSUME NEW h \in Handles
      PROVE  /\ handle'[h].open = handle[h].open /\ handle'[h].fd = handle[h].fd
             /\ handle'[h].file = handle[h].file /\ handle'[h].lost = handle[h].lost
             /\ handle'[h].node = to(h)
  <2>1. PICK r \in OpenHandle, q \in Paths \cup {NoName} : r = handle[h] /\ q = to(h)
    BY <1>5
  <2>2. handle'[h] = [r EXCEPT !.node = q] BY <1>5, <2>1
  <2> HIDE DEF to
  <2> QED BY <1>1, <2>1, <2>2
<1> QED BY <1>6, <1>7, <1>8

\* The types at the start.
LEMMA InitTypes == Init => TypeOK
<1> SUFFICES ASSUME Init PROVE TypeOK OBVIOUS
<1>1. free_fd_pool \in Seq(Keys)
  <2>1. MaxFds \in Nat /\ free_fd_pool = [i \in 1 .. MaxFds |-> i - 1]
    BY OpenAssumption DEF Init
  <2>2. \A i \in 1 .. MaxFds : i - 1 \in Keys BY <2>1 DEF Keys, Fds
  <2> QED BY <2>1, <2>2
<1> QED BY <1>1, Blanks DEF Init, TypeOK, Pcs

\* Every step keeps the types.
LEMMA CallTypes ==
    ASSUME TypeOK, LocalsFit, NEW t \in Threads, Call(t)
    PROVE  TypeOK'
<1> USE Blanks DEF TypeOK
<1>1. ASSUME NEW d \in Streams, OpenDirectory(t, d) PROVE TypeOK'
  <2>1. Head(free_fd_pool) \in Keys /\ Tail(free_fd_pool) \in Seq(Keys)
    BY <1>1 DEF OpenDirectory
  <2> QED BY <1>1, <2>1 DEF OpenDirectory
<1>2. ASSUME NEW d \in Streams, CloseDirectory(t, d) PROVE TypeOK'
  <2>1. PutFd(stream[d]) \in Seq(Keys) BY DEF PutFd
  <2> QED BY <1>2, <2>1 DEF CloseDirectory
<1>3. ASSUME NEW h \in Handles, NEW n \in Paths, NEW creat \in BOOLEAN, NEW excl \in BOOLEAN,
             OpenLookup(t, h, n, creat, excl)
      PROVE  TypeOK'
  <2> DEFINE op == IF creat THEN "create" ELSE "open"
             r == [NoLoc EXCEPT !.op = op, !.name = n, !.file = created_files[n], !.h = h]
  <2>1. r \in Locals BY DEF NoLoc, Locals, AllOps
  <2>2. "get_fd" \in Pcs /\ "new_file" \in Pcs BY DEF Pcs
  <2> HIDE DEF r
  <2>3. pc' \in [Threads -> Pcs] /\ loc' \in [Threads -> Locals]
    BY <1>3, <2>1, <2>2, StepTypes DEF OpenLookup, GetCreatedFile, r
  <2>4. handle' \in [Handles -> OpenHandle] BY <1>3 DEF OpenLookup
  <2> QED BY <1>3, <2>3, <2>4 DEF OpenLookup
<1>4. ASSUME NEW h \in Handles, OpenTmp(t, h) PROVE TypeOK'
  <2>1. [NoLoc EXCEPT !.op = "tmpfile", !.h = h] \in Locals /\ "new_file" \in Pcs
    BY DEF NoLoc, Locals, AllOps, Pcs
  <2> QED BY <1>4, <2>1, StepTypes DEF OpenTmp
<1>5. ASSUME NEW n \in Names, Mknod(t, n) PROVE TypeOK'
  <2>1. [NoLoc EXCEPT !.op = "mknod", !.name = n] \in Locals /\ "new_file" \in Pcs
    BY DEF NoLoc, Locals, AllOps, Pcs, Paths
  <2> QED BY <1>5, <2>1, StepTypes DEF Mknod
<1>6. \A h \in Handles : handle[h].node \in Paths \cup {NoName} BY DEF OpenHandle
<1>7. \A h \in Handles : handle[h].fd \in Keys BY DEF OpenHandle
<1>8. ASSUME NEW h \in Handles, Flush(t, h) PROVE TypeOK'
  <2> DEFINE fd == handle[h].fd
             r == [NoLoc EXCEPT !.op = "flush", !.name = handle[h].node, !.file = open_files[fd], !.h = h]
             l == IF open_files[fd] = NoFile THEN "close" ELSE "get_fd"
  <2>1. r \in Locals /\ l \in Pcs BY <1>6, <1>7 DEF NoLoc, Locals, AllOps, Pcs
  <2>2. Step(t, l, r) BY <1>8 DEF Flush, Dup
  <2> HIDE DEF r, l
  <2>3. pc' \in [Threads -> Pcs] /\ loc' \in [Threads -> Locals] BY <2>1, <2>2, StepTypes
  <2> QED BY <1>8, <2>3 DEF Flush
<1>9. ASSUME NEW h \in Handles, Release(t, h) PROVE TypeOK'
  <2> DEFINE fd == handle[h].fd
             r == [NoLoc EXCEPT !.op = "release", !.name = handle[h].node, !.fd = fd]
  <2>1. r \in Locals /\ "close" \in Pcs BY <1>6, <1>7 DEF NoLoc, Locals, AllOps, Pcs
  <2>2. Step(t, "close", r) BY <1>9 DEF Release
  <2> HIDE DEF r
  <2>3. pc' \in [Threads -> Pcs] /\ loc' \in [Threads -> Locals] BY <2>1, <2>2, StepTypes
  <2>4. handle' \in [Handles -> OpenHandle] BY <1>9 DEF Release
  <2> QED BY <1>9, <2>3, <2>4 DEF Release
<1>10. ASSUME NEW h \in Handles, Lock(t, h) PROVE TypeOK'
  <2> DEFINE f == open_files[handle[h].fd]
             r == [NoLoc EXCEPT !.op = "lock", !.name = handle[h].node, !.file = f, !.h = h]
  <2>1. f \in Files BY <1>7, <1>10 DEF Lock
  <2>3. r \in Locals /\ "lock_set" \in Pcs BY <1>6, <2>1 DEF NoLoc, Locals, AllOps, Pcs
  <2>4. Step(t, "lock_set", r) BY <1>10 DEF Lock
  <2> HIDE DEF r
  <2>5. pc' \in [Threads -> Pcs] /\ loc' \in [Threads -> Locals] BY <2>3, <2>4, StepTypes
  <2> QED BY <1>10, <2>5 DEF Lock
<1>11. ASSUME NEW n \in Paths, Unlink(t, n) PROVE TypeOK'
  <2> DEFINE r == [NoLoc EXCEPT !.op = "unlink", !.name = n, !.file = created_files[n]]
  <2>1. r \in Locals /\ "unlink_check" \in Pcs BY DEF NoLoc, Locals, AllOps, Pcs
  <2>2. Step(t, "unlink_check", r) BY <1>11 DEF Unlink, GetCreatedFile
  <2> HIDE DEF r
  <2>3. pc' \in [Threads -> Pcs] /\ loc' \in [Threads -> Locals] BY <2>1, <2>2, StepTypes
  <2> QED BY <1>11, <2>3 DEF Unlink
<1> QED BY <1>1, <1>2, <1>3, <1>4, <1>5, <1>8, <1>9, <1>10, <1>11 DEF Call

\* The link count goes up and down.
LEMMA LinkTypes ==
    ASSUME TypeOK, NEW f \in Files
    PROVE  [file EXCEPT ![f].nlink = @ + 1] \in [Files -> File] /\ DecLink(f) \in [Files -> File]
<1> DEFINE up == [file[f] EXCEPT !.nlink = @ + 1]
           down == [file[f] EXCEPT !.nlink = @ - 1, !.locked = FALSE]
<1>1. file[f] \in File /\ file \in [Files -> File] BY DEF TypeOK
<1>2. up \in File /\ down \in File
  <2>1. PICK r \in File : r = file[f] BY <1>1
  <2>2. r.nlink \in Int BY DEF File
  <2>3. r.nlink + 1 \in Int /\ r.nlink - 1 \in Int BY <2>2
  <2>4. \A n \in Int : [r EXCEPT !.nlink = n] \in File BY DEF File
  <2>5. \A n \in Int : [r EXCEPT !.nlink = n, !.locked = FALSE] \in File BY DEF File
  <2> QED BY <2>1, <2>3, <2>4, <2>5
<1>3. [file EXCEPT ![f].nlink = @ + 1] = [file EXCEPT ![f] = up] BY <1>1
<1>4. DecLink(f) = [file EXCEPT ![f] = down] BY <1>1 DEF DecLink
<1> HIDE DEF up, down
<1> QED BY <1>1, <1>2, <1>3, <1>4

\* The same for the steps within an operation.
LEMMA ContinueTypes ==
    ASSUME TypeOK, LocalsFit, NEW t \in Threads, Continue(t)
    PROVE  TypeOK'
<1> USE Blanks DEF TypeOK
<1> DEFINE r == loc[t]
<1>1. /\ r \in Locals /\ r.fd \in Keys /\ "idle" \in Pcs
      /\ \A f \in Files : [r EXCEPT !.file = f] \in Locals
      /\ \A fd \in Keys : [r EXCEPT !.fd = fd] \in Locals
  BY DEF Locals, Pcs
<1>2. CASE NewFile(t)
  <2>1. CASE OpenFails(t) /\ UNCHANGED file
    <3>1. pc' \in [Threads -> Pcs] /\ loc' \in [Threads -> Locals]
      BY <2>1, <1>1, StepTypes DEF OpenFails, Return
    <3>2. handle' \in [Handles -> OpenHandle] BY <2>1 DEF OpenFails
    <3> QED BY <1>2, <2>1, <3>1, <3>2 DEF NewFile
  <2>2. CASE ~(OpenFails(t) /\ UNCHANGED file)
    <3>1. PICK f \in Files, p \in Paths, temp \in BOOLEAN :
             /\ file' = [file EXCEPT ![f].made = TRUE, ![f].name = p,
                                     ![f].temp = temp, ![f].kept = TRUE]
             /\ Step(t, "create_add", [loc[t] EXCEPT !.file = f, !.name = p])
             /\ UNCHANGED handle
      BY <1>2, <2>2 DEF NewFile, At, LocalsFit, Fit, Paths
    <3>2. [r EXCEPT !.file = f, !.name = p] \in Locals /\ "create_add" \in Pcs
      BY <1>1 DEF Locals, Pcs
    <3>3. pc' \in [Threads -> Pcs] /\ loc' \in [Threads -> Locals]
      BY <3>1, <3>2, StepTypes
    <3>4. file' \in [Files -> File]
      <4> DEFINE g == [file[f] EXCEPT !.made = TRUE, !.name = p, !.temp = temp, !.kept = TRUE]
      <4>1. g \in File BY DEF File
      <4>2. file' = [file EXCEPT ![f] = g] BY <3>1
      <4> HIDE DEF g
      <4> QED BY <4>1, <4>2
    <3> QED BY <1>2, <3>1, <3>3, <3>4 DEF NewFile
  <2> QED BY <2>1, <2>2
<1>3. CASE CreateAdd(t)
  <2>1. r.file \in Files /\ "get_fd" \in Pcs BY <1>3 DEF CreateAdd, At, LocalsFit, Fit, Pcs
  <2>2. pc' \in [Threads -> Pcs] /\ loc' \in [Threads -> Locals]
    BY <1>1, <1>3, <2>1, StepTypes DEF CreateAdd, Return
  <2> QED BY <1>3, <2>1, <2>2 DEF CreateAdd
<1>4. CASE GetFd(t)
  <2>1. "add_open" \in Pcs BY DEF Pcs
  <2>2. PICK fd \in Keys : TakeFd(t, fd) BY <1>4 DEF GetFd
  <2>3. pc' \in [Threads -> Pcs] /\ loc' \in [Threads -> Locals]
    BY <1>1, <2>1, <2>2, StepTypes DEF TakeFd
  <2>4. free_fd_pool' \in Seq(Keys)
    <3>1. CASE free_fd_pool = <<>> BY <1>4, <3>1 DEF GetFd
    <3>2. CASE free_fd_pool # <<>>
      <4>1. free_fd_pool' = Tail(free_fd_pool) BY <1>4, <3>2 DEF GetFd
      <4> QED BY <3>2, <4>1
    <3> QED BY <3>1, <3>2
  <2> QED BY <1>4, <2>3, <2>4 DEF GetFd
<1>5. CASE AddOpenFile(t)
  <2>1. r.file \in Files /\ "inc_link" \in Pcs
    BY <1>5 DEF AddOpenFile, At, LocalsFit, Fit, OpenPcs, Pcs
  <2>2. pc' \in [Threads -> Pcs] /\ loc' \in [Threads -> Locals]
    BY <1>1, <1>5, <2>1, StepTypes DEF AddOpenFile
  <2> QED BY <1>1, <1>5, <2>1, <2>2 DEF AddOpenFile
<1>6. CASE IncLink(t)
  <2>1. r.file \in Files /\ "close" \in Pcs
    BY <1>6 DEF IncLink, At, LocalsFit, Fit, OpenPcs, Pcs
  <2>2. pc' \in [Threads -> Pcs] /\ loc' \in [Threads -> Locals]
    BY <1>1, <1>6, <2>1, StepTypes DEF IncLink, Return
  <2>3. file' \in [Files -> File] BY <1>6, <2>1, LinkTypes DEF IncLink
  <2>4. handle' \in [Handles -> OpenHandle]
    <3>1. \A p \in Paths \cup {NoName}, b \in BOOLEAN :
             [open |-> TRUE, fd |-> r.fd, file |-> r.file, node |-> p, lost |-> b] \in OpenHandle
      BY <1>1, <2>1 DEF OpenHandle
    <3>2. r.name \in Paths \cup {NoName} BY DEF Locals
    <3>3. RemovalDecided(r.file) \in BOOLEAN BY <2>1 DEF RemovalDecided, File
    <3> DEFINE v == [open |-> TRUE, fd |-> r.fd, file |-> r.file,
                     node |-> IF r.op = "tmpfile" THEN NoName ELSE r.name,
                     lost |-> RemovalDecided(r.file)]
    <3>4. v \in OpenHandle BY <3>1, <3>2, <3>3
    <3>5. handle' = handle \/ handle' = [handle EXCEPT ![r.h] = v] BY <1>6 DEF IncLink
    <3> HIDE DEF v
    <3> QED BY <3>4, <3>5
  <2> QED BY <1>6, <2>2, <2>3, <2>4 DEF IncLink
<1>7. CASE Close(t)
  <2> DEFINE f == open_files[r.fd]
  <2>1. "close_check" \in Pcs /\ f \in Files \cup {NoFile} BY <1>1 DEF Pcs
  <2>2. pc' \in [Threads -> Pcs] /\ loc' \in [Threads -> Locals]
    BY <1>1, <1>7, <2>1, StepTypes DEF Close, Return
  <2>3. file' \in [Files -> File] BY <1>7, <2>1, LinkTypes DEF Close
  <2> QED BY <1>7, <2>2, <2>3 DEF Close
<1>8. CASE CloseCheck(t)
  <2> DEFINE l == IF LastLink(loc[t].file) THEN "close_remove" ELSE "close_end"
  <2>1. l \in Pcs /\ Step(t, l, loc[t]) BY <1>8 DEF Pcs, CloseCheck
  <2> HIDE DEF l
  <2>2. pc' \in [Threads -> Pcs] /\ loc' \in [Threads -> Locals] BY <1>1, <2>1, StepTypes
  <2> QED BY <1>8, <2>2 DEF CloseCheck
<1>9. CASE CloseRemove(t)
  <2>1. "close_end" \in Pcs BY DEF Pcs
  <2>2. pc' \in [Threads -> Pcs] /\ loc' \in [Threads -> Locals]
    BY <1>1, <1>9, <2>1, StepTypes DEF CloseRemove
  <2>3. file' \in [Files -> File] BY <1>9 DEF CloseRemove, File
  <2> QED BY <1>9, <2>2, <2>3 DEF CloseRemove, NamesRemoved
<1>10. CASE CloseEnd(t)
  <2>1. pc' \in [Threads -> Pcs] /\ loc' \in [Threads -> Locals]
    BY <1>1, <1>10, StepTypes DEF CloseEnd, Return
  <2>2. free_fd_pool' \in Seq(Keys) BY <1>1, <1>10 DEF CloseEnd, PutFd
  <2> QED BY <1>10, <2>1, <2>2 DEF CloseEnd
<1>11. CASE UnlinkCheck(t)
  <2> DEFINE l == IF file[loc[t].file].nlink > 0 THEN "unlink_mark" ELSE "unlink_blocks"
  <2>1. l \in Pcs /\ Step(t, l, loc[t]) BY <1>11 DEF Pcs, UnlinkCheck
  <2> HIDE DEF l
  <2>2. pc' \in [Threads -> Pcs] /\ loc' \in [Threads -> Locals] BY <1>1, <2>1, StepTypes
  <2> QED BY <1>11, <2>2 DEF UnlinkCheck
<1>12. CASE UnlinkMark(t)
  <2>1. pc' \in [Threads -> Pcs] /\ loc' \in [Threads -> Locals]
    BY <1>1, <1>12, StepTypes DEF UnlinkMark, Return
  <2>2. file' \in [Files -> File] BY <1>12 DEF UnlinkMark, File
  <2>3. handle' \in [Handles -> OpenHandle] BY <1>12, NodesForgotten DEF UnlinkMark
  <2> QED BY <1>12, <2>1, <2>2, <2>3 DEF UnlinkMark
<1>13. CASE UnlinkBlocks(t)
  <2>1. "unlink_names" \in Pcs BY DEF Pcs
  <2>2. pc' \in [Threads -> Pcs] /\ loc' \in [Threads -> Locals]
    BY <1>1, <1>13, <2>1, StepTypes DEF UnlinkBlocks
  <2>3. file' \in [Files -> File] BY <1>13 DEF UnlinkBlocks, File
  <2> QED BY <1>13, <2>2, <2>3 DEF UnlinkBlocks
<1>14. CASE UnlinkNames(t)
  <2>1. pc' \in [Threads -> Pcs] /\ loc' \in [Threads -> Locals]
    BY <1>1, <1>14, StepTypes DEF UnlinkNames, Return
  <2>2. handle' \in [Handles -> OpenHandle] BY <1>14, NodesForgotten DEF UnlinkNames
  <2> QED BY <1>14, <2>1, <2>2 DEF UnlinkNames, NamesRemoved
<1>15. CASE LockSet(t)
  <2>1. pc' \in [Threads -> Pcs] /\ loc' \in [Threads -> Locals]
    BY <1>1, <1>15, StepTypes DEF LockSet, Return
  <2>2. file' \in [Files -> File] BY <1>15 DEF LockSet, File
  <2> QED BY <1>15, <2>1, <2>2 DEF LockSet
<1> QED BY <1>2, <1>3, <1>4, <1>5, <1>6, <1>7, <1>8, <1>9, <1>10, <1>11, <1>12, <1>13,
      <1>14, <1>15 DEF Continue

-----------------------------------------------------------------------------
(* Locals *)

\* A thread moves on to a place that its locals fit.
LEMMA StepFits ==
    ASSUME TypeOK, LocalsFit, NEW t \in Threads, NEW l \in Pcs, NEW r \in Locals, Step(t, l, r),
           Fit(l, r),
           IF l \in ClosePcs THEN fh_mutex \in {t, NoThread} /\ fh_mutex' = t
           ELSE fh_mutex' = fh_mutex \/ (fh_mutex' = NoThread /\ fh_mutex = t)
    PROVE  LocalsFit'
<1>1. /\ pc'[t] = l /\ loc'[t] = r
      /\ \A u \in Threads : u # t => pc'[u] = pc[u] /\ loc'[u] = loc[u]
  BY StepTypes
<1>2. ASSUME NEW u \in Threads, pc'[u] \in ClosePcs PROVE fh_mutex' = u
  BY <1>1, <1>2, OpenAssumption DEF LocalsFit
<1>3. ASSUME NEW u \in Threads PROVE Fit(pc'[u], loc'[u])
  BY <1>1 DEF LocalsFit
<1> QED BY <1>2, <1>3 DEF LocalsFit

\* The start of a request.
LEMMA CallFits ==
    ASSUME TypeOK, LocalsFit, NEW t \in Threads, Call(t)
    PROVE  LocalsFit'
<1> USE Blanks DEF Openers, OpenPcs, ClosePcs, UnlinkPcs
<1>1. ASSUME UNCHANGED <<pc, loc, fh_mutex>> PROVE LocalsFit' BY <1>1 DEF LocalsFit
<1>2. ASSUME NEW d \in Streams, OpenDirectory(t, d) \/ CloseDirectory(t, d) PROVE LocalsFit'
  BY <1>1, <1>2 DEF OpenDirectory, CloseDirectory
<1>3. ASSUME NEW h \in Handles, NEW n \in Paths, NEW creat \in BOOLEAN, NEW excl \in BOOLEAN,
             OpenLookup(t, h, n, creat, excl)
      PROVE  LocalsFit'
  <2> DEFINE op == IF creat THEN "create" ELSE "open"
             r == [NoLoc EXCEPT !.op = op, !.name = n, !.file = created_files[n], !.h = h]
  <2>1. r \in Locals BY DEF TypeOK, NoLoc, Locals, AllOps
  <2>2. "get_fd" \in Pcs /\ "new_file" \in Pcs BY DEF Pcs
  <2>3. created_files[n] \in Files \cup {NoFile} BY DEF TypeOK
  <2>4. created_files[n] # NoFile => Fit("get_fd", r) BY <2>3 DEF Fit, NoLoc
  <2>5. n \in Names => Fit("new_file", r) BY DEF Fit, NoLoc
  <2> HIDE DEF r
  <2>6. CASE created_files[n] # NoFile /\ Step(t, "get_fd", r)
    BY <1>3, <2>1, <2>2, <2>4, <2>6, StepFits DEF OpenLookup
  <2>7. CASE n \in Names /\ Step(t, "new_file", r)
    BY <1>3, <2>1, <2>2, <2>5, <2>7, StepFits DEF OpenLookup
  <2>8. CASE UNCHANGED <<pc, loc>> BY <1>1, <1>3, <2>8 DEF OpenLookup
  <2> QED BY <1>3, <2>6, <2>7, <2>8 DEF OpenLookup, GetCreatedFile, r
<1>4. ASSUME NEW h \in Handles, OpenTmp(t, h) PROVE LocalsFit'
  <2> DEFINE r == [NoLoc EXCEPT !.op = "tmpfile", !.h = h]
  <2>1. r \in Locals /\ "new_file" \in Pcs BY DEF NoLoc, Locals, AllOps, Pcs
  <2>2. Fit("new_file", r) BY DEF Fit, NoLoc
  <2> QED BY <1>4, <2>1, <2>2, StepFits DEF OpenTmp
<1>5. ASSUME NEW n \in Names, Mknod(t, n) PROVE LocalsFit'
  <2> DEFINE r == [NoLoc EXCEPT !.op = "mknod", !.name = n]
  <2>1. r \in Locals /\ "new_file" \in Pcs BY DEF NoLoc, Locals, AllOps, Pcs, Paths
  <2>2. Fit("new_file", r) BY DEF Fit, NoLoc
  <2> QED BY <1>5, <2>1, <2>2, StepFits DEF Mknod
<1>6. \A h \in Handles : handle[h].node \in Paths \cup {NoName} BY DEF TypeOK, OpenHandle
<1>7. \A h \in Handles : handle[h].fd \in Keys BY DEF TypeOK, OpenHandle
<1>8. ASSUME NEW h \in Handles, Flush(t, h) PROVE LocalsFit'
  <2> DEFINE fd == handle[h].fd
             r == [NoLoc EXCEPT !.op = "flush", !.name = handle[h].node, !.file = open_files[fd], !.h = h]
             l == IF open_files[fd] = NoFile THEN "close" ELSE "get_fd"
  <2>1. r \in Locals /\ l \in Pcs BY <1>6, <1>7 DEF TypeOK, NoLoc, Locals, AllOps, Pcs
  <2>2. Step(t, l, r) BY <1>8 DEF Flush, Dup
  <2>3. Fit(l, r) /\ l \notin ClosePcs BY <1>7 DEF Fit, NoLoc, TypeOK
  <2> HIDE DEF r, l
  <2> QED BY <1>8, <2>1, <2>2, <2>3, StepFits DEF Flush
<1>9. ASSUME NEW h \in Handles, Release(t, h) PROVE LocalsFit'
  <2> DEFINE fd == handle[h].fd
             r == [NoLoc EXCEPT !.op = "release", !.name = handle[h].node, !.fd = fd]
  <2>1. r \in Locals /\ "close" \in Pcs BY <1>6, <1>7 DEF NoLoc, Locals, AllOps, Pcs
  <2>2. Step(t, "close", r) BY <1>9 DEF Release
  <2>3. Fit("close", r) BY DEF Fit, NoLoc
  <2> HIDE DEF r
  <2> QED BY <1>9, <2>1, <2>2, <2>3, StepFits DEF Release
<1>10. ASSUME NEW h \in Handles, Lock(t, h) PROVE LocalsFit'
  <2> DEFINE f == open_files[handle[h].fd]
             r == [NoLoc EXCEPT !.op = "lock", !.name = handle[h].node, !.file = f, !.h = h]
  <2>1. f \in Files BY <1>7, <1>10 DEF Lock, TypeOK
  <2>3. r \in Locals /\ "lock_set" \in Pcs BY <1>6, <2>1 DEF NoLoc, Locals, AllOps, Pcs
  <2>4. Step(t, "lock_set", r) BY <1>10 DEF Lock
  <2>5. Fit("lock_set", r) BY <2>1 DEF Fit, NoLoc
  <2> HIDE DEF r
  <2> QED BY <1>10, <2>3, <2>4, <2>5, StepFits DEF Lock
<1>11. ASSUME NEW n \in Paths, Unlink(t, n) PROVE LocalsFit'
  <2> DEFINE r == [NoLoc EXCEPT !.op = "unlink", !.name = n, !.file = created_files[n]]
  <2>1. r \in Locals /\ "unlink_check" \in Pcs BY DEF TypeOK, NoLoc, Locals, AllOps, Pcs
  <2>2. Step(t, "unlink_check", r) /\ created_files[n] # NoFile
    BY <1>11 DEF Unlink, GetCreatedFile
  <2>3. created_files[n] \in Files BY <2>2 DEF TypeOK
  <2>4. Fit("unlink_check", r) BY <2>3 DEF Fit, NoLoc
  <2> HIDE DEF r
  <2> QED BY <1>11, <2>1, <2>2, <2>4, StepFits DEF Unlink
<1> QED BY <1>2, <1>3, <1>4, <1>5, <1>8, <1>9, <1>10, <1>11 DEF Call

\* The steps within an operation.
LEMMA ContinueFits ==
    ASSUME TypeOK, LocalsFit, NEW t \in Threads, Continue(t)
    PROVE  LocalsFit'
<1> USE Blanks DEF Openers, OpenPcs, ClosePcs, UnlinkPcs
<1> DEFINE r == loc[t]
<1>1. /\ r \in Locals /\ r.fd \in Keys /\ "idle" \in Pcs
      /\ \A f \in Files : [r EXCEPT !.file = f] \in Locals
      /\ \A fd \in Keys : [r EXCEPT !.fd = fd] \in Locals
  BY DEF TypeOK, Locals, Pcs
<1>2. Fit(pc[t], r) /\ (pc[t] \in ClosePcs => fh_mutex = t) BY DEF LocalsFit
<1>3. Fit("idle", NoLoc) BY DEF Fit, NoLoc
<1>4. CASE NewFile(t)
  <2>1. CASE OpenFails(t) /\ UNCHANGED file
    BY <1>1, <1>3, <1>4, <2>1, StepFits DEF NewFile, OpenFails, Return
  <2>2. CASE ~(OpenFails(t) /\ UNCHANGED file)
    <3>1. PICK f \in Files, p \in Paths :
             Step(t, "create_add", [loc[t] EXCEPT !.file = f, !.name = p])
      BY <1>2, <1>4, <2>2 DEF NewFile, At, Fit, Paths
    <3>2. [r EXCEPT !.file = f, !.name = p] \in Locals /\ "create_add" \in Pcs
      BY <1>1 DEF Locals, Pcs
    <3>3. Fit("create_add", [r EXCEPT !.file = f, !.name = p])
      BY <1>1, <1>2, <1>4 DEF NewFile, At, Fit, Locals
    <3> QED BY <1>4, <3>1, <3>2, <3>3, StepFits DEF NewFile
  <2> QED BY <2>1, <2>2
<1>5. CASE CreateAdd(t)
  <2>1. "get_fd" \in Pcs BY DEF Pcs
  <2>2. r.op # "mknod" => Fit("get_fd", r) BY <1>2, <1>5 DEF CreateAdd, At, Fit
  <2> QED BY <1>1, <1>3, <1>5, <2>1, <2>2, StepFits DEF CreateAdd, Return
<1>6. CASE GetFd(t)
  <2>0. PICK fd \in Keys : TakeFd(t, fd) BY <1>6 DEF GetFd, TypeOK
  <2>1. Step(t, "add_open", [r EXCEPT !.fd = fd]) BY <2>0 DEF TakeFd
  <2>2. "add_open" \in Pcs BY DEF Pcs
  <2>3. Fit("add_open", [r EXCEPT !.fd = fd]) BY <1>1, <1>2, <1>6 DEF GetFd, At, Fit, Locals
  <2> QED BY <1>1, <1>6, <2>1, <2>2, <2>3, StepFits DEF GetFd
<1>7. CASE AddOpenFile(t)
  <2>1. "inc_link" \in Pcs BY DEF Pcs
  <2>2. Fit("inc_link", r) BY <1>2, <1>7 DEF AddOpenFile, At, Fit
  <2> QED BY <1>1, <1>7, <2>1, <2>2, StepFits DEF AddOpenFile
<1>8. CASE IncLink(t)
  <2>1. "close" \in Pcs BY DEF Pcs
  <2>2. r.op = "flush" => Fit("close", r) BY <1>2, <1>8 DEF IncLink, At, Fit
  <2> QED BY <1>1, <1>3, <1>8, <2>1, <2>2, StepFits DEF IncLink, Return
<1>9. CASE Close(t)
  <2> DEFINE f == open_files[r.fd]
             s == [r EXCEPT !.file = f]
  <2>1. "close_check" \in Pcs /\ f \in Files \cup {NoFile} BY <1>1 DEF Pcs, TypeOK
  <2>2. f # NoFile => s \in Locals /\ Fit("close_check", s)
    BY <1>1, <1>2, <1>9, <2>1 DEF Close, At, Fit, Locals
  <2>3. f # NoFile => Step(t, "close_check", s) /\ fh_mutex = NoThread /\ fh_mutex' = t
    BY <1>9 DEF Close, MetaGuard
  <2>4. f = NoFile => Step(t, "idle", NoLoc) /\ fh_mutex' = fh_mutex
    BY <1>9 DEF Close, Return
  <2> HIDE DEF f, s
  <2> QED BY <1>1, <1>3, <2>1, <2>2, <2>3, <2>4, StepFits
<1>10. CASE CloseCheck(t)
  <2> DEFINE l == IF LastLink(loc[t].file) THEN "close_remove" ELSE "close_end"
  <2>1. l \in Pcs /\ l \in ClosePcs /\ Step(t, l, r) BY <1>10 DEF Pcs, CloseCheck
  <2>2. Fit(l, r) BY <1>2, <1>10 DEF CloseCheck, At, Fit
  <2>3. fh_mutex = t /\ fh_mutex' = t BY <1>2, <1>10 DEF CloseCheck, At
  <2> HIDE DEF l
  <2> QED BY <1>1, <2>1, <2>2, <2>3, StepFits
<1>11. CASE CloseRemove(t)
  <2>1. "close_end" \in Pcs BY DEF Pcs
  <2>2. Fit("close_end", r) /\ fh_mutex = t /\ fh_mutex' = t
    BY <1>2, <1>11 DEF CloseRemove, At, Fit
  <2> QED BY <1>1, <1>11, <2>1, <2>2, StepFits DEF CloseRemove
<1>12. CASE CloseEnd(t)
  <2>1. fh_mutex = t /\ fh_mutex' = NoThread BY <1>2, <1>12 DEF CloseEnd, At
  <2> QED BY <1>1, <1>3, <1>12, <2>1, StepFits DEF CloseEnd, Return
<1>13. CASE UnlinkCheck(t)
  <2> DEFINE l == IF file[loc[t].file].nlink > 0 THEN "unlink_mark" ELSE "unlink_blocks"
  <2>1. l \in Pcs /\ l \notin ClosePcs /\ Step(t, l, r) BY <1>13 DEF Pcs, UnlinkCheck
  <2>2. Fit(l, r) BY <1>2, <1>13 DEF UnlinkCheck, At, Fit
  <2> HIDE DEF l
  <2> QED BY <1>1, <1>13, <2>1, <2>2, StepFits DEF UnlinkCheck
<1>14. CASE UnlinkMark(t)
  BY <1>1, <1>3, <1>14, StepFits DEF UnlinkMark, Return
<1>15. CASE UnlinkBlocks(t)
  <2>1. "unlink_names" \in Pcs BY DEF Pcs
  <2>2. Fit("unlink_names", r) BY <1>2, <1>15 DEF UnlinkBlocks, At, Fit
  <2> QED BY <1>1, <1>15, <2>1, <2>2, StepFits DEF UnlinkBlocks
<1>16. CASE UnlinkNames(t)
  BY <1>1, <1>3, <1>16, StepFits DEF UnlinkNames, Return
<1>17. CASE LockSet(t)
  BY <1>1, <1>3, <1>17, StepFits DEF LockSet, Return
<1> QED BY <1>4, <1>5, <1>6, <1>7, <1>8, <1>9, <1>10, <1>11, <1>12, <1>13, <1>14, <1>15,
      <1>16, <1>17 DEF Continue

-----------------------------------------------------------------------------
(* Descriptors: each is in one place *)

Unique == PoolOnce /\ NotPooled /\ OneHolder

\* What is in the pool once its head is taken.
LEMMA PoolTail ==
    ASSUME TypeOK, PoolOnce, free_fd_pool # <<>>, free_fd_pool' = Tail(free_fd_pool)
    PROVE  /\ PoolOnce' /\ Head(free_fd_pool) \in Keys
           /\ \A fd \in Keys : InPool(fd)' => InPool(fd)
           /\ \A fd \in Keys : fd = Head(free_fd_pool) =>
                 InPool(fd) /\ (fd # BadFd => ~InPool(fd)')
<1> DEFINE s == free_fd_pool
           n == Len(s)
<1>1. /\ s \in Seq(Keys) /\ n \in Nat \ {0} /\ Len(Tail(s)) = n - 1
      /\ \A i \in 1 .. n - 1 : Tail(s)[i] = s[i + 1]
      /\ Head(s) = s[1]
  BY DEF TypeOK
<1>2. Len(free_fd_pool') = n - 1 /\ \A i \in 1 .. n - 1 : free_fd_pool'[i] = s[i + 1]
  BY <1>1
<1>3. PoolOnce' BY <1>1, <1>2 DEF PoolOnce
<1>4. InPool(Head(s)) /\ Head(s) \in Keys BY <1>1 DEF InPool
<1>5. \A fd \in Keys : InPool(fd)' => InPool(fd)
  <2> SUFFICES ASSUME NEW fd \in Keys, NEW i \in 1 .. n - 1, s[i + 1] = fd
               PROVE  \E j \in 1 .. n : s[j] = fd
    BY <1>2 DEF InPool
  <2>1. i + 1 \in 1 .. n BY <1>1
  <2> QED BY <2>1
<1>6. ASSUME NEW fd \in Keys, fd = s[1], fd # BadFd PROVE ~InPool(fd)'
  <2> SUFFICES ASSUME NEW i \in 1 .. n - 1, s[i + 1] = s[1] PROVE FALSE
    BY <1>2, <1>6 DEF InPool
  <2>1. i + 1 \in 1 .. n /\ 1 \in 1 .. n /\ i + 1 # 1 BY <1>1
  <2> QED BY <1>6, <2>1 DEF PoolOnce
<1> QED BY <1>1, <1>3, <1>4, <1>5, <1>6

\* What is in the pool once a descriptor is put back.
LEMMA PoolAppend ==
    ASSUME TypeOK, PoolOnce, NEW x \in Keys, x # BadFd => ~InPool(x),
           free_fd_pool' = Append(free_fd_pool, x)
    PROVE  /\ PoolOnce'
           /\ \A fd \in Keys : InPool(fd)' <=> InPool(fd) \/ fd = x
<1> DEFINE s == free_fd_pool
           n == Len(s)
<1>1. /\ s \in Seq(Keys) /\ n \in Nat
      /\ Len(free_fd_pool') = n + 1 /\ free_fd_pool'[n + 1] = x
      /\ \A i \in 1 .. n : free_fd_pool'[i] = s[i]
  BY DEF TypeOK
<1>2. \A i \in 1 .. n + 1 : i \in 1 .. n \/ i = n + 1 BY <1>1
<1>3. \A i \in 1 .. n : x # BadFd => s[i] # x BY DEF InPool
<1>4. PoolOnce' BY <1>1, <1>2, <1>3 DEF PoolOnce
<1>5. ASSUME NEW fd \in Keys PROVE InPool(fd)' <=> InPool(fd) \/ fd = x
  <2>1. InPool(fd)' <=> \E i \in 1 .. n + 1 : free_fd_pool'[i] = fd BY <1>1 DEF InPool
  <2>2. n + 1 \in 1 .. n + 1 /\ \A i \in 1 .. n : i \in 1 .. n + 1 BY <1>1
  <2> QED BY <1>1, <1>2, <2>1, <2>2 DEF InPool
<1> QED BY <1>4, <1>5

\* A step that hands out no descriptor.
LEMMA NothingTaken ==
    ASSUME Unique, UNCHANGED <<free_fd_pool, stream>>,
           \A h \in Handles : handle'[h].fd \in {handle[h].fd, BadFd},
           \A u \in Threads : Held(u)' \in {Held(u), BadFd}
    PROVE  Unique'
<1>1. PoolOnce' BY DEF Unique, PoolOnce
<1>2. \A fd : InPool(fd)' <=> InPool(fd) BY DEF InPool
<1>3. NotPooled' BY <1>2 DEF Unique, NotPooled
<1>4. OneHolder' BY DEF Unique, OneHolder
<1> QED BY <1>1, <1>3, <1>4 DEF Unique

\* A thread takes a descriptor from the pool, or the -1 of an empty one.
LEMMA ThreadTakes ==
    ASSUME TypeOK, Unique, NEW t \in Threads, Held(t) = BadFd, UNCHANGED <<stream, handle>>,
           \A u \in Threads \ {t} : Held(u)' = Held(u),
           IF free_fd_pool = <<>> THEN UNCHANGED free_fd_pool /\ Held(t)' = BadFd
           ELSE free_fd_pool' = Tail(free_fd_pool) /\ Held(t)' = Head(free_fd_pool)
    PROVE  Unique'
<1>1. CASE free_fd_pool = <<>> BY <1>1, NothingTaken
<1>2. CASE free_fd_pool # <<>>
  <2>0. PICK x \in Keys : x = Head(free_fd_pool) BY <1>2, PoolTail DEF Unique
  <2>1. /\ PoolOnce' /\ InPool(x)
        /\ \A fd \in Keys : InPool(fd)' => InPool(fd)
        /\ x # BadFd => ~InPool(x)'
        /\ Held(t)' = x
    BY <1>2, <2>0, PoolTail DEF Unique
  <2>2. /\ \A h \in Handles : handle[h].fd \in Keys
        /\ \A d \in Streams : stream[d] \in Keys
        /\ \A u \in Threads : Held(u) \in Keys
    BY Blanks DEF TypeOK, OpenHandle, Held, Locals
  <2>3. /\ \A h \in Handles : handle[h].fd # BadFd => handle[h].fd # x
        /\ \A d \in Streams : stream[d] # BadFd => stream[d] # x
        /\ \A u \in Threads : Held(u) # BadFd => Held(u) # x
    BY <2>1 DEF Unique, NotPooled
  <2>4. NotPooled' BY <2>1, <2>2 DEF Unique, NotPooled
  <2>5. OneHolder' BY <2>1, <2>3 DEF Unique, OneHolder
  <2> QED BY <2>1, <2>4, <2>5 DEF Unique
<1> QED BY <1>1, <1>2

\* So does a directory stream.
LEMMA StreamTakes ==
    ASSUME TypeOK, Unique, NEW d \in Streams,
           free_fd_pool # <<>>, free_fd_pool' = Tail(free_fd_pool),
           stream' = [stream EXCEPT ![d] = Head(free_fd_pool)], UNCHANGED handle,
           \A u \in Threads : Held(u)' = Held(u)
    PROVE  Unique'
<1>1. PICK x \in Keys : x = Head(free_fd_pool) BY PoolTail DEF Unique
<1>2. /\ PoolOnce' /\ InPool(x)
      /\ \A fd \in Keys : InPool(fd)' => InPool(fd)
      /\ x # BadFd => ~InPool(x)'
  BY <1>1, PoolTail DEF Unique
<1>3. /\ \A h \in Handles : handle[h].fd \in Keys
      /\ \A c \in Streams : stream[c] \in Keys
      /\ \A u \in Threads : Held(u) \in Keys
      /\ stream'[d] = x /\ \A c \in Streams : c # d => stream'[c] = stream[c]
  BY <1>1, Blanks DEF TypeOK, OpenHandle, Held, Locals
<1>4. /\ \A h \in Handles : handle[h].fd # BadFd => handle[h].fd # x
      /\ \A c \in Streams : stream[c] # BadFd => stream[c] # x
      /\ \A u \in Threads : Held(u) # BadFd => Held(u) # x
  BY <1>2 DEF Unique, NotPooled
<1>5. NotPooled' BY <1>2, <1>3 DEF Unique, NotPooled
<1>6. OneHolder' BY <1>2, <1>3, <1>4 DEF Unique, OneHolder
<1> QED BY <1>2, <1>5, <1>6 DEF Unique

\* A thread or a stream puts back the descriptor x that it has.
LEMMA PutBack ==
    ASSUME TypeOK, Unique, NEW x \in Keys, free_fd_pool' = Append(free_fd_pool, x),
           UNCHANGED handle,
           \A u \in Threads : Held(u)' = IF Held(u) = x THEN BadFd ELSE Held(u),
           \A d \in Streams : stream'[d] = IF stream[d] = x THEN BadFd ELSE stream[d],
           x # BadFd => ~InPool(x) /\ \A h \in Handles : handle[h].fd # x
    PROVE  Unique'
<1>1. PoolOnce' /\ \A fd \in Keys : InPool(fd)' <=> InPool(fd) \/ fd = x
  BY PoolAppend DEF Unique
<1>2. /\ \A h \in Handles : handle[h].fd \in Keys
      /\ \A d \in Streams : stream[d] \in Keys
      /\ \A u \in Threads : Held(u) \in Keys
  BY Blanks DEF TypeOK, OpenHandle, Held, Locals
<1>3. NotPooled' BY <1>1, <1>2 DEF Unique, NotPooled
<1>4. OneHolder' BY DEF Unique, OneHolder
<1> QED BY <1>1, <1>3, <1>4 DEF Unique

\* The descriptor of a handle goes to the thread that closes it, or that of a thread
\* to the handle it opens.
LEMMA Moved ==
    ASSUME TypeOK, Unique, NEW t \in Threads, NEW h \in Handles, NEW x \in Keys,
           UNCHANGED <<free_fd_pool, stream>>,
           \A u \in Threads : u # t => Held(u)' = Held(u),
           \A g \in Handles : g # h => handle'[g].fd = handle[g].fd,
           \/ handle[h].fd = x /\ Held(t)' = x /\ handle'[h].fd = BadFd
           \/ Held(t) = x /\ handle'[h].fd = x /\ Held(t)' = BadFd
    PROVE  Unique'
<1>1. PoolOnce' BY DEF Unique, PoolOnce
<1>2. \A fd : InPool(fd)' <=> InPool(fd) BY DEF InPool
<1>3. NotPooled' BY <1>2 DEF Unique, NotPooled
<1>4. OneHolder' BY DEF Unique, OneHolder
<1> QED BY <1>1, <1>3, <1>4 DEF Unique

-----------------------------------------------------------------------------
(* Handles *)

HandlesHeld == HandlesBlank /\ HandlesInUse

\* A thread goes on with the same handle, or without one.
LEMMA GoesOn ==
    ASSUME TypeOK, HandlesHeld, NEW t \in Threads, NEW l \in Pcs, NEW r \in Locals, Step(t, l, r),
           handle' = handle,
           r.h \in Handles => r.h = loc[t].h /\ r.op = loc[t].op
    PROVE  HandlesHeld'
<1>1. /\ pc'[t] = l /\ loc'[t] = r
      /\ \A u \in Threads : u # t => pc'[u] = pc[u] /\ loc'[u] = loc[u]
  BY StepTypes
<1>2. HandlesBlank' BY DEF HandlesHeld, HandlesBlank
<1>3. HandlesInUse' BY <1>1 DEF HandlesHeld, HandlesInUse
<1> QED BY <1>2, <1>3 DEF HandlesHeld

\* A thread that opens a handle is done with it.
LEMMA Opened ==
    ASSUME TypeOK, HandlesHeld, NEW t \in Threads, Return(t), NEW v \in OpenHandle, v.open,
           loc[t].h \in Handles, loc[t].op \in Openers,
           handle' = [handle EXCEPT ![loc[t].h] = v]
    PROVE  HandlesHeld'
<1>1. /\ loc'[t] = NoLoc
      /\ \A u \in Threads : u # t => loc'[u] = loc[u]
  BY Blanks, StepTypes DEF Return, Pcs
<1>2. NoLoc.h \notin Handles BY OpenAssumption DEF NoLoc
<1>3. \A u \in Threads : u # t => loc[u].h # loc[t].h
  BY DEF HandlesHeld, HandlesInUse
<1>4. \A g \in Handles : handle'[g] = IF g = loc[t].h THEN v ELSE handle[g]
  BY DEF TypeOK
<1>5. HandlesBlank' BY <1>4 DEF HandlesHeld, HandlesBlank
<1>6. HandlesInUse' BY <1>1, <1>2, <1>3, <1>4 DEF HandlesHeld, HandlesInUse
<1> QED BY <1>5, <1>6 DEF HandlesHeld

\* A request comes for a handle: to open it, if nobody uses it, or to use it.
LEMMA Requested ==
    ASSUME TypeOK, HandlesHeld, NEW t \in Threads, NEW l \in Pcs, NEW r \in Locals, Step(t, l, r),
           handle' = handle, r.h \in Handles,
           IF r.op \in Openers THEN ~handle[r.h].open /\ Unused(r.h)
           ELSE handle[r.h].open
    PROVE  HandlesHeld'
<1>1. /\ loc'[t] = r
      /\ \A u \in Threads : u # t => loc'[u] = loc[u]
  BY StepTypes
<1>2. HandlesBlank' BY DEF HandlesHeld, HandlesBlank
<1>3. HandlesInUse' BY <1>1 DEF HandlesHeld, HandlesInUse, Unused
<1> QED BY <1>2, <1>3 DEF HandlesHeld

\* A handle that nobody uses changes.
LEMMA Changed ==
    ASSUME TypeOK, HandlesHeld, NEW h \in Handles, Unused(h), NEW v \in OpenHandle,
           v.open \/ v = Closed, handle' = [handle EXCEPT ![h] = v],
           \A u \in Threads : loc'[u] = loc[u] \/ loc'[u].h \notin Handles
    PROVE  HandlesHeld'
<1>1. \A g \in Handles : handle'[g] = IF g = h THEN v ELSE handle[g]
  BY DEF TypeOK
<1>2. HandlesBlank' BY <1>1 DEF HandlesHeld, HandlesBlank
<1>3. HandlesInUse' BY <1>1 DEF HandlesHeld, HandlesInUse, Unused
<1> QED BY <1>2, <1>3 DEF HandlesHeld

\* The start of a request.
LEMMA CallHandles ==
    ASSUME TypeOK, LocalsFit, HandlesHeld, NEW t \in Threads, Call(t)
    PROVE  HandlesHeld'
<1> USE Blanks
<1>1. /\ pc[t] = "idle" => loc[t] = NoLoc
      /\ NoLoc.h = NoHandle /\ NoHandle \notin Handles
  BY OpenAssumption DEF LocalsFit, Fit, NoLoc
<1>2. ASSUME NEW d \in Streams, OpenDirectory(t, d) \/ CloseDirectory(t, d) PROVE HandlesHeld'
  BY <1>2 DEF OpenDirectory, CloseDirectory, HandlesHeld, HandlesBlank, HandlesInUse
<1>3. ASSUME NEW h \in Handles, NEW n \in Paths, NEW creat \in BOOLEAN, NEW excl \in BOOLEAN,
             OpenLookup(t, h, n, creat, excl)
      PROVE  HandlesHeld'
  <2> DEFINE op == IF creat THEN "create" ELSE "open"
             r == [NoLoc EXCEPT !.op = op, !.name = n, !.file = created_files[n], !.h = h]
  <2>1. r \in Locals /\ r.h = h /\ r.op \in Openers BY DEF TypeOK, NoLoc, Locals, AllOps, Openers
  <2>2. "get_fd" \in Pcs /\ "new_file" \in Pcs BY DEF Pcs
  <2>3. Unused(h) /\ ~handle[h].open BY <1>3 DEF OpenLookup
  <2> HIDE DEF r
  <2>4. CASE (Step(t, "get_fd", r) \/ Step(t, "new_file", r)) /\ UNCHANGED handle
    BY <2>1, <2>2, <2>3, <2>4, Requested
  <2>5. CASE handle' = [handle EXCEPT ![h] = Failed] /\ UNCHANGED <<pc, loc>>
    <3>1. Failed.open BY DEF Failed
    <3> QED BY <2>3, <2>5, <3>1, Changed
  <2> QED BY <1>3, <2>4, <2>5 DEF OpenLookup, GetCreatedFile, r
<1>4. ASSUME NEW h \in Handles, OpenTmp(t, h) PROVE HandlesHeld'
  <2> DEFINE r == [NoLoc EXCEPT !.op = "tmpfile", !.h = h]
  <2>1. r \in Locals /\ "new_file" \in Pcs /\ r.h = h /\ r.op \in Openers
    BY DEF NoLoc, Locals, AllOps, Pcs, Openers
  <2>2. Step(t, "new_file", r) /\ Unused(h) /\ ~handle[h].open /\ UNCHANGED handle
    BY <1>4 DEF OpenTmp
  <2> HIDE DEF r
  <2> QED BY <2>1, <2>2, Requested
<1>5. ASSUME NEW n \in Names, Mknod(t, n) PROVE HandlesHeld'
  <2> DEFINE r == [NoLoc EXCEPT !.op = "mknod", !.name = n]
  <2>1. r \in Locals /\ "new_file" \in Pcs /\ r.h \notin Handles
    BY <1>1 DEF NoLoc, Locals, AllOps, Pcs, Paths
  <2>2. Step(t, "new_file", r) /\ UNCHANGED handle BY <1>5 DEF Mknod
  <2> HIDE DEF r
  <2> QED BY <2>1, <2>2, GoesOn
<1>6. \A h \in Handles : handle[h].node \in Paths \cup {NoName} BY DEF TypeOK, OpenHandle
<1>7. \A h \in Handles : handle[h].fd \in Keys BY DEF TypeOK, OpenHandle
<1>8. ASSUME NEW h \in Handles, Flush(t, h) PROVE HandlesHeld'
  <2> DEFINE fd == handle[h].fd
             r == [NoLoc EXCEPT !.op = "flush", !.name = handle[h].node, !.file = open_files[fd], !.h = h]
             l == IF open_files[fd] = NoFile THEN "close" ELSE "get_fd"
  <2>1. r \in Locals /\ l \in Pcs /\ r.h = h /\ r.op \notin Openers
    BY <1>6, <1>7 DEF TypeOK, NoLoc, Locals, AllOps, Pcs, Openers
  <2>2. Step(t, l, r) /\ handle[h].open /\ UNCHANGED handle BY <1>8 DEF Flush, Dup
  <2> HIDE DEF r, l
  <2> QED BY <2>1, <2>2, Requested
<1>9. ASSUME NEW h \in Handles, Release(t, h) PROVE HandlesHeld'
  <2> DEFINE fd == handle[h].fd
             r == [NoLoc EXCEPT !.op = "release", !.name = handle[h].node, !.fd = fd]
  <2>1. r \in Locals /\ "close" \in Pcs /\ r.h \notin Handles
    BY <1>1, <1>6, <1>7 DEF NoLoc, Locals, AllOps, Pcs
  <2>2. Step(t, "close", r) /\ Unused(h) /\ handle' = [handle EXCEPT ![h] = Closed]
    BY <1>9 DEF Release
  <2> HIDE DEF r
  <2>3. \A u \in Threads : loc'[u] = loc[u] \/ loc'[u].h \notin Handles
    BY <2>1, <2>2, StepTypes
  <2> QED BY <2>2, <2>3, Changed
<1>10. ASSUME NEW h \in Handles, Lock(t, h) PROVE HandlesHeld'
  <2> DEFINE f == open_files[handle[h].fd]
             r == [NoLoc EXCEPT !.op = "lock", !.name = handle[h].node, !.file = f, !.h = h]
  <2>1. f \in Files BY <1>7, <1>10 DEF Lock, TypeOK
  <2>3. r \in Locals /\ "lock_set" \in Pcs /\ r.h = h /\ r.op \notin Openers
    BY <1>6, <2>1 DEF NoLoc, Locals, AllOps, Pcs, Openers
  <2>4. Step(t, "lock_set", r) /\ handle[h].open /\ UNCHANGED handle BY <1>10 DEF Lock
  <2> HIDE DEF r
  <2> QED BY <2>3, <2>4, Requested
<1>11. ASSUME NEW n \in Paths, Unlink(t, n) PROVE HandlesHeld'
  <2> DEFINE r == [NoLoc EXCEPT !.op = "unlink", !.name = n, !.file = created_files[n]]
  <2>1. r \in Locals /\ "unlink_check" \in Pcs /\ r.h \notin Handles
    BY <1>1 DEF TypeOK, NoLoc, Locals, AllOps, Pcs
  <2>2. Step(t, "unlink_check", r) /\ UNCHANGED handle BY <1>11 DEF Unlink, GetCreatedFile
  <2> HIDE DEF r
  <2> QED BY <2>1, <2>2, GoesOn
<1> QED BY <1>2, <1>3, <1>4, <1>5, <1>8, <1>9, <1>10, <1>11 DEF Call

\* The steps within an operation.
LEMMA ContinueHandles ==
    ASSUME TypeOK, LocalsFit, HandlesHeld, NEW t \in Threads, Continue(t)
    PROVE  HandlesHeld'
<1> USE Blanks
<1> DEFINE r == loc[t]
<1>1. /\ r \in Locals /\ r.fd \in Keys /\ "idle" \in Pcs
      /\ NoLoc.h = NoHandle /\ NoHandle \notin Handles
  BY OpenAssumption DEF TypeOK, Locals, Pcs, NoLoc
<1>2. Fit(pc[t], r) BY DEF LocalsFit
<1>3. ASSUME Return(t), UNCHANGED handle PROVE HandlesHeld'
  BY <1>1, <1>3, GoesOn DEF Return
<1>4. ASSUME NEW l \in Pcs, Step(t, l, r), UNCHANGED handle PROVE HandlesHeld'
  BY <1>1, <1>4, GoesOn
<1>5. ASSUME NEW l \in Pcs, NEW s \in Locals, s.h = r.h, s.op = r.op, Step(t, l, s),
             UNCHANGED handle
      PROVE  HandlesHeld'
  BY <1>5, GoesOn
<1>6. CASE NewFile(t)
  <2>1. CASE OpenFails(t) /\ UNCHANGED file
    <3>1. CASE r.h = NoHandle BY <1>3, <2>1, <3>1 DEF OpenFails
    <3>2. CASE r.h # NoHandle
      <4>1. r.h \in Handles BY <1>1, <3>2 DEF Locals
      <4>3. Failed.open BY DEF Failed
      <4>4. r.op \in Openers BY <1>1, <1>2, <1>6, <4>1 DEF NewFile, At, Fit
      <4>5. Return(t) /\ handle' = [handle EXCEPT ![loc[t].h] = Failed]
        BY <2>1, <3>2 DEF OpenFails
      <4> QED BY <4>1, <4>3, <4>4, <4>5, Opened
    <3> QED BY <3>1, <3>2
  <2>2. CASE ~(OpenFails(t) /\ UNCHANGED file)
    <3>1. PICK f \in Files, p \in Paths :
             /\ Step(t, "create_add", [loc[t] EXCEPT !.file = f, !.name = p])
             /\ UNCHANGED handle
      BY <1>2, <1>6, <2>2 DEF NewFile, At, Fit, Paths
    <3> DEFINE s == [r EXCEPT !.file = f, !.name = p]
    <3>2. s \in Locals /\ "create_add" \in Pcs /\ s.h = r.h /\ s.op = r.op
      BY <1>1 DEF Locals, Pcs
    <3> HIDE DEF s
    <3> QED BY <1>5, <3>1, <3>2 DEF s
  <2> QED BY <2>1, <2>2
<1>7. CASE CreateAdd(t)
  <2>1. "get_fd" \in Pcs BY DEF Pcs
  <2> QED BY <1>3, <1>4, <1>7, <2>1 DEF CreateAdd
<1>8. CASE GetFd(t)
  <2>1. PICK fd \in Keys : TakeFd(t, fd) BY <1>8 DEF GetFd, TypeOK
  <2> DEFINE s == [r EXCEPT !.fd = fd]
  <2>2. s \in Locals /\ "add_open" \in Pcs /\ s.h = r.h /\ s.op = r.op
    BY <1>1 DEF Locals, Pcs
  <2>3. Step(t, "add_open", s) /\ UNCHANGED handle BY <1>8, <2>1 DEF GetFd, TakeFd
  <2> HIDE DEF s
  <2> QED BY <1>5, <2>2, <2>3
<1>9. CASE AddOpenFile(t)
  <2>1. "inc_link" \in Pcs BY DEF Pcs
  <2> QED BY <1>4, <1>9, <2>1 DEF AddOpenFile
<1>10. CASE IncLink(t)
  <2>1. "close" \in Pcs BY DEF Pcs
  <2>2. CASE r.op = "flush" BY <1>4, <1>10, <2>1, <2>2 DEF IncLink
  <2>3. CASE r.op # "flush"
    <3> DEFINE v == [open |-> TRUE, fd |-> r.fd, file |-> r.file,
                     node |-> IF r.op = "tmpfile" THEN NoName ELSE r.name,
                     lost |-> RemovalDecided(r.file)]
    <3>1. v \in OpenHandle /\ v.open
      <4>1. r.file \in Files BY <1>2, <1>10 DEF IncLink, At, Fit, OpenPcs
      <4>2. RemovalDecided(r.file) \in BOOLEAN BY <4>1 DEF RemovalDecided, TypeOK, File
      <4> QED BY <1>1, <4>2 DEF OpenHandle, Locals
    <3>2. r.h \in Handles /\ r.op \in Openers
      BY <1>2, <1>10, <2>3 DEF IncLink, At, Fit, OpenPcs
    <3>3. Return(t) /\ handle' = [handle EXCEPT ![loc[t].h] = v] BY <1>10, <2>3 DEF IncLink
    <3> HIDE DEF v
    <3> QED BY <3>1, <3>2, <3>3, Opened
  <2> QED BY <2>2, <2>3
<1>11. CASE Close(t)
  <2> DEFINE f == open_files[r.fd]
             s == [r EXCEPT !.file = f]
  <2>1. "close_check" \in Pcs /\ f \in Files \cup {NoFile} BY <1>1 DEF Pcs, TypeOK
  <2>2. s \in Locals /\ s.h = r.h /\ s.op = r.op BY <1>1, <2>1 DEF Locals
  <2>3. UNCHANGED handle /\ (Step(t, "close_check", s) \/ Return(t)) BY <1>11 DEF Close
  <2> HIDE DEF f, s
  <2> QED BY <1>3, <1>5, <2>1, <2>2, <2>3
<1>12. CASE CloseCheck(t)
  <2>1. "close_remove" \in Pcs /\ "close_end" \in Pcs BY DEF Pcs
  <2> QED BY <1>4, <1>12, <2>1 DEF CloseCheck
<1>13. CASE CloseRemove(t)
  <2>1. "close_end" \in Pcs BY DEF Pcs
  <2> QED BY <1>4, <1>13, <2>1 DEF CloseRemove
<1>14. CASE UnlinkCheck(t)
  <2>1. "unlink_mark" \in Pcs /\ "unlink_blocks" \in Pcs BY DEF Pcs
  <2> QED BY <1>4, <1>14, <2>1 DEF UnlinkCheck
<1>15. CASE UnlinkBlocks(t)
  <2>1. "unlink_names" \in Pcs BY DEF Pcs
  <2> QED BY <1>4, <1>15, <2>1 DEF UnlinkBlocks
<1>16. CASE CloseEnd(t) \/ LockSet(t)
  BY <1>3, <1>16 DEF CloseEnd, LockSet
<1>17. CASE UnlinkMark(t) \/ UnlinkNames(t)
  <2>1. Return(t) /\ NodesUnlinked(r.name) BY <1>17 DEF UnlinkMark, UnlinkNames
  <2>2. \A h \in Handles : /\ handle'[h].open = handle[h].open
                           /\ handle[h] = Closed => handle'[h] = Closed
    BY <2>1, NodesForgotten
  <2>3. HandlesBlank' BY <2>2 DEF HandlesHeld, HandlesBlank
  <2>4. HandlesInUse'
    <3>1. loc'[t] = NoLoc /\ \A u \in Threads : u # t => loc'[u] = loc[u]
      BY <1>1, <2>1, StepTypes DEF Return
    <3> QED BY <1>1, <2>2, <3>1 DEF HandlesHeld, HandlesInUse
  <2> QED BY <2>3, <2>4 DEF HandlesHeld
<1> QED BY <1>6, <1>7, <1>8, <1>9, <1>10, <1>11, <1>12, <1>13, <1>14, <1>15, <1>16, <1>17
    DEF Continue

-----------------------------------------------------------------------------
(* Steps that leave the descriptors alone *)

Tabled == Unique /\ TableAgrees /\ HandleOwnFile /\ NoBadFd
Links == LinksCounted /\ LocksLinked

\* A step of thread t that touches neither the pool nor the table and enters or
\* leaves none of the places that have a descriptor.
Quiet(t) ==
    /\ UNCHANGED <<free_fd_pool, open_files, stream, exhausted>>
    /\ \A h \in Handles : handle'[h].fd = handle[h].fd /\ handle'[h].file = handle[h].file
    /\ \A u \in Threads : u # t => pc'[u] = pc[u] /\ loc'[u] = loc[u]
    /\ \/ pc'[t] = pc[t] /\ loc'[t] = loc[t]
       \/ pc[t] \in ClosePcs /\ pc'[t] \in ClosePcs /\ loc'[t] = loc[t]
       \/ /\ pc[t] \notin Counted \cup {"add_open"} /\ pc'[t] \notin Counted \cup {"add_open"}
          /\ pc'[t] = "close" => loc'[t].fd = BadFd

\* Such a step keeps what is said of descriptors, and the links.
LEMMA QuietTabled ==
    ASSUME TypeOK, Tabled, NEW t \in Threads, Quiet(t)
    PROVE  Tabled' /\ \A f \in Files : Linked(f)' = Linked(f)
<1> USE DEF Counted, ClosePcs
<1>1. \A u \in Threads : Held(u)' \in {Held(u), BadFd}
  BY DEF Quiet, Held, Takers
<1>2. Unique' BY <1>1, NothingTaken DEF Tabled, Quiet
<1>3. \A fd : InPool(fd)' <=> InPool(fd) BY DEF Quiet, InPool
<1>4. TableAgrees' BY <1>3 DEF Tabled, TableAgrees, Quiet, Held, Takers
<1>5. HandleOwnFile' BY DEF Tabled, HandleOwnFile, Quiet
<1>6. NoBadFd' BY <1>3 DEF Tabled, NoBadFd, Quiet
<1>7. ASSUME NEW f \in Files PROVE Linked(f)' = Linked(f) BY DEF Linked, Quiet
<1> QED BY <1>2, <1>4, <1>5, <1>6, <1>7 DEF Tabled

\* If it also keeps the link counts and takes no lock, the links still agree.
LEMMA QuietLinks ==
    ASSUME TypeOK, LocalsFit, Tabled, Links, NEW t \in Threads, Quiet(t), pc'[t] # "lock_set",
           \A f \in Files : /\ file'[f].nlink = file[f].nlink
                            /\ file'[f].locked = file[f].locked
    PROVE  Links'
<1>1. \A f \in Files : Linked(f)' = Linked(f) BY QuietTabled
<1>2. LinksCounted' BY <1>1 DEF Links, LinksCounted, Quiet
<1>3. ASSUME ~exhausted', NEW f \in Files, file'[f].locked PROVE Linked(f)' # {}
  BY <1>1, <1>3 DEF Links, LocksLinked, Quiet
<1>4. ASSUME ~exhausted', NEW u \in Threads, pc'[u] = "lock_set"
      PROVE  handle'[loc'[u].h].file = loc'[u].file
  <2>1. pc[u] = "lock_set" /\ loc'[u] = loc[u] BY <1>4 DEF Quiet
  <2>2. loc[u].h \in Handles BY <2>1 DEF LocalsFit, Fit
  <2> QED BY <1>4, <2>1, <2>2 DEF Links, LocksLinked, Quiet
<1> QED BY <1>2, <1>3, <1>4 DEF Links, LocksLinked

Descriptors == Tabled /\ Links

\* The files stay as they are.
LEMMA QuietFiles ==
    ASSUME TypeOK, LocalsFit, Descriptors, NEW t \in Threads, Quiet(t), pc'[t] # "lock_set",
           file' = file
    PROVE  Descriptors'
BY QuietTabled, QuietLinks DEF Descriptors

\* The requests that only look something up.
LEMMA LookupsQuiet ==
    ASSUME TypeOK, LocalsFit, HandlesHeld, Descriptors, NEW t \in Threads,
           \/ \E h \in Handles, n \in Paths, creat, excl \in BOOLEAN :
                 OpenLookup(t, h, n, creat, excl)
           \/ \E h \in Handles : OpenTmp(t, h) \/ Flush(t, h)
           \/ \E n \in Names : Mknod(t, n)
           \/ \E n \in Paths : Unlink(t, n)
    PROVE  Descriptors'
<1> USE Blanks DEF Counted, ClosePcs
<1>1. /\ pc \in [Threads -> Pcs] /\ loc \in [Threads -> Locals]
      /\ handle \in [Handles -> OpenHandle]
  BY DEF TypeOK
<1>2. ASSUME NEW h \in Handles, NEW n \in Paths, NEW creat \in BOOLEAN, NEW excl \in BOOLEAN,
             OpenLookup(t, h, n, creat, excl)
      PROVE  Quiet(t) /\ pc'[t] # "lock_set" /\ file' = file
  <2>1. pc[t] = "idle" /\ handle[h] = Closed
    BY <1>2 DEF OpenLookup, Start, HandlesHeld, HandlesBlank
  <2>2. /\ UNCHANGED <<free_fd_pool, open_files, file, stream, exhausted>>
        /\ \/ (\E r : Step(t, "get_fd", r) \/ Step(t, "new_file", r)) /\ UNCHANGED handle
           \/ handle' = [handle EXCEPT ![h] = Failed] /\ UNCHANGED <<pc, loc>>
    BY <1>2 DEF OpenLookup
  <2> QED BY <1>1, <2>1, <2>2 DEF Quiet, Step, Closed, Failed
<1>3. ASSUME NEW h \in Handles, OpenTmp(t, h)
      PROVE  Quiet(t) /\ pc'[t] # "lock_set" /\ file' = file
  BY <1>1, <1>3 DEF OpenTmp, Start, Step, Quiet
<1>4. ASSUME NEW h \in Handles, Flush(t, h)
      PROVE  Quiet(t) /\ pc'[t] # "lock_set" /\ file' = file
  <2>1. pc[t] = "idle" BY <1>4 DEF Flush, Start
  <2> DEFINE fd == handle[h].fd
             r == [NoLoc EXCEPT !.op = "flush", !.name = handle[h].node, !.file = open_files[fd], !.h = h]
             l == IF open_files[fd] = NoFile THEN "close" ELSE "get_fd"
  <2>2. Step(t, l, r) /\ r.fd = BadFd BY <1>4 DEF Flush, Dup, NoLoc
  <2>3. UNCHANGED <<free_fd_pool, open_files, file, handle, stream, exhausted>>
    BY <1>4 DEF Flush
  <2> HIDE DEF r
  <2> QED BY <1>1, <2>1, <2>2, <2>3 DEF Quiet, Step
<1>5. ASSUME NEW n \in Names, Mknod(t, n)
      PROVE  Quiet(t) /\ pc'[t] # "lock_set" /\ file' = file
  BY <1>1, <1>5 DEF Mknod, Start, Step, Quiet
<1>6. ASSUME NEW n \in Paths, Unlink(t, n)
      PROVE  Quiet(t) /\ pc'[t] # "lock_set" /\ file' = file
  BY <1>1, <1>6 DEF Unlink, Start, Step, Quiet
<1> QED BY <1>2, <1>3, <1>4, <1>5, <1>6, QuietFiles

\* A file is made, or none is left.
LEMMA NewFileQuiet ==
    ASSUME TypeOK, LocalsFit, HandlesHeld, Descriptors, NEW t \in Threads, NewFile(t)
    PROVE  Descriptors'
<1> USE Blanks DEF Counted, ClosePcs
<1>1. /\ pc \in [Threads -> Pcs] /\ loc \in [Threads -> Locals] /\ pc[t] = "new_file"
      /\ handle \in [Handles -> OpenHandle] /\ file \in [Files -> File] /\ Fit(pc[t], loc[t])
      /\ loc[t] \in Locals
  BY DEF TypeOK, NewFile, At, LocalsFit
<1>2. UNCHANGED <<free_fd_pool, open_files, stream, exhausted>> BY DEF NewFile
<1>3. CASE OpenFails(t) /\ UNCHANGED file
  <2>1. CASE loc[t].h = NoHandle
    BY <1>1, <1>2, <1>3, <2>1, QuietFiles DEF OpenFails, Return, Step, Quiet
  <2>2. CASE loc[t].h # NoHandle
    <3>1. loc[t].h \in Handles /\ loc[t].op \in Openers
      BY <1>1, <2>2 DEF Locals, Fit
    <3>2. handle[loc[t].h] = Closed
      BY <3>1 DEF HandlesHeld, HandlesBlank, HandlesInUse
    <3>3. handle' = [handle EXCEPT ![loc[t].h] = Failed] /\ Step(t, "idle", NoLoc)
      BY <1>3, <2>2 DEF OpenFails, Return
    <3>4. Quiet(t) /\ pc'[t] = "idle"
      BY <1>1, <1>2, <3>1, <3>2, <3>3 DEF Quiet, Step, Closed, Failed
    <3> QED BY <1>3, <3>4, QuietFiles
  <2> QED BY <2>1, <2>2
<1>4. CASE ~(OpenFails(t) /\ UNCHANGED file)
  <2>1. PICK f \in Files, p \in Paths, temp \in BOOLEAN :
           /\ file' = [file EXCEPT ![f].made = TRUE, ![f].name = p,
                                   ![f].temp = temp, ![f].kept = TRUE]
           /\ Step(t, "create_add", [loc[t] EXCEPT !.file = f, !.name = p])
           /\ UNCHANGED handle
    BY <1>1, <1>4 DEF NewFile, At, Fit, Paths
  <2>2. Quiet(t) /\ pc'[t] # "lock_set" BY <1>1, <1>2, <2>1 DEF Quiet, Step
  <2>3. \A g \in Files : file'[g].nlink = file[g].nlink /\ file'[g].locked = file[g].locked
    BY <1>1, <2>1 DEF File
  <2> QED BY <2>2, <2>3, QuietTabled, QuietLinks DEF Descriptors
<1> QED BY <1>3, <1>4

\* The steps of close and unlink that only change what is kept.
LEMMA RemovalsQuiet ==
    ASSUME TypeOK, LocalsFit, Descriptors, NEW t \in Threads,
           \/ CreateAdd(t) \/ CloseCheck(t) \/ CloseRemove(t) \/ UnlinkCheck(t)
           \/ UnlinkMark(t) \/ UnlinkBlocks(t) \/ UnlinkNames(t)
    PROVE  Descriptors'
<1> USE Blanks DEF Counted, ClosePcs
<1>1. /\ pc \in [Threads -> Pcs] /\ loc \in [Threads -> Locals] /\ file \in [Files -> File]
  BY DEF TypeOK
<1>2. Quiet(t) /\ pc'[t] # "lock_set"
  <2>1. CASE CreateAdd(t) \/ CloseCheck(t) \/ CloseRemove(t) \/ UnlinkCheck(t) \/ UnlinkBlocks(t)
    BY <1>1, <2>1 DEF CreateAdd, CloseCheck, CloseRemove, UnlinkCheck, UnlinkBlocks, At,
       Return, Step, Quiet
  <2>2. CASE UnlinkMark(t) \/ UnlinkNames(t)
    <3>1. NodesUnlinked(loc[t].name) BY <2>2 DEF UnlinkMark, UnlinkNames
    <3>2. \A h \in Handles : handle'[h].fd = handle[h].fd /\ handle'[h].file = handle[h].file
      BY <3>1, NodesForgotten
    <3> QED BY <1>1, <2>2, <3>2 DEF UnlinkMark, UnlinkNames, At, Return, Step, Quiet
  <2> QED BY <2>1, <2>2
<1>3. CASE file' = file BY <1>2, <1>3, QuietFiles
<1>4. CASE CloseRemove(t) \/ UnlinkMark(t) \/ UnlinkBlocks(t)
  <2>1. PICK f \in Files : \/ file' = [file EXCEPT ![f].kept = FALSE]
                           \/ file' = [file EXCEPT ![f].deleted = TRUE]
    BY <1>4 DEF CloseRemove, UnlinkMark, UnlinkBlocks, LocalsFit, Fit, At, UnlinkPcs
  <2>3. \A g \in Files : file'[g].nlink = file[g].nlink /\ file'[g].locked = file[g].locked
    BY <1>1, <2>1 DEF File
  <2> QED BY <1>2, <2>3, QuietTabled, QuietLinks DEF Descriptors
<1> QED BY <1>3, <1>4 DEF CreateAdd, CloseCheck, UnlinkCheck, UnlinkNames

-----------------------------------------------------------------------------
(* Steps that hand a descriptor on *)

\* The sets that are counted are finite.
LEMMA LinkedFinite ==
    ASSUME NEW f
    PROVE  IsFiniteSet(Keys) /\ IsFiniteSet(Linked(f)) /\ Cardinality(Linked(f)) \in Nat
<1>1. IsFiniteSet(Fds) BY OpenAssumption, FS_Interval DEF Fds
<1>2. IsFiniteSet(Keys) BY <1>1, FS_AddElement DEF Keys
<1>3. Linked(f) \in SUBSET Keys BY DEF Linked
<1>4. IsFiniteSet(Linked(f)) BY <1>2, <1>3, FS_Subset
<1> QED BY <1>2, <1>4, FS_CardinalityType

\* A handle open on a file has a descriptor that counts.
LEMMA HandleLinked ==
    ASSUME TypeOK, Tabled, ~exhausted, NEW h \in Handles, handle[h].file # NoFile
    PROVE  handle[h].file \in Files /\ handle[h].fd \in Linked(handle[h].file)
<1> DEFINE fd == handle[h].fd
<1>1. handle[h].file \in Files /\ fd \in Keys BY DEF TypeOK, OpenHandle
<1>2. fd # BadFd BY DEF Tabled, NoBadFd
<1>3. open_files[fd] = handle[h].file BY <1>2 DEF Tabled, HandleOwnFile
<1>4. ASSUME NEW u \in Threads, pc[u] \in Counted PROVE loc[u].fd # fd
  <2>1. Held(u) = loc[u].fd BY <1>4 DEF Held, Takers, Counted
  <2> QED BY <1>2, <2>1 DEF Tabled, Unique, OneHolder
<1> QED BY <1>1, <1>3, <1>4 DEF Linked

\* Steps that change no link.
LEMMA LinksSame ==
    ASSUME TypeOK, LocalsFit, Links, ~exhausted' => ~exhausted,
           ~exhausted' => \A f \in Files : Linked(f)' = Linked(f),
           \A f \in Files : file'[f].nlink = file[f].nlink /\ file'[f].locked = file[f].locked,
           \A u \in Threads : pc'[u] = "lock_set" =>
               /\ pc[u] = "lock_set" /\ loc'[u] = loc[u]
               /\ loc[u].h \in Handles => handle'[loc[u].h].file = handle[loc[u].h].file
    PROVE  Links'
<1>1. LinksCounted' BY DEF Links, LinksCounted
<1>2. ASSUME ~exhausted', NEW f \in Files, file'[f].locked PROVE Linked(f)' # {}
  BY <1>2 DEF Links, LocksLinked
<1>3. ASSUME ~exhausted', NEW u \in Threads, pc'[u] = "lock_set"
      PROVE  handle'[loc'[u].h].file = loc'[u].file
  <2>1. loc[u].h \in Handles BY <1>3 DEF LocalsFit, Fit
  <2> QED BY <1>3, <2>1 DEF Links, LocksLinked
<1> QED BY <1>1, <1>2, <1>3 DEF Links, LocksLinked

\* The test of the lock flag finds an open handle.
LEMMA LockKeeps ==
    ASSUME TypeOK, LocalsFit, Descriptors, NEW t \in Threads, NEW h \in Handles, Lock(t, h)
    PROVE  Descriptors'
<1> DEFINE fd == handle[h].fd
           f == open_files[fd]
<1>1. /\ pc \in [Threads -> Pcs] /\ loc \in [Threads -> Locals] /\ fd \in Keys
  BY DEF TypeOK, OpenHandle
<1>2. /\ pc[t] = "idle" /\ pc'[t] = "lock_set" /\ loc'[t].h = h /\ loc'[t].file = f
      /\ Quiet(t) /\ file' = file /\ handle' = handle /\ f # NoFile
  BY <1>1 DEF Lock, Start, Step, Quiet, Counted, ClosePcs, NoLoc
<1>3. Tabled' /\ \A g \in Files : Linked(g)' = Linked(g)
  BY <1>2, QuietTabled DEF Descriptors
<1>4. LinksCounted' BY <1>2, <1>3 DEF Descriptors, Links, LinksCounted, Quiet
<1>5. ~exhausted => handle[h].file = f
  BY <1>2 DEF Descriptors, Tabled, NoBadFd, HandleOwnFile
<1>6. LocksLinked' BY <1>2, <1>3, <1>5 DEF Descriptors, Links, LocksLinked, Quiet
<1> QED BY <1>3, <1>4, <1>6 DEF Descriptors, Links

\* The lock is set: the handle it was asked for is still open.
LEMMA LockSetKeeps ==
    ASSUME TypeOK, LocalsFit, Descriptors, NEW t \in Threads, LockSet(t)
    PROVE  Descriptors'
<1> DEFINE f == loc[t].file
           h == loc[t].h
<1>1. /\ pc \in [Threads -> Pcs] /\ loc \in [Threads -> Locals] /\ file \in [Files -> File]
      /\ pc[t] = "lock_set" /\ Fit(pc[t], loc[t])
  BY DEF TypeOK, LockSet, At, LocalsFit
<1>2. f \in Files /\ h \in Handles BY <1>1 DEF Fit
<1>3. Quiet(t) /\ pc'[t] = "idle" /\ file' = [file EXCEPT ![f].locked = TRUE] /\ handle' = handle
  BY <1>1 DEF LockSet, Return, Step, Quiet, Counted, ClosePcs
<1>4. Tabled' /\ \A g \in Files : Linked(g)' = Linked(g)
  BY <1>3, QuietTabled DEF Descriptors
<1>5. \A g \in Files : /\ file'[g].nlink = file[g].nlink
                       /\ g # f => file'[g].locked = file[g].locked
  BY <1>1, <1>3 DEF File
<1>6. LinksCounted' BY <1>3, <1>4, <1>5 DEF Descriptors, Links, LinksCounted, Quiet
<1>7. ASSUME ~exhausted PROVE Linked(f) # {}
  <2>1. handle[h].file = f BY <1>1, <1>7 DEF Descriptors, Links, LocksLinked
  <2> QED BY <1>2, <1>7, <2>1, HandleLinked, OpenAssumption DEF Descriptors
<1>8. LocksLinked'
  <2>1. ASSUME ~exhausted', NEW g \in Files, file'[g].locked PROVE Linked(g)' # {}
    <3>1. ~exhausted /\ Linked(g)' = Linked(g) BY <1>3, <1>4, <2>1 DEF Quiet
    <3>2. CASE g = f BY <1>7, <3>1, <3>2
    <3>3. CASE g # f BY <1>5, <2>1, <3>1, <3>3 DEF Descriptors, Links, LocksLinked
    <3> QED BY <3>2, <3>3
  <2>2. ASSUME ~exhausted', NEW u \in Threads, pc'[u] = "lock_set"
        PROVE  handle'[loc'[u].h].file = loc'[u].file
    <3>1. u # t /\ pc[u] = "lock_set" /\ loc'[u] = loc[u] BY <1>3, <2>2 DEF Quiet
    <3> QED BY <1>3, <2>2, <3>1 DEF Descriptors, Links, LocksLinked, Quiet
  <2> QED BY <2>1, <2>2 DEF LocksLinked
<1> QED BY <1>4, <1>6, <1>8 DEF Descriptors, Links

\* A directory stream is opened.
LEMMA OpenDirectoryKeeps ==
    ASSUME TypeOK, LocalsFit, Descriptors, NEW t \in Threads, NEW d \in Streams, OpenDirectory(t, d)
    PROVE  Descriptors'
<1>1. /\ free_fd_pool # <<>> /\ free_fd_pool' = Tail(free_fd_pool)
      /\ stream' = [stream EXCEPT ![d] = Head(free_fd_pool)]
      /\ UNCHANGED <<open_files, file, handle, pc, loc, exhausted>>
  BY DEF OpenDirectory
<1>2. \A u \in Threads : Held(u)' = Held(u) BY <1>1 DEF Held
<1>3. Unique' BY <1>1, <1>2, StreamTakes DEF Descriptors, Tabled
<1>4. PICK x \in Keys : x = Head(free_fd_pool)
  BY <1>1, PoolTail DEF Descriptors, Tabled, Unique
<1>5. InPool(x) /\ \A fd \in Keys : InPool(fd)' => InPool(fd)
  BY <1>1, <1>4, PoolTail DEF Descriptors, Tabled, Unique
<1>6. x # BadFd => open_files[x] = NoFile
  BY <1>5 DEF Descriptors, Tabled, TableAgrees, Keys
<1>7. TableAgrees' BY <1>1, <1>2, <1>5, Blanks DEF Descriptors, Tabled, TableAgrees
<1>8. HandleOwnFile'
  BY <1>1, <1>4, <1>6 DEF Descriptors, Tabled, HandleOwnFile, TypeOK
<1>9. NoBadFd' BY <1>1, <1>5, Blanks DEF Descriptors, Tabled, NoBadFd
<1>10. \A f \in Files : Linked(f)' = Linked(f) BY <1>1 DEF Linked
<1>11. Links' BY <1>1, <1>10, LinksSame DEF Descriptors
<1> QED BY <1>3, <1>7, <1>8, <1>9, <1>11 DEF Descriptors, Tabled

\* A directory stream is closed.
LEMMA CloseDirectoryKeeps ==
    ASSUME TypeOK, LocalsFit, Descriptors, NEW t \in Threads, NEW d \in Streams, CloseDirectory(t, d)
    PROVE  Descriptors'
<1>1. PICK x \in Keys : x = stream[d] BY DEF TypeOK
<1>2. /\ x # BadFd /\ free_fd_pool' = Append(free_fd_pool, x)
      /\ stream' = [stream EXCEPT ![d] = BadFd]
      /\ UNCHANGED <<open_files, file, handle, pc, loc, exhausted>>
  BY <1>1 DEF CloseDirectory, PutFd
<1>3. /\ ~InPool(x) /\ \A u \in Threads : Held(u) # x
      /\ \A h \in Handles : handle[h].fd # x
      /\ \A c \in Streams : c # d => stream[c] # x
      /\ open_files[x] = NoFile
  BY <1>1, <1>2 DEF Descriptors, Tabled, Unique, NotPooled, OneHolder, HandleOwnFile
<1>4. /\ \A c \in Streams : stream'[c] = IF stream[c] = x THEN BadFd ELSE stream[c]
      /\ \A u \in Threads : Held(u)' = Held(u)
  BY <1>1, <1>2, <1>3 DEF TypeOK, Held
<1>5. \A u \in Threads : Held(u)' = IF Held(u) = x THEN BadFd ELSE Held(u) BY <1>3, <1>4
<1>6. Unique' BY <1>2, <1>3, <1>4, <1>5, PutBack DEF Descriptors, Tabled
<1>7. \A fd \in Keys : InPool(fd)' <=> InPool(fd) \/ fd = x
  BY <1>2, <1>3, PoolAppend DEF Descriptors, Tabled, Unique
<1>8. TableAgrees'
  BY <1>2, <1>3, <1>4, <1>7, Blanks DEF Descriptors, Tabled, TableAgrees
<1>9. HandleOwnFile' BY <1>2, <1>4 DEF Descriptors, Tabled, HandleOwnFile
<1>10. NoBadFd' BY <1>2, <1>7, Blanks DEF Descriptors, Tabled, NoBadFd
<1>11. \A f \in Files : Linked(f)' = Linked(f) BY <1>2 DEF Linked
<1>12. Links' BY <1>2, <1>11, LinksSame DEF Descriptors
<1> QED BY <1>6, <1>8, <1>9, <1>10, <1>12 DEF Descriptors, Tabled

\* A thread takes a descriptor, or the -1 that means there is none.
LEMMA GetFdKeeps ==
    ASSUME TypeOK, LocalsFit, Descriptors, NEW t \in Threads, GetFd(t)
    PROVE  Descriptors'
<1> USE DEF Counted, ClosePcs
<1> DEFINE empty == free_fd_pool = <<>>
<1>1. pc \in [Threads -> Pcs] /\ loc \in [Threads -> Locals] /\ loc[t] \in Locals BY DEF TypeOK
<1>2. PICK x \in Keys : x = IF empty THEN BadFd ELSE Head(free_fd_pool)
  BY PoolTail, Blanks DEF TypeOK
<1>3. /\ pc[t] = "get_fd" /\ TakeFd(t, x)
      /\ UNCHANGED <<open_files, file, handle, stream>>
      /\ IF empty THEN exhausted' /\ UNCHANGED free_fd_pool
         ELSE exhausted' = exhausted /\ free_fd_pool' = Tail(free_fd_pool)
  BY <1>2 DEF GetFd, At
<1>4. /\ pc'[t] = "add_open" /\ loc'[t].fd = x
      /\ \A u \in Threads : u # t => pc'[u] = pc[u] /\ loc'[u] = loc[u]
  BY <1>1, <1>3 DEF TakeFd, Step, Locals
<1>5. /\ Held(t) = BadFd /\ Held(t)' = x
      /\ \A u \in Threads \ {t} : Held(u)' = Held(u)
  BY <1>3, <1>4 DEF Held, Takers
<1>6. Unique' BY <1>2, <1>3, <1>5, ThreadTakes DEF Descriptors, Tabled
<1>7. /\ \A fd \in Keys : InPool(fd)' => InPool(fd)
      /\ x # BadFd => InPool(x)
      /\ ~empty => InPool(x)
  <2>1. CASE empty BY <1>2, <1>3, <2>1 DEF InPool
  <2>2. CASE ~empty BY <1>2, <1>3, <2>2, PoolTail DEF Descriptors, Tabled, Unique
  <2> QED BY <2>1, <2>2
<1>8. x # BadFd => open_files[x] = NoFile
  BY <1>7 DEF Descriptors, Tabled, TableAgrees, Keys
<1>9. TableAgrees'
  BY <1>3, <1>4, <1>5, <1>7, <1>8, Blanks DEF Descriptors, Tabled, TableAgrees
<1>10. HandleOwnFile' BY <1>3 DEF Descriptors, Tabled, HandleOwnFile
<1>11. NoBadFd' BY <1>2, <1>3, <1>4, <1>7, Blanks DEF Descriptors, Tabled, NoBadFd
<1>12. \A f \in Files : Linked(f)' = Linked(f) BY <1>3, <1>4 DEF Linked
<1>13. \A u \in Threads : pc'[u] = "lock_set" => pc[u] = "lock_set" /\ loc'[u] = loc[u]
  BY <1>4
<1>14. ~exhausted' => ~exhausted BY <1>3
<1>15. Links' BY <1>3, <1>12, <1>13, <1>14, LinksSame DEF Descriptors
<1> QED BY <1>6, <1>9, <1>10, <1>11, <1>15 DEF Descriptors, Tabled

\* The table gets the file; the link is not counted yet.
LEMMA AddOpenFileKeeps ==
    ASSUME TypeOK, LocalsFit, Descriptors, NEW t \in Threads, AddOpenFile(t)
    PROVE  Descriptors'
<1> USE DEF Counted, ClosePcs
<1>1. /\ pc \in [Threads -> Pcs] /\ loc \in [Threads -> Locals] /\ loc[t] \in Locals
      /\ open_files \in [Keys -> Files \cup {NoFile}]
  BY DEF TypeOK
<1>2. PICK x \in Keys : x = loc[t].fd BY <1>1 DEF Locals
<1>3. /\ pc[t] = "add_open" /\ pc'[t] = "inc_link" /\ loc' = loc
      /\ \A u \in Threads : u # t => pc'[u] = pc[u]
      /\ open_files' = [open_files EXCEPT ![x] = loc[t].file]
      /\ UNCHANGED <<free_fd_pool, file, handle, stream, exhausted>>
  BY <1>1, <1>2 DEF AddOpenFile, At, Step
<1>4. Held(t) = x /\ \A u \in Threads : Held(u)' = Held(u)
  BY <1>2, <1>3 DEF Held, Takers
<1>5. Unique' BY <1>3, <1>4, NothingTaken DEF Descriptors, Tabled
<1>6. /\ open_files'[x] = loc[t].file
      /\ \A fd \in Keys : fd # x => open_files'[fd] = open_files[fd]
      /\ \A fd : InPool(fd)' <=> InPool(fd)
  BY <1>1, <1>3 DEF InPool
<1>7. x # BadFd => /\ ~InPool(x) /\ \A u \in Threads : u # t => Held(u) # x
                   /\ \A h \in Handles : handle[h].fd # x
                   /\ \A d \in Streams : stream[d] # x
                   /\ open_files[x] = NoFile
  BY <1>2, <1>3, <1>4 DEF Descriptors, Tabled, Unique, NotPooled, OneHolder, TableAgrees
<1>8. /\ \A h \in Handles : handle[h].fd \in Keys
      /\ \A d \in Streams : stream[d] \in Keys
      /\ \A u \in Threads : loc[u].fd \in Keys
  BY DEF TypeOK, OpenHandle, Locals
<1>9. TableAgrees'
  <2>1. ASSUME NEW fd \in Fds, InPool(fd)' PROVE open_files'[fd] = NoFile
    BY <1>6, <1>7, <2>1, Blanks DEF Descriptors, Tabled, TableAgrees
  <2>2. ASSUME NEW u \in Threads, Held(u)' # BadFd
        PROVE  /\ pc'[u] = "add_open" => open_files'[loc'[u].fd] = NoFile
               /\ pc'[u] \in Counted => open_files'[loc'[u].fd] = loc'[u].file
    <3>1. CASE u = t BY <1>2, <1>3, <1>6, <3>1
    <3>2. CASE u # t /\ pc[u] \in Takers
      <4>1. Held(u) = loc[u].fd /\ Held(u) # BadFd BY <1>4, <2>2, <3>2 DEF Held
      <4>2. loc[u].fd # x BY <1>7, <3>2, <4>1
      <4> QED BY <1>3, <1>6, <1>8, <3>2, <4>1, <4>2 DEF Descriptors, Tabled, TableAgrees
    <3>3. CASE u # t /\ pc[u] \notin Takers BY <1>3, <3>3 DEF Takers
    <3> QED BY <3>1, <3>2, <3>3
  <2> QED BY <2>1, <2>2 DEF TableAgrees
<1>10. HandleOwnFile'
  BY <1>3, <1>6, <1>7, <1>8 DEF Descriptors, Tabled, HandleOwnFile
<1>11. NoBadFd'
  BY <1>2, <1>3, <1>6, Blanks DEF Descriptors, Tabled, NoBadFd
<1>12. ASSUME ~exhausted', NEW f \in Files PROVE Linked(f)' = Linked(f)
  <2>1. x # BadFd BY <1>2, <1>3, <1>12 DEF Descriptors, Tabled, NoBadFd
  <2>2. x \notin Linked(f) /\ x \notin Linked(f)'
    BY <1>2, <1>3, <1>7, <2>1, OpenAssumption DEF Linked
  <2>3. \A fd \in Keys : fd # x => (fd \in Linked(f)' <=> fd \in Linked(f))
    BY <1>2, <1>3, <1>6 DEF Linked
  <2> QED BY <2>2, <2>3 DEF Linked
<1>13. \A u \in Threads : pc'[u] = "lock_set" => pc[u] = "lock_set" /\ loc'[u] = loc[u]
  BY <1>3
<1>14. Links' BY <1>3, <1>12, <1>13, LinksSame DEF Descriptors
<1> QED BY <1>5, <1>9, <1>10, <1>11, <1>14 DEF Descriptors, Tabled

\* A handle is released: its descriptor is the closing thread's.
LEMMA ReleaseKeeps ==
    ASSUME TypeOK, LocalsFit, Descriptors, NEW t \in Threads, NEW h \in Handles, Release(t, h)
    PROVE  Descriptors'
<1> USE DEF Counted, ClosePcs
<1>1. /\ pc \in [Threads -> Pcs] /\ loc \in [Threads -> Locals] /\ loc[t] \in Locals
      /\ handle \in [Handles -> OpenHandle]
  BY DEF TypeOK
<1>2. PICK x \in Keys : x = handle[h].fd BY <1>1 DEF OpenHandle
<1>3. /\ pc[t] = "idle" /\ pc'[t] = "close" /\ loc'[t].fd = x
      /\ \A u \in Threads : u # t => pc'[u] = pc[u] /\ loc'[u] = loc[u]
      /\ handle' = [handle EXCEPT ![h] = Closed]
      /\ UNCHANGED <<free_fd_pool, open_files, file, stream, exhausted>>
      /\ Unused(h)
  BY <1>1, <1>2 DEF Release, Step, NoLoc
<1>4. /\ Held(t)' = x /\ \A u \in Threads : u # t => Held(u)' = Held(u)
      /\ handle'[h].fd = BadFd /\ handle'[h].file = NoFile
      /\ \A g \in Handles : g # h => handle'[g] = handle[g]
  BY <1>1, <1>3 DEF Held, Takers, Closed
<1>5. Unique' BY <1>2, <1>3, <1>4, Moved DEF Descriptors, Tabled
<1>6. \A fd : InPool(fd)' <=> InPool(fd) BY <1>3 DEF InPool
<1>7. TableAgrees' BY <1>3, <1>4, <1>6 DEF Descriptors, Tabled, TableAgrees
<1>8. HandleOwnFile' BY <1>3, <1>4 DEF Descriptors, Tabled, HandleOwnFile
<1>9. NoBadFd' BY <1>3, <1>4, <1>6 DEF Descriptors, Tabled, NoBadFd
<1>10. \A f \in Files : Linked(f)' = Linked(f) BY <1>3 DEF Linked
<1>11. ASSUME NEW u \in Threads, pc'[u] = "lock_set"
       PROVE  /\ pc[u] = "lock_set" /\ loc'[u] = loc[u]
              /\ loc[u].h \in Handles => handle'[loc[u].h].file = handle[loc[u].h].file
  <2>1. u # t BY <1>3, <1>11
  <2>2. loc[u].h # h BY <1>3 DEF Unused
  <2> QED BY <1>3, <1>4, <1>11, <2>1, <2>2
<1>12. Links' BY <1>3, <1>10, <1>11, LinksSame DEF Descriptors
<1> QED BY <1>5, <1>7, <1>8, <1>9, <1>12 DEF Descriptors, Tabled

\* The link is counted; the descriptor goes to the handle, or is closed again.
LEMMA IncLinkKeeps ==
    ASSUME TypeOK, LocalsFit, HandlesHeld, Descriptors, NEW t \in Threads, IncLink(t)
    PROVE  Descriptors'
<1> USE DEF Counted, ClosePcs
<1>1. /\ pc \in [Threads -> Pcs] /\ loc \in [Threads -> Locals] /\ loc[t] \in Locals
      /\ handle \in [Handles -> OpenHandle] /\ file \in [Files -> File]
      /\ Fit(pc[t], loc[t]) /\ pc[t] = "inc_link"
  BY DEF TypeOK, LocalsFit, IncLink, At
<1>2. PICK x \in Keys, f \in Files, h \in Handles :
         x = loc[t].fd /\ f = loc[t].file /\ h = loc[t].h
  BY <1>1 DEF Locals, Fit, OpenPcs
<1>3. loc[t].op \in Openers \cup {"flush"} BY <1>1 DEF Fit, OpenPcs
<1> DEFINE flush == loc[t].op = "flush"
           v == [open |-> TRUE, fd |-> x, file |-> f,
                 node |-> IF loc[t].op = "tmpfile" THEN NoName ELSE loc[t].name,
                 lost |-> RemovalDecided(f)]
<1>4. /\ file' = [file EXCEPT ![f].nlink = @ + 1]
      /\ IF flush THEN Step(t, "close", loc[t]) /\ handle' = handle
         ELSE Step(t, "idle", NoLoc) /\ handle' = [handle EXCEPT ![h] = v]
      /\ UNCHANGED <<free_fd_pool, open_files, stream, exhausted>>
  BY <1>2 DEF IncLink, Return
<1>5. /\ pc'[t] = IF flush THEN "close" ELSE "idle"
      /\ flush => loc'[t] = loc[t]
      /\ \A u \in Threads : u # t => pc'[u] = pc[u] /\ loc'[u] = loc[u]
  BY <1>1, <1>4 DEF Step
<1>6. /\ Held(t) = x /\ Held(t)' = IF flush THEN x ELSE BadFd
      /\ \A u \in Threads : u # t => Held(u)' = Held(u)
  BY <1>1, <1>2, <1>5 DEF Held, Takers
<1>7. ~flush => /\ handle'[h] = v /\ v.fd = x /\ v.file = f
                /\ \A g \in Handles : g # h => handle'[g] = handle[g]
  BY <1>1, <1>3, <1>4
<1>8. Unique'
  <2>1. CASE flush BY <1>4, <1>6, <2>1, NothingTaken DEF Descriptors, Tabled
  <2>2. CASE ~flush
    <3>1. handle'[h].fd = x /\ \A g \in Handles : g # h => handle'[g].fd = handle[g].fd
      BY <1>7, <2>2
    <3> HIDE DEF v
    <3> QED BY <1>3, <1>4, <1>6, <2>2, <3>1, Moved DEF Descriptors, Tabled
  <2> QED BY <2>1, <2>2
<1>9. \A fd : InPool(fd)' <=> InPool(fd) BY <1>4 DEF InPool
<1>10. x # BadFd => open_files[x] = f
  BY <1>1, <1>2, <1>6 DEF Descriptors, Tabled, TableAgrees
<1> HIDE DEF v
<1>11. TableAgrees' BY <1>4, <1>5, <1>6, <1>9 DEF Descriptors, Tabled, TableAgrees
<1>12. HandleOwnFile' BY <1>4, <1>7, <1>10 DEF Descriptors, Tabled, HandleOwnFile
<1>13. ~exhausted => x # BadFd BY <1>1, <1>2 DEF Descriptors, Tabled, NoBadFd
<1>14. NoBadFd' BY <1>4, <1>5, <1>7, <1>9, <1>13 DEF Descriptors, Tabled, NoBadFd
<1>15. ASSUME ~exhausted
       PROVE  /\ x \notin Linked(f) /\ Linked(f)' = Linked(f) \cup {x}
              /\ \A g \in Files : g # f => Linked(g)' = Linked(g)
  <2>1. \A u \in Threads : pc[u] \in Counted /\ u # t => loc[u].fd # x
    BY <1>6, <1>13, <1>15 DEF Descriptors, Tabled, Unique, OneHolder, Held, Takers
  <2>2. open_files'[x] = f BY <1>4, <1>10, <1>13, <1>15
  <2>3. x \notin Linked(f) BY <1>1, <1>2 DEF Linked
  <2>4. \A g \in Files : x \in Linked(g)' <=> g = f
    BY <1>4, <1>5, <2>1, <2>2 DEF Linked
  <2>5. \A g \in Files, fd \in Keys : fd # x => (fd \in Linked(g)' <=> fd \in Linked(g))
    BY <1>1, <1>2, <1>4, <1>5 DEF Linked
  <2>6. \A g \in Files : g # f => x \notin Linked(g)
    BY <1>10, <1>13, <1>15 DEF Linked
  <2> QED BY <2>3, <2>4, <2>5, <2>6 DEF Linked
<1>16. /\ file'[f].nlink = file[f].nlink + 1
       /\ \A g \in Files : /\ g # f => file'[g].nlink = file[g].nlink
                           /\ file'[g].locked = file[g].locked
  BY <1>1, <1>3, <1>4 DEF File
<1>17. LinksCounted'
  <2> SUFFICES ASSUME ~exhausted, NEW g \in Files
               PROVE  file'[g].nlink = Cardinality(Linked(g)')
    BY <1>4 DEF LinksCounted
  <2>1. CASE g # f BY <1>15, <1>16, <2>1 DEF Descriptors, Links, LinksCounted
  <2>2. CASE g = f
    <3>1. Cardinality(Linked(f) \cup {x}) = Cardinality(Linked(f)) + 1
      BY <1>15, LinkedFinite, FS_AddElement
    <3> QED BY <1>3, <1>15, <1>16, <2>2, <3>1 DEF Descriptors, Links, LinksCounted
  <2> QED BY <2>1, <2>2
<1>18. LocksLinked'
  <2>1. ASSUME ~exhausted', NEW g \in Files, file'[g].locked PROVE Linked(g)' # {}
    BY <1>4, <1>15, <1>16, <2>1 DEF Descriptors, Links, LocksLinked
  <2>2. ASSUME ~exhausted', NEW u \in Threads, pc'[u] = "lock_set"
        PROVE  handle'[loc'[u].h].file = loc'[u].file
    <3>1. u # t /\ pc[u] = "lock_set" /\ loc'[u] = loc[u] BY <1>5, <2>2
    <3>2. handle[loc[u].h].file = loc[u].file BY <1>4, <2>2, <3>1 DEF Descriptors, Links, LocksLinked
    <3>3. loc[u].h \in Handles BY <3>1 DEF LocalsFit, Fit
    <3>4. ~flush => loc[u].h # h BY <1>2, <1>3, <3>1 DEF HandlesHeld, HandlesInUse
    <3> QED BY <1>4, <1>7, <3>1, <3>2, <3>3, <3>4
  <2> QED BY <2>1, <2>2 DEF LocksLinked
<1> QED BY <1>8, <1>11, <1>12, <1>14, <1>17, <1>18 DEF Descriptors, Tabled, Links

\* The link is given up, and the lock with it.
LEMMA CloseKeeps ==
    ASSUME TypeOK, LocalsFit, Descriptors, NEW t \in Threads, Close(t)
    PROVE  Descriptors'
<1> USE DEF Counted, ClosePcs
<1>1. /\ pc \in [Threads -> Pcs] /\ loc \in [Threads -> Locals] /\ loc[t] \in Locals
      /\ file \in [Files -> File] /\ open_files \in [Keys -> Files \cup {NoFile}]
      /\ pc[t] = "close"
  BY DEF TypeOK, Close, At
<1>2. PICK x \in Keys, f \in Files \cup {NoFile} : x = loc[t].fd /\ f = open_files[x]
  BY <1>1 DEF Locals
<1>3. UNCHANGED <<free_fd_pool, open_files, handle, stream, exhausted>> BY DEF Close
<1>4. CASE f = NoFile
  <2>1. Quiet(t) /\ pc'[t] = "idle" /\ file' = file
    BY <1>1, <1>2, <1>3, <1>4 DEF Close, Return, Step, Quiet
  <2> QED BY <2>1, QuietFiles
<1>5. CASE f # NoFile
  <2>1. /\ f \in Files /\ file' = DecLink(f)
        /\ Step(t, "close_check", [loc[t] EXCEPT !.file = f])
    BY <1>1, <1>2, <1>5 DEF Close
  <2>2. /\ pc'[t] = "close_check" /\ loc'[t].fd = x /\ loc'[t].file = f
        /\ \A u \in Threads : u # t => pc'[u] = pc[u] /\ loc'[u] = loc[u]
    BY <1>1, <1>2, <2>1 DEF Step, Locals
  <2>3. Held(t) = x /\ \A u \in Threads : Held(u)' = Held(u)
    BY <1>1, <1>2, <2>2 DEF Held, Takers
  <2>4. Unique' BY <1>3, <2>3, NothingTaken DEF Descriptors, Tabled
  <2>5. \A fd : InPool(fd)' <=> InPool(fd) BY <1>3 DEF InPool
  <2>6. TableAgrees'
    BY <1>2, <1>3, <2>2, <2>3, <2>5 DEF Descriptors, Tabled, TableAgrees
  <2>7. HandleOwnFile' BY <1>3 DEF Descriptors, Tabled, HandleOwnFile
  <2>8. ~exhausted => x # BadFd BY <1>2, <1>5 DEF Descriptors, Tabled, NoBadFd
  <2>9. NoBadFd' BY <1>3, <2>2, <2>5, <2>8 DEF Descriptors, Tabled, NoBadFd
  <2>10. ASSUME ~exhausted
         PROVE  /\ x \in Linked(f) /\ Linked(f)' = Linked(f) \ {x}
                /\ \A g \in Files : g # f => Linked(g)' = Linked(g)
    <3>1. \A u \in Threads : pc[u] \in Counted => loc[u].fd # x
      BY <1>1, <2>3, <2>8, <2>10 DEF Descriptors, Tabled, Unique, OneHolder, Held, Takers
    <3>2. x \in Linked(f) BY <1>2, <3>1 DEF Linked
    <3>3. \A g \in Files : x \notin Linked(g)' BY <2>2 DEF Linked
    <3>4. \A g \in Files : g # f => x \notin Linked(g) BY <1>2 DEF Linked
    <3>5. \A g \in Files, fd \in Keys : fd # x => (fd \in Linked(g)' <=> fd \in Linked(g))
      BY <1>1, <1>3, <2>2 DEF Linked
    <3>6. Linked(f)' = Linked(f) \ {x} BY <1>3, <2>1, <3>3, <3>5 DEF Linked
    <3> QED BY <3>2, <3>3, <3>4, <3>5, <3>6 DEF Linked
  <2>11. /\ file'[f].nlink = file[f].nlink - 1 /\ ~file'[f].locked
         /\ \A g \in Files : g # f => file'[g] = file[g]
    BY <1>1, <2>1 DEF DecLink, File
  <2>12. LinksCounted'
    <3> SUFFICES ASSUME ~exhausted, NEW g \in Files
                 PROVE  file'[g].nlink = Cardinality(Linked(g)')
      BY <1>3 DEF LinksCounted
    <3>1. CASE g # f BY <2>10, <2>11, <3>1 DEF Descriptors, Links, LinksCounted
    <3>2. CASE g = f
      <4>1. Cardinality(Linked(f) \ {x}) = Cardinality(Linked(f)) - 1
        BY <2>10, LinkedFinite, FS_RemoveElement
      <4>2. Linked(f)' = Linked(f) \ {x} /\ file[f].nlink = Cardinality(Linked(f))
        BY <2>1, <2>10 DEF Descriptors, Links, LinksCounted
      <4> QED BY <2>11, <3>2, <4>1, <4>2
    <3> QED BY <3>1, <3>2
  <2>13. LocksLinked'
    BY <1>3, <2>2, <2>10, <2>11 DEF Descriptors, Links, LocksLinked
  <2> QED BY <2>4, <2>6, <2>7, <2>9, <2>12, <2>13 DEF Descriptors, Tabled, Links
<1> QED BY <1>4, <1>5

\* The descriptor goes back to the pool.
LEMMA CloseEndKeeps ==
    ASSUME TypeOK, LocalsFit, Descriptors, NEW t \in Threads, CloseEnd(t)
    PROVE  Descriptors'
<1> USE DEF Counted, ClosePcs
<1>1. /\ pc \in [Threads -> Pcs] /\ loc \in [Threads -> Locals] /\ loc[t] \in Locals
      /\ open_files \in [Keys -> Files \cup {NoFile}]
      /\ pc[t] = "close_end"
  BY DEF TypeOK, CloseEnd, At
<1>2. PICK x \in Keys : x = loc[t].fd BY <1>1 DEF Locals
<1>3. /\ open_files' = [open_files EXCEPT ![x] = NoFile]
      /\ free_fd_pool' = Append(free_fd_pool, x)
      /\ Step(t, "idle", NoLoc)
      /\ UNCHANGED <<file, handle, stream, exhausted>>
  BY <1>2 DEF CloseEnd, PutFd, Return
<1>4. /\ pc'[t] = "idle"
      /\ \A u \in Threads : u # t => pc'[u] = pc[u] /\ loc'[u] = loc[u]
  BY <1>1, <1>3 DEF Step
<1>5. Held(t) = x /\ Held(t)' = BadFd /\ \A u \in Threads : u # t => Held(u)' = Held(u)
  BY <1>1, <1>2, <1>4 DEF Held, Takers
<1>6. x # BadFd => /\ ~InPool(x) /\ \A u \in Threads : u # t => Held(u) # x
                   /\ \A h \in Handles : handle[h].fd # x
                   /\ \A d \in Streams : stream[d] # x
  BY <1>5 DEF Descriptors, Tabled, Unique, NotPooled, OneHolder
<1>7. Unique'
  <2>1. \A u \in Threads : Held(u)' = IF Held(u) = x THEN BadFd ELSE Held(u) BY <1>5, <1>6
  <2>2. \A d \in Streams : stream'[d] = IF stream[d] = x THEN BadFd ELSE stream[d]
    BY <1>3, <1>6
  <2> QED BY <1>3, <1>6, <2>1, <2>2, PutBack DEF Descriptors, Tabled
<1>8. \A fd \in Keys : InPool(fd)' <=> InPool(fd) \/ fd = x
  BY <1>3, <1>6, PoolAppend DEF Descriptors, Tabled, Unique
<1>9. open_files'[x] = NoFile /\ \A fd \in Keys : fd # x => open_files'[fd] = open_files[fd]
  BY <1>1, <1>3
<1>10. /\ \A h \in Handles : handle[h].fd \in Keys
       /\ \A d \in Streams : stream[d] \in Keys
       /\ \A u \in Threads : loc[u].fd \in Keys
  BY DEF TypeOK, OpenHandle, Locals
<1>11. TableAgrees'
  <2>1. ASSUME NEW fd \in Fds, InPool(fd)' PROVE open_files'[fd] = NoFile
    BY <1>8, <1>9, <2>1, Blanks DEF Descriptors, Tabled, TableAgrees
  <2>2. ASSUME NEW u \in Threads, Held(u)' # BadFd
        PROVE  /\ pc'[u] = "add_open" => open_files'[loc'[u].fd] = NoFile
               /\ pc'[u] \in Counted => open_files'[loc'[u].fd] = loc'[u].file
    <3>1. u # t /\ Held(u) # BadFd BY <1>5, <2>2
    <3>2. CASE pc[u] \in Takers
      <4>1. Held(u) = loc[u].fd BY <3>2 DEF Held
      <4>2. loc[u].fd # x BY <1>6, <3>1, <4>1
      <4> QED BY <1>4, <1>9, <1>10, <3>1, <4>1, <4>2 DEF Descriptors, Tabled, TableAgrees
    <3>3. CASE pc[u] \notin Takers BY <1>4, <3>1, <3>3 DEF Takers
    <3> QED BY <3>2, <3>3
  <2> QED BY <2>1, <2>2 DEF TableAgrees
<1>12. HandleOwnFile'
  BY <1>3, <1>6, <1>9, <1>10 DEF Descriptors, Tabled, HandleOwnFile
<1>13. ~exhausted => x # BadFd BY <1>1, <1>2 DEF Descriptors, Tabled, NoBadFd
<1>14. NoBadFd'
  BY <1>3, <1>4, <1>8, <1>9, <1>13, Blanks DEF Descriptors, Tabled, NoBadFd
<1>15. ASSUME ~exhausted', NEW f \in Files PROVE Linked(f)' = Linked(f)
  <2>1. x \notin Linked(f) BY <1>1, <1>2 DEF Linked
  <2>2. x \notin Linked(f)' BY <1>9, OpenAssumption DEF Linked
  <2>3. \A fd \in Keys : fd # x => (fd \in Linked(f)' <=> fd \in Linked(f))
    BY <1>1, <1>2, <1>4, <1>9 DEF Linked
  <2> QED BY <2>1, <2>2, <2>3 DEF Linked
<1>16. \A u \in Threads : pc'[u] = "lock_set" => pc[u] = "lock_set" /\ loc'[u] = loc[u]
  BY <1>4
<1>17. Links' BY <1>3, <1>15, <1>16, LinksSame DEF Descriptors
<1> QED BY <1>7, <1>11, <1>12, <1>14, <1>17 DEF Descriptors, Tabled

-----------------------------------------------------------------------------
(* Always *)

\* The same conjuncts, grouped.
LEMMA Grouped ==
    OInv <=> TypeOK /\ LocalsFit /\ HandlesHeld /\ Descriptors
BY DEF OInv, HandlesHeld, Descriptors, Tabled, Unique, Links

\* Every step keeps the invariant.
LEMMA OpenFilesStep ==
    ASSUME OInv, [Next]_vars
    PROVE  OInv'
<1> USE Grouped
<1>1. CASE UNCHANGED vars
  <2>1. UNCHANGED <<free_fd_pool, open_files, file, handle, stream, fh_mutex, pc, loc, exhausted>>
    BY <1>1 DEF vars
  <2>2. TypeOK' BY <1>1 DEF TypeOK, vars
  <2>3. LocalsFit' BY <2>1 DEF LocalsFit
  <2>4. HandlesHeld' BY <2>1 DEF HandlesHeld, HandlesBlank, HandlesInUse
  <2>5. \A u \in Threads : Held(u)' = Held(u) BY <2>1 DEF Held
  <2>6. \A fd : InPool(fd)' <=> InPool(fd) BY <2>1 DEF InPool
  <2>7. \A f \in Files : Linked(f)' = Linked(f) BY <2>1 DEF Linked
  <2>8. Unique' BY <2>1, <2>5, NothingTaken DEF Descriptors, Tabled
  <2>9. TableAgrees' /\ HandleOwnFile' /\ NoBadFd'
    BY <2>1, <2>5, <2>6 DEF Descriptors, Tabled, TableAgrees, HandleOwnFile, NoBadFd
  <2>10. Links' BY <2>1, <2>7, LinksSame DEF Descriptors
  <2> QED BY <2>2, <2>3, <2>4, <2>8, <2>9, <2>10 DEF Descriptors, Tabled, OInv, HandlesHeld,
        Unique, Links
<1>2. ASSUME NEW t \in Threads, Call(t) PROVE OInv'
  <2>1. TypeOK' /\ LocalsFit' /\ HandlesHeld'
    BY <1>2, CallTypes, CallFits, CallHandles
  <2>2. Descriptors'
    <3>1. CASE \E d \in Streams : OpenDirectory(t, d) \/ CloseDirectory(t, d)
      BY <3>1, OpenDirectoryKeeps, CloseDirectoryKeeps
    <3>2. CASE \E h \in Handles : Release(t, h) \/ Lock(t, h)
      BY <3>2, ReleaseKeeps, LockKeeps
    <3> QED BY <1>2, <3>1, <3>2, LookupsQuiet DEF Call
  <2> QED BY <2>1, <2>2 DEF OInv, HandlesHeld, Descriptors, Tabled, Unique, Links
<1>3. ASSUME NEW t \in Threads, Continue(t) PROVE OInv'
  <2>1. TypeOK' /\ LocalsFit' /\ HandlesHeld'
    BY <1>3, ContinueTypes, ContinueFits, ContinueHandles
  <2>2. Descriptors'
    BY <1>3, NewFileQuiet, RemovalsQuiet, GetFdKeeps, AddOpenFileKeeps, IncLinkKeeps,
       CloseKeeps, CloseEndKeeps, LockSetKeeps DEF Continue
  <2> QED BY <2>1, <2>2 DEF OInv, HandlesHeld, Descriptors, Tabled, Unique, Links
<1> QED BY <1>1, <1>2, <1>3 DEF Next

\* The invariant holds when the file system comes up: all descriptors are in the pool.
LEMMA OpenFilesInit == Init => OInv
<1> SUFFICES ASSUME Init PROVE OInv OBVIOUS
<1> USE Blanks
<1>1. TypeOK BY InitTypes
<1>2. /\ \A t \in Threads : pc[t] = "idle" /\ loc[t] = NoLoc
      /\ \A h \in Handles : handle[h] = Closed
      /\ \A d \in Streams : stream[d] = BadFd
      /\ \A fd \in Keys : open_files[fd] = NoFile
      /\ \A f \in Files : file[f] = Unmade
  BY DEF Init
<1>3. LocalsFit BY <1>2 DEF LocalsFit, Fit, NoLoc, Openers, OpenPcs, ClosePcs, UnlinkPcs
<1>4. HandlesHeld
  BY <1>2, OpenAssumption DEF HandlesHeld, HandlesBlank, HandlesInUse, NoLoc
<1>5. /\ \A t \in Threads : Held(t) = BadFd
      /\ \A h \in Handles : handle[h].fd = BadFd /\ handle[h].file = NoFile
  BY <1>2 DEF Held, Takers, ClosePcs, Closed
<1>6. PoolOnce /\ ~InPool(BadFd)
  <2>1. MaxFds \in Nat /\ free_fd_pool = [i \in 1 .. MaxFds |-> i - 1]
    BY OpenAssumption DEF Init
  <2>2. Len(free_fd_pool) = MaxFds BY <2>1
  <2>3. \A i \in 1 .. MaxFds : free_fd_pool[i] = i - 1 /\ i \in Nat /\ i > 0 BY <2>1
  <2> QED BY <2>2, <2>3 DEF PoolOnce, InPool, BadFd
<1>7. Unique BY <1>2, <1>5, <1>6 DEF Unique, NotPooled, OneHolder
<1>8. TableAgrees /\ HandleOwnFile
  BY <1>2, <1>5 DEF TableAgrees, HandleOwnFile
<1>9. NoBadFd BY <1>2, <1>5, <1>6 DEF NoBadFd, Counted, ClosePcs
<1>10. \A f \in Files : Linked(f) = {} BY <1>2, OpenAssumption DEF Linked
<1>11. LinksCounted BY <1>2, <1>10, FS_EmptySet DEF LinksCounted, Unmade
<1>12. LocksLinked BY <1>2 DEF LocksLinked, Unmade
<1> QED BY <1>1, <1>3, <1>4, <1>7, <1>8, <1>9, <1>11, <1>12, Grouped DEF Descriptors, Tabled, Links

\* Always OInv.
LEMMA OpenFilesInvariant == Spec => []OInv
BY OpenFilesInit, OpenFilesStep, PTL DEF Spec

\* The cardinality of a disjoint union.
LEMMA DisjointUnion ==
    ASSUME NEW A, NEW B, IsFiniteSet(A), IsFiniteSet(B), A \cap B = {}
    PROVE  Cardinality(A \cup B) = Cardinality(A) + Cardinality(B)
<1>1. Cardinality(A \cup B) = Cardinality(A) + Cardinality(B) - Cardinality(A \cap B)
  BY FS_Union
<1>2. Cardinality(A \cap B) = 0 BY FS_EmptySet
<1>3. Cardinality(A) \in Nat /\ Cardinality(B) \in Nat BY FS_CardinalityType
<1> QED BY <1>1, <1>2, <1>3

\* Every descriptor in the table is counted, or is one thread's that has entered it
\* and not counted it yet, or given up its link and not removed it yet.
LEMMA CountedOnce ==
    ASSUME OInv PROVE LinkCountExact
<1> SUFFICES ASSUME ~exhausted, NEW f \in Files
             PROVE  file[f].nlink + Cardinality(Opening(f)) =
                       Cardinality({fd \in Keys : open_files[fd] = f}) - Cardinality(Closing(f))
  BY DEF LinkCountExact
<1> DEFINE T == Opening(f) \cup Closing(f)
           C == {loc[t].fd : t \in T}
           all == {fd \in Keys : open_files[fd] = f}
           g == [t \in T |-> loc[t].fd]
<1>1. /\ IsFiniteSet(Opening(f)) /\ IsFiniteSet(Closing(f)) /\ IsFiniteSet(T)
      /\ Opening(f) \cap Closing(f) = {}
  <2>1. Opening(f) \in SUBSET Threads /\ Closing(f) \in SUBSET Threads BY DEF Opening, Closing
  <2>2. IsFiniteSet(Opening(f)) /\ IsFiniteSet(Closing(f)) BY <2>1, OpenAssumption, FS_Subset
  <2> QED BY <2>2, FS_Union DEF Opening, Closing
<1>2. \A t \in T : /\ t \in Threads /\ pc[t] \in Counted /\ loc[t].file = f
                   /\ loc[t].fd \in Keys /\ loc[t].fd = Held(t) /\ Held(t) # BadFd
  BY DEF OInv, TypeOK, Locals, Opening, Closing, Counted, ClosePcs, Held, Takers, NoBadFd
<1>3. \A t \in T : open_files[loc[t].fd] = f BY <1>2 DEF OInv, TableAgrees
<1>4. \A t, u \in T : loc[t].fd = loc[u].fd => t = u BY <1>2 DEF OInv, OneHolder
<1>5. \A fd \in all : fd \in Linked(f) \/ fd \in C
  <2> SUFFICES ASSUME NEW fd \in all, fd \notin Linked(f) PROVE fd \in C OBVIOUS
  <2>1. PICK t \in Threads : pc[t] \in Counted /\ loc[t].fd = fd BY DEF Linked
  <2>2. fd # BadFd BY <2>1 DEF OInv, NoBadFd
  <2>3. Held(t) = fd BY <2>1 DEF Held, Takers, Counted, ClosePcs
  <2>4. loc[t].file = f BY <2>1, <2>2, <2>3 DEF OInv, TableAgrees
  <2>5. t \in T BY <2>1, <2>4 DEF Opening, Closing, Counted, ClosePcs
  <2> QED BY <2>1, <2>5
<1>6. all = Linked(f) \cup C /\ Linked(f) \cap C = {}
  BY <1>2, <1>3, <1>5 DEF Linked
<1>7. IsFiniteSet(C) /\ Cardinality(C) = Cardinality(T)
  <2>1. g \in [T -> C] BY DEF g, C
  <2>2. IsInjective(g) BY <1>4 DEF IsInjective, g
  <2>3. \A y \in C : \E t \in T : g[t] = y BY DEF g, C
  <2>4. g \in Bijection(T, C) BY <2>1, <2>2, <2>3 DEF Bijection, Injection, Surjection
  <2>5. ExistsBijection(T, C) BY <2>4 DEF ExistsBijection
  <2> QED BY <1>1, <2>5, FS_Bijection
<1>8. Cardinality(all) = Cardinality(Linked(f)) + Cardinality(C)
  BY <1>6, <1>7, LinkedFinite, DisjointUnion
<1>9. Cardinality(T) = Cardinality(Opening(f)) + Cardinality(Closing(f))
  BY <1>1, DisjointUnion DEF T
<1>10. /\ Cardinality(Opening(f)) \in Nat /\ Cardinality(Closing(f)) \in Nat
       /\ Cardinality(Linked(f)) \in Nat /\ Cardinality(C) \in Nat
  BY <1>1, <1>7, LinkedFinite, FS_CardinalityType
<1>11. file[f].nlink = Cardinality(Linked(f)) BY DEF OInv, LinksCounted
<1> QED BY <1>7, <1>8, <1>9, <1>10, <1>11 DEF all

-----------------------------------------------------------------------------
(* The theorems *)

\* Every variable of OpenFiles has its type.
THEOREM OpenTypeCorrect == Spec => []TypeOK
<1>1. OInv => TypeOK BY DEF OInv
<1> QED BY <1>1, OpenFilesInvariant, PTL

\* However opens, flushes and releases of any number of threads interleave, the
\* descriptor in fi->fh stands for the file it was opened on, and that of a directory
\* stream for no file (FdHandle::get_fd, FileHandle::open, ::dup and ::close).
THEOREM HandleAlwaysOwnFile == Spec => []HandleOwnFile
<1>1. OInv => HandleOwnFile BY DEF OInv
<1> QED BY <1>1, OpenFilesInvariant, PTL

\* Until descriptors run out, the link count is the number of descriptors in the
\* table, up to the threads between the two updates (IncLinkCount, DecLinkCount).
THEOREM LinkCountAlwaysExact == Spec => []LinkCountExact
<1>1. OInv => LinkCountExact BY CountedOnce
<1> QED BY <1>1, OpenFilesInvariant, PTL

\* Until descriptors run out, no lock outlives the descriptors of its file, although
\* the flag is tested and set in two steps (FileSystem::FcntlFile, FileHandle::close).
THEOREM LockAlwaysNeedsOpenFile == Spec => []LockNeedsOpenFile
<1>1. OInv => LockNeedsOpenFile BY DEF OInv, LocksLinked, Linked, LockNeedsOpenFile
<1> QED BY <1>1, OpenFilesInvariant, PTL
=============================================================================
