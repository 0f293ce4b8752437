---------------------------- MODULE MountProofs ----------------------------
(***************************************************************************)
(* Proofs about Mount, for any devices, sizes, layouts, failures and uses: *)
(* once a device is chosen both descriptors and the size are that device's *)
(* and a mounted device has room for every block it counts; whatever part  *)
(* of a format or of the cleaning of temporary files goes through, a later *)
(* mount finds all the files or none, and a device whose format was        *)
(* reported a success is accepted, unless one of its metas is spoilt.      *)
(***************************************************************************)
EXTENDS Mount, TLAPS

-----------------------------------------------------------------------------
(* The arithmetic of the layout *)

\* Dividing and multiplying back does not exceed the dividend.
LEMMA DivTimes ==
    ASSUME NEW n \in Nat, NEW b \in Nat \ {0}
    PROVE  n \div b \in Nat /\ (n \div b) * b <= n
BY SMT

\* What wraps around is a number, and no larger than what did not need to.
LEMMA ModBelow ==
    ASSUME NEW n \in Int, NEW w \in Nat \ {0}
    PROVE  n % w \in Nat /\ (n >= 0 => n % w <= n)
BY SMT

\* Products of numbers are numbers.
LEMMA TimesNat ==
    ASSUME NEW m \in Nat, NEW n \in Nat
    PROVE  m * n \in Nat
BY SMT

\* Rounding up gives a number.
LEMMA RoundedUp ==
    ASSUME NEW s \in Nat, NEW a \in Nat \ {0}
    PROVE  ALIGN_UP(s, a) \in Nat /\ ROUND_UP(s, a) \in Nat
<1>1. s + (a - 1) \in Nat BY SMT
<1>2. ALIGN_UP(s, a) \in Nat BY <1>1, DivTimes DEF ALIGN_UP
<1> QED BY <1>2, TimesNat DEF ROUND_UP

\* The data blocks start at some offset.
LEMMA StartNat == block_data_start_offset \in Nat
<1>1. dir_meta_offset + dir_meta_total_size \in Nat
  <2>1. DirMetaSize * MaxFileNum \in Nat BY LayoutAssumption, TimesNat
  <2> QED BY <2>1, LayoutAssumption, RoundedUp DEF dir_meta_offset, dir_meta_total_size
<1>2. file_meta_offset + file_meta_total_size \in Nat
  <2>1. FileMetaSize * MaxFileNum \in Nat BY LayoutAssumption, TimesNat
  <2>2. file_meta_total_size \in Nat BY <2>1, LayoutAssumption, RoundedUp DEF file_meta_total_size
  <2> QED BY <1>1, <2>2 DEF file_meta_offset
<1>3. file_block_meta_total_size \in Nat
  <2>1. small_files_size \in Nat /\ MaxUDiskSize - small_files_size \in Nat
    <3>1. MaxFileNum - 1 \in Nat BY LayoutAssumption
    <3>2. (MaxFileNum - 1) * FileBlockMetaSize \in Nat BY <3>1, LayoutAssumption, TimesNat
    <3> QED BY <3>2, LayoutAssumption DEF small_files_size
  <2>2. BlockSize * Capacity \in Nat \ {0} BY LayoutAssumption, SMT
  <2>3. large_file_num \in Nat BY <2>1, <2>2, RoundedUp DEF large_file_num
  <2>4. large_file_num * FileBlockMetaSize \in Nat BY <2>3, LayoutAssumption, TimesNat
  <2>5. small_files_size + large_file_num * FileBlockMetaSize \in Nat BY <2>1, <2>4
  <2> QED BY <2>5, LayoutAssumption, RoundedUp DEF file_block_meta_total_size
<1>4. file_block_meta_offset + file_block_meta_total_size \in Nat
  BY <1>2, <1>3 DEF file_block_meta_offset
<1> QED BY <1>4, LayoutAssumption, RoundedUp DEF block_data_start_offset

\* The count of blocks is a number; on a device with room for its metadata the
\* blocks it counts fit behind them.
LEMMA CountFits ==
    ASSUME NEW s \in Nat
    PROVE  /\ curr_block_num(s) \in Nat
           /\ block_data_start_offset <= s =>
                 block_data_start_offset + curr_block_num(s) * BlockSize <= s
<1> DEFINE r == (s - block_data_start_offset) % Width
<1>1. s - block_data_start_offset \in Int BY StartNat
<1>2. r \in Nat /\ (s - block_data_start_offset >= 0 => r <= s - block_data_start_offset)
  BY <1>1, LayoutAssumption, ModBelow
<1>3. curr_block_num(s) = r \div BlockSize BY DEF curr_block_num
<1> HIDE DEF r
<1>4. r \div BlockSize \in Nat /\ (r \div BlockSize) * BlockSize <= r
  BY <1>2, LayoutAssumption, DivTimes
<1>5. (r \div BlockSize) * BlockSize \in Nat BY <1>4, LayoutAssumption, TimesNat
<1> DEFINE k == (r \div BlockSize) * BlockSize
<1>6. k \in Nat /\ k <= r BY <1>4, <1>5
<1>7. curr_block_num(s) * BlockSize = k BY <1>3
<1> HIDE DEF k
<1> QED BY <1>2, <1>3, <1>4, <1>6, <1>7, StartNat

-----------------------------------------------------------------------------
(* The inductive invariant *)

Places == {"idle", "format_super", "dirs", "files", "fbs", "done", "scan",
           "prefetch", "read_all", "initialize", "accepted", "mounted"}

\* The part of the type invariant that the properties rest on.
DeviceTypes ==
    /\ pc \in Places
    /\ device_size \in [Devices -> Nat]
    /\ super \in [Devices -> {Bad} \cup Nat]
    /\ dev_fd_direct \in Devices \cup {NoDev} /\ dev_fd_cache \in Devices \cup {NoDev}
    /\ dev_size \in Nat /\ block_num \in Nat

\* A super block counts the blocks of its own device.
SuperCounts == \A d \in Devices : super[d] # Bad => super[d] = curr_block_num(device_size[d])

\* Metadata that was read all lies on the device.
MetaRead == pc \in {"initialize", "accepted", "mounted"} => block_data_start_offset <= dev_size

\* The pool has the blocks that the super block counts.
PoolCounts ==
    pc \in {"accepted", "mounted"} =>
        super[dev_fd_direct] # Bad /\ block_num = super[dev_fd_direct]

MInv == DeviceTypes /\ DescriptorsAgree /\ SuperCounts /\ MetaRead /\ PoolCounts

\* A process that ends leaves no claim about its descriptors.
LEMMA ExitStep ==
    ASSUME MInv, Exit, device_size' = device_size, super' = super
    PROVE  MInv'
BY DEF MInv, DeviceTypes, DescriptorsAgree, SuperCounts, MetaRead, PoolCounts, Exit, Places

\* A step that only moves on, to a place that promises no more.
LEMMA KeptStep ==
    ASSUME MInv, UNCHANGED <<device_size, super, device>>,
           pc' \in Places, pc' \notin {"idle", "scan"} => pc \notin {"idle", "scan"},
           pc' \in {"initialize", "accepted", "mounted"} =>
               block_data_start_offset <= dev_size,
           block_num' \in Nat,
           pc' \in {"accepted", "mounted"} =>
               super[dev_fd_direct] # Bad /\ block_num' = super[dev_fd_direct]
    PROVE  MInv'
BY DEF MInv, DeviceTypes, DescriptorsAgree, SuperCounts, MetaRead, PoolCounts, device

\* Opening a device completely gives both descriptors and the size.
LEMMA OpenStep ==
    ASSUME MInv, NEW d \in Devices, NEW stop \in Stops, Open(d, stop),
           device_size' = device_size, super' = super, block_num' = block_num,
           pc' \in Places \ {"initialize", "accepted", "mounted"},
           pc' \notin {"idle", "scan"} => stop = "none"
    PROVE  MInv'
BY MountAssumption DEF MInv, DeviceTypes, DescriptorsAgree, SuperCounts, MetaRead,
   PoolCounts, Open, Stops

\* The format of the super block, the only write of a count.
LEMMA FormatSuperStep ==
    ASSUME MInv, NEW good \in BOOLEAN, FormatSuper(good)
    PROVE  MInv'
<1> DEFINE ok == InDevice(0, PageSize) /\ good
<1>1. CASE ~ok BY <1>1, ExitStep DEF FormatSuper
<1>2. CASE ok
  <2>1. /\ pc = "format_super" /\ pc' = "dirs"
        /\ super' = [super EXCEPT ![dev_fd_direct] = curr_block_num(dev_size)]
        /\ UNCHANGED <<device_size, dev_fd_direct, dev_fd_cache, dev_size, block_num>>
    BY <1>2 DEF FormatSuper, At, Goto, FirstArea, device, memory
  <2>2. dev_fd_direct \in Devices /\ dev_size = device_size[dev_fd_direct]
    BY <2>1 DEF MInv, DeviceTypes, DescriptorsAgree
  <2>3. curr_block_num(dev_size) \in Nat BY CountFits DEF MInv, DeviceTypes
  <2>4. DeviceTypes' BY <2>1, <2>2, <2>3 DEF MInv, DeviceTypes, Places
  <2>5. DescriptorsAgree' BY <2>1 DEF MInv, DescriptorsAgree
  <2>6. SuperCounts'
    <3> SUFFICES ASSUME NEW d \in Devices, super'[d] # Bad
                 PROVE  super'[d] = curr_block_num(device_size[d])
      BY <2>1 DEF SuperCounts
    <3>1. CASE d = dev_fd_direct BY <3>1, <2>1, <2>2 DEF MInv, DeviceTypes
    <3>2. CASE d # dev_fd_direct BY <3>2, <2>1, <2>2 DEF MInv, DeviceTypes, SuperCounts
    <3> QED BY <3>1, <3>2
  <2> QED BY <2>1, <2>4, <2>5, <2>6 DEF MInv, MetaRead, PoolCounts
<1> QED BY <1>1, <1>2

\* The mounted file system writes a meta.
LEMMA WriteMetaStep ==
    ASSUME MInv, NEW m, WriteMeta(m)
    PROVE  MInv'
<1>1. UNCHANGED <<pc, device_size, super, device, block_num>> BY DEF WriteMeta
<1> QED BY <1>1 DEF MInv, DeviceTypes, DescriptorsAgree, SuperCounts, MetaRead,
      PoolCounts, device

\* Every step keeps the invariant.
LEMMA MountStep ==
    ASSUME MInv, [Next]_vars
    PROVE  MInv'
<1>1. ASSUME NEW d \in Devices, NEW stop \in Stops, Format(d, stop) PROVE MInv'
  <2>1. CASE stop = "none"
    BY <1>1, <2>1, OpenStep DEF Format, Goto, memory, Places
  <2>2. CASE stop # "none" BY <1>1, <2>2, ExitStep DEF Format
  <2> QED BY <2>1, <2>2
<1>2. ASSUME NEW d \in Devices, NEW stop \in Stops, OpenTarget(d, stop) PROVE MInv'
  BY <1>2, OpenStep DEF OpenTarget, Goto, memory, Places
<1>3. ASSUME NEW d \in Devices, NEW stop \in Stops, Check(d, stop) PROVE MInv'
  <2>1. CASE stop = "none"
    BY <1>3, <2>1, OpenStep DEF Check, Goto, memory, Places
  <2>2. CASE stop # "none" BY <1>3, <2>2, ExitStep DEF Check
  <2> QED BY <2>1, <2>2
<1>4. ASSUME NEW good \in BOOLEAN, FormatSuper(good) PROVE MInv'
  BY <1>4, FormatSuperStep
<1>5. ASSUME NEW a \in {"dirs", "files", "fbs"}, FormatArea(a) PROVE MInv'
  <2>1. pc' \in {"files", "fbs", "done"} /\ pc \in {"dirs", "files", "fbs"}
    BY <1>5 DEF FormatArea, At, Goto, NextArea
  <2>2. UNCHANGED <<device_size, super, device>> /\ block_num' = block_num
    BY <1>5 DEF FormatArea, memory
  <2>3. block_num' \in Nat BY <2>2 DEF MInv, DeviceTypes
  <2> QED BY <2>1, <2>2, <2>3, KeptStep DEF Places
<1>6. ASSUME NEW a \in {"dirs", "files", "fbs"}, NEW S, FormatStops(a, S) PROVE MInv'
  BY <1>6, ExitStep DEF FormatStops
<1>7. CASE FormatDone BY <1>7, ExitStep DEF FormatDone
<1>8. CASE MountFileSystem
  <2>1. pc' = "scan" /\ UNCHANGED <<device_size, super, device, block_num>>
    BY <1>8 DEF MountFileSystem, Goto, memory
  <2>2. block_num' \in Nat BY <2>1 DEF MInv, DeviceTypes
  <2> QED BY <2>1, <2>2, KeptStep DEF Places
<1>9. CASE PrefetchUuid
  <2> DEFINE ok == InDevice(0, PageSize) /\ super[dev_fd_cache] # Bad
  <2>1. pc = "prefetch" /\ UNCHANGED <<device_size, super, block_num>>
    BY <1>9 DEF PrefetchUuid, At, memory
  <2>2. CASE ok
    <3>1. pc' = "read_all" /\ UNCHANGED device BY <1>9, <2>2 DEF PrefetchUuid, Goto
    <3>2. block_num' \in Nat BY <2>1 DEF MInv, DeviceTypes
    <3> QED BY <2>1, <3>1, <3>2, KeptStep DEF Places
  <2>3. CASE ~ok
    <3>1. pc' = "scan" /\ Close BY <1>9, <2>3 DEF PrefetchUuid, Goto
    <3> QED BY <2>1, <3>1 DEF MInv, DeviceTypes, DescriptorsAgree, SuperCounts, MetaRead,
          PoolCounts, Close, Places
  <2> QED BY <2>2, <2>3
<1>10. CASE NoTarget BY <1>10, ExitStep DEF NoTarget
<1>11. CASE ShmInitialize
  <2> DEFINE ok == PrefetchSuperMeta /\ ReadAllMeta
  <2>1. CASE ~ok BY <1>11, <2>1, ExitStep DEF ShmInitialize
  <2>2. CASE ok
    <3>1. /\ pc = "read_all" /\ pc' = "initialize"
          /\ UNCHANGED <<device_size, super, device, block_num>>
      BY <1>11, <2>2 DEF ShmInitialize, At, Goto
    <3>2. block_data_start_offset <= dev_size
      BY <2>2, StartNat DEF ReadAllMeta, InDevice
    <3>3. block_num' \in Nat BY <3>1 DEF MInv, DeviceTypes
    <3> QED BY <3>1, <3>2, <3>3, KeptStep DEF Places
  <2> QED BY <2>1, <2>2
<1>12. ASSUME NEW X, InitializeMeta(X) PROVE MInv'
  <2> DEFINE ok == SuperAccepted(dev_fd_direct) /\ Accepted(loaded) /\ X = TempsIn(loaded)
  <2>1. CASE ~ok BY <1>12, <2>1, ExitStep DEF InitializeMeta
  <2>2. CASE ok
    <3>1. /\ pc = "initialize" /\ pc' = "accepted"
          /\ super[dev_fd_direct] # Bad /\ block_num' = super[dev_fd_direct]
          /\ UNCHANGED <<device_size, super, device>>
      BY <1>12, <2>2 DEF InitializeMeta, At, Goto, SuperAccepted, BlockIds
    <3>2. dev_fd_direct \in Devices BY <3>1 DEF MInv, DeviceTypes, DescriptorsAgree
    <3>3. block_num' \in Nat BY <3>1, <3>2 DEF MInv, DeviceTypes
    <3>4. block_data_start_offset <= dev_size BY <3>1 DEF MInv, MetaRead
    <3> QED BY <3>1, <3>3, <3>4, KeptStep DEF Places
  <2> QED BY <2>1, <2>2
<1>13. CASE MakeMountPoint
  <2>1. /\ pc = "accepted" /\ pc' = "mounted"
        /\ UNCHANGED <<device_size, super, device, block_num>>
    BY <1>13 DEF MakeMountPoint, At, Goto
  <2>2. block_num' \in Nat BY <2>1 DEF MInv, DeviceTypes
  <2>3. /\ block_data_start_offset <= dev_size
        /\ super[dev_fd_direct] # Bad /\ block_num' = super[dev_fd_direct]
    BY <2>1 DEF MInv, MetaRead, PoolCounts
  <2> QED BY <2>1, <2>2, <2>3, KeptStep DEF Places
<1>14. CASE Checked BY <1>14, ExitStep DEF Checked
<1>15. ASSUME NEW a, NEW i, NEW owner, Use(a, i, owner) PROVE MInv'
  BY <1>15, WriteMetaStep DEF Use
<1>18. ASSUME NEW a, NEW i, Clear(a, i) PROVE MInv'
  BY <1>18, WriteMetaStep DEF Clear
<1>19. ASSUME NEW i, StalePath(i) PROVE MInv'
  BY <1>19, WriteMetaStep DEF StalePath
<1>20. ASSUME NEW i, ClaimedTwice(i) PROVE MInv'
  BY <1>20, WriteMetaStep DEF ClaimedTwice
<1>21. ASSUME NEW a, NEW i, StaleCrc(a, i) PROVE MInv'
  BY <1>21, WriteMetaStep DEF StaleCrc
<1>16. CASE Stop BY <1>16, ExitStep DEF Stop
<1>17. CASE UNCHANGED vars
  BY <1>17 DEF MInv, DeviceTypes, DescriptorsAgree, SuperCounts, MetaRead, PoolCounts,
     vars, device, memory
<1> QED
  BY <1>1, <1>2, <1>3, <1>4, <1>5, <1>6, <1>7, <1>8, <1>9, <1>10, <1>11, <1>12,
     <1>13, <1>14, <1>15, <1>16, <1>17, <1>18, <1>19, <1>20, <1>21 DEF Next, MountedStep

\* The invariant holds of a computer with unformatted devices.
LEMMA MountInit == Init => MInv
<1> SUFFICES ASSUME Init PROVE MInv OBVIOUS
<1>1. device_size \in [Devices -> Nat] BY MountAssumption DEF Init
<1>2. DeviceTypes BY <1>1 DEF Init, DeviceTypes, Places, Bad
<1>3. pc = "idle" /\ super = [d \in Devices |-> Bad] BY DEF Init
<1>4. DescriptorsAgree /\ MetaRead /\ PoolCounts
  BY <1>3 DEF DescriptorsAgree, MetaRead, PoolCounts
<1>5. SuperCounts BY <1>3 DEF SuperCounts
<1> QED BY <1>2, <1>4, <1>5 DEF MInv

\* Always MInv.
LEMMA MountInvariant == Spec => []MInv
BY MountInit, MountStep, PTL DEF Spec

-----------------------------------------------------------------------------
(* The theorems *)

\* Whatever fails on the devices tried before, both descriptors and the size that
\* bounds every access belong to the device that is formatted, checked or mounted
\* (Device::Open, FileSystem::OpenTarget).
THEOREM DescriptorsAlwaysAgree == Spec => []DescriptorsAgree
<1>1. MInv => DescriptorsAgree BY DEF MInv
<1> QED BY <1>1, MountInvariant, PTL

\* Whatever the size of the device and the width of the arithmetic, a mount never
\* counts a block that is not on the device (SuperBlock::FormatAllMeta,
\* ShmManager::ReadAllMeta).
THEOREM BlocksAlwaysInDevice == Spec => []BlocksInDevice
<1>1. ASSUME MInv PROVE BlocksInDevice
  <2> SUFFICES ASSUME pc \in {"accepted", "mounted"}
               PROVE  block_data_start_offset + block_num * BlockSize
                        <= device_size[dev_fd_direct]
    BY DEF BlocksInDevice
  <2>1. dev_fd_direct \in Devices /\ dev_size = device_size[dev_fd_direct]
    BY <1>1 DEF MInv, DeviceTypes, DescriptorsAgree
  <2>2. block_num = curr_block_num(dev_size)
    BY <1>1, <2>1 DEF MInv, PoolCounts, SuperCounts
  <2>3. block_data_start_offset <= dev_size /\ dev_size \in Nat
    BY <1>1 DEF MInv, MetaRead, DeviceTypes
  <2> QED BY <2>1, <2>2, <2>3, CountFits
<1> QED BY <1>1, MountInvariant, PTL

-----------------------------------------------------------------------------
(* Format and the cleaning of temporary files: the inductive invariant *)

\* The part of the type invariant about the metadata.
AreaTypes ==
    /\ areas \in [Devices -> Areas] /\ loaded \in Areas /\ saved \in [Devices -> Areas]
    /\ todo \subseteq Devices /\ formatted \subseteq Devices

\* What InitializeMeta and the mounted file system have in memory is on the device.
LoadedIsThere == pc \in {"initialize", "accepted", "mounted"} => loaded = areas[dev_fd_direct]

\* Every used meta points to a used one, unless it holds one of the values E, and no
\* crc is bad.  Without exceptions this is what InitializeMeta accepts.
Linked(m, E) ==
    /\ CrcsMatch(m.dirs) /\ CrcsMatch(m.files) /\ CrcsMatch(m.fbs)
    /\ \A i \in UsedIn(m.dirs) : m.dirs[i] \in UsedIn(m.dirs) \cup E
    /\ \A i \in UsedIn(m.files) : m.files[i] \in UsedIn(m.dirs) \cup E
    /\ \A i \in UsedIn(m.fbs) : m.fbs[i] \in UsedIn(m.files) \cup E

\* Metadata that was accepted is acceptable, and free of temporary files at first;
\* in use, it is but for what is spoilt.
LoadedAccepted ==
    /\ pc = "accepted" => Linked(loaded, {}) /\ TempsIn(loaded) = {}
    /\ pc = "mounted" => Linked(loaded, {Spoilt})

\* A format has written the areas before the one it is at, on a device that
\* does not count as formatted meanwhile.
WrittenInOrder ==
    LET m == areas[dev_fd_direct] IN
    /\ pc \in {"files", "fbs", "done"} => m.dirs = Fresh.dirs
    /\ pc \in {"fbs", "done"} => m.files = Fresh.files
    /\ pc = "done" => m.fbs = Fresh.fbs
    /\ pc \in {"dirs", "files", "fbs", "done"} =>
           dev_fd_direct \notin formatted /\ super[dev_fd_direct] # Bad

\* A device that counts as formatted would be accepted, but for what is spoilt.
FormattedAccepted == \A d \in formatted : super[d] # Bad /\ Linked(areas[d], {Spoilt})

\* What is left of the areas was: a lost meta is free; once a meta of a file was
\* lost, other than a temporary one, all directories are; once one of a FileBlock
\* was, all files are too.
LeftOf(m, was) ==
    /\ \A i \in Fhs : m.files[i] \in {was.files[i], Free}
    /\ \A i \in Fbs : m.fbs[i] \in {was.fbs[i], Free}
    /\ \A i \in Fhs : m.files[i] # was.files[i] /\ was.files[i] # Temp => m.dirs = Fresh.dirs
    /\ \A i \in Fbs : m.fbs[i] # was.fbs[i] /\ was.fbs[i] # Temp =>
                          m.dirs = Fresh.dirs /\ m.files = Fresh.files

LostInOrder == \A d \in Devices : LeftOf(areas[d], saved[d])

FInv == /\ AreaTypes /\ LoadedIsThere /\ LoadedAccepted /\ WrittenInOrder
        /\ FormattedAccepted /\ LostInOrder

-----------------------------------------------------------------------------
(* Areas *)

\* An area that was never written and one that was just formatted have their types,
\* and InitializeMeta accepts the latter.
LEMMA RawFresh == Raw \in Areas /\ Fresh \in Areas /\ \A E : Linked(Fresh, E)
<1>1. Raw \in Areas /\ Fresh \in Areas BY DEF Raw, Fresh, Areas
<1>2. /\ CrcsMatch(Fresh.dirs) /\ CrcsMatch(Fresh.files) /\ CrcsMatch(Fresh.fbs)
  BY DEF Fresh, CrcsMatch, Bad, Free
<1>3. /\ UsedIn(Fresh.dirs) = {} /\ UsedIn(Fresh.files) = {} /\ UsedIn(Fresh.fbs) = {}
  BY DEF Fresh, UsedIn, Free, Spoilt
<1> QED BY <1>1, <1>2, <1>3 DEF Linked

\* Linked, without exceptions, is what InitializeMeta accepts.
LEMMA LinkedAccepted ==
    ASSUME NEW m
    PROVE  Accepted(m) <=> Linked(m, {})
BY DEF Linked, Accepted, DirsAccepted, FilesAccepted, FbsAccepted

\* Fewer exceptions are stronger.
LEMMA LinkedMore ==
    ASSUME NEW m, NEW E, Linked(m, {})
    PROVE  Linked(m, E)
BY DEF Linked

\* Where no meta is spoilt the exception is none.
LEMMA UnspoiltAccepted ==
    ASSUME NEW m \in Areas, Linked(m, {Spoilt}), Unspoilt(m)
    PROVE  Accepted(m)
<1>1. DOMAIN m.dirs = Dhs /\ DOMAIN m.files = Fhs /\ DOMAIN m.fbs = Fbs BY DEF Areas
<1>2. Linked(m, {}) BY <1>1 DEF Linked, Unspoilt, UsedIn
<1> QED BY <1>2, LinkedAccepted

\* What clearing temporary metas gives, area by area.
LEMMA ClearedAreas ==
    ASSUME NEW m \in Areas, NEW X \in SUBSET TempsIn(m)
    PROVE  /\ Cleared(m, X) \in Areas
           /\ Cleared(m, X).dirs = m.dirs
           /\ \A i \in Fhs : Cleared(m, X).files[i] = IF <<"files", i>> \in X THEN Free ELSE m.files[i]
           /\ \A i \in Fbs : Cleared(m, X).fbs[i] = IF <<"fbs", i>> \in X THEN Free ELSE m.fbs[i]
BY DEF Areas, Cleared, TempsIn, Free, Bad, Temp

\* Clearing concerns temporary metas only.
LEMMA TempsOnly ==
    ASSUME NEW m \in Areas, NEW X \in SUBSET TempsIn(m)
    PROVE  /\ \A i \in Fhs : \/ Cleared(m, X).files[i] = m.files[i]
                             \/ m.files[i] = Temp /\ Cleared(m, X).files[i] = Free
           /\ \A i \in Fbs : \/ Cleared(m, X).fbs[i] = m.fbs[i]
                             \/ m.fbs[i] = Temp /\ Cleared(m, X).fbs[i] = Free
<1>1. /\ \A i \in Fhs : <<"files", i>> \in X => m.files[i] = Temp
      /\ \A i \in Fbs : <<"fbs", i>> \in X => m.fbs[i] = Temp
  BY DEF TempsIn
<1>2. ASSUME NEW i \in Fhs
      PROVE  Cleared(m, X).files[i] = IF <<"files", i>> \in X THEN Free ELSE m.files[i]
  BY ClearedAreas
<1>3. ASSUME NEW i \in Fbs
      PROVE  Cleared(m, X).fbs[i] = IF <<"fbs", i>> \in X THEN Free ELSE m.fbs[i]
  BY ClearedAreas
<1> QED BY <1>1, <1>2, <1>3

\* Temporary metas do not count for InitializeMeta, neither before nor after they
\* are cleared.
LEMMA ClearedLinked ==
    ASSUME NEW m \in Areas, NEW X \in SUBSET TempsIn(m), NEW E, Linked(m, E)
    PROVE  Linked(Cleared(m, X), E)
<1> DEFINE c == Cleared(m, X)
<1>1. c \in Areas /\ c.dirs = m.dirs BY ClearedAreas
<1>2. \A i \in Fhs : c.files[i] = m.files[i] \/ (m.files[i] = Temp /\ c.files[i] = Free)
  BY TempsOnly
<1>3. \A i \in Fbs : c.fbs[i] = m.fbs[i] \/ (m.fbs[i] = Temp /\ c.fbs[i] = Free)
  BY TempsOnly
<1> HIDE DEF c
<1>4. DOMAIN c.files = Fhs /\ DOMAIN m.files = Fhs /\ DOMAIN c.fbs = Fbs /\ DOMAIN m.fbs = Fbs
  BY <1>1 DEF Areas
<1>5. UsedIn(c.files) = UsedIn(m.files) /\ UsedIn(c.fbs) = UsedIn(m.fbs)
  BY <1>2, <1>3, <1>4 DEF UsedIn, Temp, Free, Spoilt
<1>6. CrcsMatch(c.files) /\ CrcsMatch(c.fbs)
  BY <1>2, <1>3, <1>4 DEF Linked, CrcsMatch, Bad, Free
<1>7. \A i \in UsedIn(m.files) : c.files[i] = m.files[i]
  BY <1>2, <1>4 DEF UsedIn, Temp, Spoilt
<1>8. \A i \in UsedIn(m.fbs) : c.fbs[i] = m.fbs[i]
  BY <1>3, <1>4 DEF UsedIn, Temp, Spoilt
<1>9. Linked(c, E) BY <1>1, <1>5, <1>6, <1>7, <1>8 DEF Linked
<1> QED BY <1>9 DEF c

\* One meta changes: it is cleared, spoilt or pointed to a used one, and where it is
\* no longer used nothing pointed to it.
LEMMA OneMetaLinked ==
    ASSUME NEW m \in Areas, Linked(m, {Spoilt}),
           NEW a \in {"dirs", "files", "fbs"}, NEW i \in DOMAIN m[a], NEW v,
           \/ v \in {Spoilt, Free}
           \/ a = "dirs" /\ v \in UsedIn(m.dirs)
           \/ a = "files" /\ v \in UsedIn(m.dirs) \cup {Temp}
           \/ a = "fbs" /\ v \in UsedIn(m.files) \cup {Temp},
           v \in {Free, Temp} /\ a = "dirs" =>
               \A j \in Dhs : m.dirs[j] # i /\ m.files[j] # i,
           v \in {Free, Temp} /\ a = "files" => \A j \in Fbs : m.fbs[j] # i
    PROVE  /\ [m EXCEPT ![a][i] = v] \in Areas
           /\ Linked([m EXCEPT ![a][i] = v], {Spoilt})
<1> DEFINE new == [m EXCEPT ![a][i] = v]
<1>1. /\ m.dirs \in [Dhs -> {Spoilt, Bad, Free} \cup Dhs]
      /\ m.files \in [Fhs -> {Spoilt, Temp, Bad, Free} \cup Dhs]
      /\ m.fbs \in [Fbs -> {Spoilt, Temp, Bad, Free} \cup Fhs]
  BY DEF Areas
<1>2. /\ UsedIn(m.dirs) \subseteq Dhs /\ UsedIn(m.files) \subseteq Fhs
      /\ Dhs \subseteq Nat /\ Fhs = Dhs
  <2>1. UsedIn(m.dirs) \subseteq Dhs /\ UsedIn(m.files) \subseteq Fhs BY <1>1 DEF UsedIn
  <2>2. Dhs \subseteq Nat /\ Fhs = Dhs BY LayoutAssumption DEF Dhs, Fhs
  <2> QED BY <2>1, <2>2
<1>3. CASE a = "dirs"
  <2>1. /\ i \in Dhs /\ v \in {Spoilt, Free} \cup UsedIn(m.dirs)
        /\ new.dirs = [m.dirs EXCEPT ![i] = v] /\ new.files = m.files /\ new.fbs = m.fbs
        /\ new = [m EXCEPT !.dirs = [m.dirs EXCEPT ![i] = v]]
    BY <1>1, <1>2, <1>3 DEF Areas, Temp, UsedIn, Free, Spoilt
  <2>2. new.dirs \in [Dhs -> {Spoilt, Bad, Free} \cup Dhs] BY <1>1, <1>2, <2>1
  <2>3. new \in Areas BY <1>1, <2>1, <2>2 DEF Areas
  <2>4. CrcsMatch(new.dirs)
    BY <1>1, <1>2, <2>1 DEF Linked, CrcsMatch, Bad, Free, Spoilt, UsedIn
  <2> HIDE DEF new
  <2>5. CASE v = Free
    <3>1. UsedIn(new.dirs) = UsedIn(m.dirs) \ {i}
      BY <1>1, <2>1, <2>5 DEF UsedIn, Free, Spoilt
    <3>2. \A j \in Dhs : m.dirs[j] # i /\ m.files[j] # i BY <1>3, <2>5
    <3>3. \A j \in UsedIn(new.dirs) : new.dirs[j] \in UsedIn(new.dirs) \cup {Spoilt}
      BY <1>1, <1>2, <2>1, <3>1, <3>2 DEF Linked
    <3>4. \A j \in UsedIn(m.files) : m.files[j] \in UsedIn(new.dirs) \cup {Spoilt}
      BY <1>2, <3>1, <3>2 DEF Linked
    <3> QED BY <2>1, <2>3, <2>4, <3>3, <3>4 DEF Linked, new
  <2>6. CASE v # Free
    <3>1. UsedIn(new.dirs) = UsedIn(m.dirs) \cup {i}
      BY <1>1, <1>2, <2>1, <2>6 DEF UsedIn, Free, Spoilt
    <3>2. \A j \in UsedIn(new.dirs) : new.dirs[j] \in UsedIn(new.dirs) \cup {Spoilt}
      BY <1>1, <1>2, <2>1, <2>6, <3>1 DEF Linked
    <3>3. \A j \in UsedIn(m.files) : m.files[j] \in UsedIn(new.dirs) \cup {Spoilt}
      BY <3>1 DEF Linked
    <3> QED BY <2>1, <2>3, <2>4, <3>2, <3>3 DEF Linked, new
  <2> QED BY <2>5, <2>6
<1>4. CASE a = "files"
  <2>1. /\ i \in Fhs /\ v \in {Spoilt, Free, Temp} \cup UsedIn(m.dirs)
        /\ new.files = [m.files EXCEPT ![i] = v] /\ new.dirs = m.dirs /\ new.fbs = m.fbs
        /\ new = [m EXCEPT !.files = [m.files EXCEPT ![i] = v]]
    BY <1>1, <1>2, <1>4 DEF Areas
  <2>2. new.files \in [Fhs -> {Spoilt, Temp, Bad, Free} \cup Dhs] BY <1>1, <1>2, <2>1
  <2>3. new \in Areas BY <1>1, <2>1, <2>2 DEF Areas
  <2>4. CrcsMatch(new.files)
    BY <1>1, <1>2, <2>1 DEF Linked, CrcsMatch, Bad, Free, Temp, Spoilt, UsedIn
  <2> HIDE DEF new
  <2>5. \A j \in UsedIn(new.files) : new.files[j] \in UsedIn(m.dirs) \cup {Spoilt}
    <3> SUFFICES ASSUME NEW j \in UsedIn(new.files)
                 PROVE  new.files[j] \in UsedIn(m.dirs) \cup {Spoilt} OBVIOUS
    <3>1. CASE j = i BY <1>1, <2>1, <3>1 DEF UsedIn, Free, Temp, Spoilt
    <3>2. CASE j # i BY <1>1, <2>1, <3>2 DEF UsedIn, Linked
    <3> QED BY <3>1, <3>2
  <2>6. CASE v \in {Free, Temp}
    <3>1. UsedIn(new.files) = UsedIn(m.files) \ {i}
      BY <1>1, <2>1, <2>6 DEF UsedIn, Free, Temp, Spoilt
    <3>2. \A j \in Fbs : m.fbs[j] # i BY <1>4, <2>6
    <3>3. UsedIn(m.fbs) \subseteq Fbs BY <1>1 DEF UsedIn
    <3>4. \A j \in UsedIn(m.fbs) : m.fbs[j] \in UsedIn(new.files) \cup {Spoilt}
      BY <3>1, <3>2, <3>3 DEF Linked
    <3> QED BY <2>1, <2>3, <2>4, <2>5, <3>4 DEF Linked, new
  <2>7. CASE v \notin {Free, Temp}
    <3>1. UsedIn(m.files) \subseteq UsedIn(new.files)
      BY <1>1, <1>2, <2>1, <2>7 DEF UsedIn, Free, Temp, Spoilt
    <3>2. \A j \in UsedIn(m.fbs) : m.fbs[j] \in UsedIn(new.files) \cup {Spoilt}
      BY <3>1 DEF Linked
    <3> QED BY <2>1, <2>3, <2>4, <2>5, <3>2 DEF Linked, new
  <2> QED BY <2>6, <2>7
<1>5. CASE a = "fbs"
  <2>1. /\ i \in Fbs /\ v \in {Spoilt, Free, Temp} \cup UsedIn(m.files)
        /\ new.fbs = [m.fbs EXCEPT ![i] = v] /\ new.dirs = m.dirs /\ new.files = m.files
        /\ new = [m EXCEPT !.fbs = [m.fbs EXCEPT ![i] = v]]
    BY <1>1, <1>2, <1>5 DEF Areas
  <2>2. new.fbs \in [Fbs -> {Spoilt, Temp, Bad, Free} \cup Fhs] BY <1>1, <1>2, <2>1
  <2>3. new \in Areas BY <1>1, <2>1, <2>2 DEF Areas
  <2>4. CrcsMatch(new.fbs)
    BY <1>1, <1>2, <2>1 DEF Linked, CrcsMatch, Bad, Free, Temp, Spoilt, UsedIn
  <2> HIDE DEF new
  <2>5. \A j \in UsedIn(new.fbs) : new.fbs[j] \in UsedIn(m.files) \cup {Spoilt}
    <3> SUFFICES ASSUME NEW j \in UsedIn(new.fbs)
                 PROVE  new.fbs[j] \in UsedIn(m.files) \cup {Spoilt} OBVIOUS
    <3>1. CASE j = i BY <1>1, <2>1, <3>1 DEF UsedIn, Free, Temp, Spoilt
    <3>2. CASE j # i BY <1>1, <2>1, <3>2 DEF UsedIn, Linked
    <3> QED BY <3>1, <3>2
  <2> QED BY <2>1, <2>3, <2>4, <2>5 DEF Linked, new
<1> QED BY <1>3, <1>4, <1>5

\* All of the areas is left of them.
LEMMA LeftOfSelf == ASSUME NEW m PROVE LeftOf(m, m)
BY DEF LeftOf

\* Clearing temporary metas loses none of the others.
LEMMA ClearedLeft ==
    ASSUME NEW m \in Areas, NEW was \in Areas, NEW X \in SUBSET TempsIn(m), LeftOf(m, was)
    PROVE  LeftOf(Cleared(m, X), was)
<1> DEFINE c == Cleared(m, X)
<1>1. c \in Areas /\ c.dirs = m.dirs BY ClearedAreas
<1>2. \A i \in Fhs : c.files[i] = m.files[i] \/ (m.files[i] = Temp /\ c.files[i] = Free)
  BY TempsOnly
<1>3. \A i \in Fbs : c.fbs[i] = m.fbs[i] \/ (m.fbs[i] = Temp /\ c.fbs[i] = Free)
  BY TempsOnly
<1> HIDE DEF c
<1>4. m.files = Fresh.files => c.files = Fresh.files
  BY <1>1, <1>2 DEF Fresh, Areas, Free, Temp
<1> QED BY <1>1, <1>2, <1>3, <1>4 DEF LeftOf, Free, Temp, c

\* Of accepted areas without temporary files, all that is left of the files that
\* were is all of them, or none.
LEMMA LeftAllOrNone ==
    ASSUME NEW m \in Areas, NEW was \in Areas, LeftOf(m, was), Accepted(m), TempsIn(m) = {}
    PROVE  LET kept == Cleared(was, TempsIn(was)) IN
           <<m.files, m.fbs>> \in {<<kept.files, kept.fbs>>, <<Fresh.files, Fresh.fbs>>}
<1> DEFINE kept == Cleared(was, TempsIn(was))
<1>1. kept \in Areas BY ClearedAreas
<1>2. /\ \A i \in Fhs : kept.files[i] = IF was.files[i] = Temp THEN Free ELSE was.files[i]
      /\ \A i \in Fbs : kept.fbs[i] = IF was.fbs[i] = Temp THEN Free ELSE was.fbs[i]
  <2>1. \A i \in Fhs : <<"files", i>> \in TempsIn(was) <=> was.files[i] = Temp
    BY DEF TempsIn, Areas
  <2>2. \A i \in Fbs : <<"fbs", i>> \in TempsIn(was) <=> was.fbs[i] = Temp
    BY DEF TempsIn, Areas
  <2> QED BY <2>1, <2>2, ClearedAreas
<1>3. /\ \A i \in Fhs : m.files[i] # Temp
      /\ \A i \in Fbs : m.fbs[i] # Temp
  <2>1. \A i \in Fhs : <<"files", i>> \in TempsIn(m) <=> m.files[i] = Temp
    BY DEF TempsIn, Areas
  <2>2. \A i \in Fbs : <<"fbs", i>> \in TempsIn(m) <=> m.fbs[i] = Temp
    BY DEF TempsIn, Areas
  <2> QED BY <2>1, <2>2
<1> HIDE DEF kept
<1>4. \A i \in Fhs : m.files[i] \in {Free} \cup UsedIn(m.dirs)
  BY <1>3 DEF Accepted, FilesAccepted, CrcsMatch, UsedIn, Areas, Temp, Bad, Free, Spoilt, Dhs
<1>5. \A i \in Fbs : m.fbs[i] \in {Free} \cup UsedIn(m.files)
  BY <1>3 DEF Accepted, FbsAccepted, CrcsMatch, UsedIn, Areas, Temp, Bad, Free, Spoilt, Dhs,
     Fhs
<1>6. ASSUME m.dirs = Fresh.dirs PROVE m.files = Fresh.files
  <2>1. UsedIn(m.dirs) = {} BY <1>6 DEF UsedIn, Fresh, Free, Spoilt
  <2> QED BY <2>1, <1>4 DEF Fresh, Areas
<1>7. ASSUME m.files = Fresh.files PROVE m.fbs = Fresh.fbs
  <2>1. UsedIn(m.files) = {} BY <1>7 DEF UsedIn, Fresh, Free, Spoilt
  <2> QED BY <2>1, <1>5 DEF Fresh, Areas
<1>8. CASE \E i \in Fhs : m.files[i] # was.files[i] /\ was.files[i] # Temp
  BY <1>6, <1>7, <1>8 DEF LeftOf
<1>9. CASE \E i \in Fbs : m.fbs[i] # was.fbs[i] /\ was.fbs[i] # Temp
  BY <1>7, <1>9 DEF LeftOf
<1>10. CASE /\ \A i \in Fhs : m.files[i] = was.files[i] \/ was.files[i] = Temp
            /\ \A i \in Fbs : m.fbs[i] = was.fbs[i] \/ was.fbs[i] = Temp
  <2>1. \A i \in Fhs : m.files[i] = kept.files[i] BY <1>2, <1>3, <1>10 DEF LeftOf
  <2>2. \A i \in Fbs : m.fbs[i] = kept.fbs[i] BY <1>2, <1>3, <1>10 DEF LeftOf
  <2>3. m.files = kept.files /\ m.fbs = kept.fbs BY <1>1, <2>1, <2>2 DEF Areas
  <2> QED BY <2>3 DEF kept
<1> QED BY <1>8, <1>9, <1>10

-----------------------------------------------------------------------------
(* Preservation, action by action *)

\* A step to a place about which nothing is promised, that leaves the devices alone.
LEMMA QuietStep ==
    ASSUME FInv, UNCHANGED <<super, areas, saved, formatted>>,
           loaded' \in Areas, todo' \subseteq Devices,
           pc' \in {"idle", "format_super", "scan", "prefetch", "read_all"}
    PROVE  FInv'
BY DEF FInv, AreaTypes, LoadedIsThere, LoadedAccepted, WrittenInOrder, FormattedAccepted,
   LostInOrder

\* The end of the process is such a step.
LEMMA QuietExit ==
    ASSUME FInv, Exit, UNCHANGED <<super, areas, saved, formatted>>
    PROVE  FInv'
BY QuietStep, RawFresh DEF Exit

\* Once the areas and the history are accounted for, the end of the process leaves
\* no other promise.
LEMMA ExitAfter ==
    ASSUME Exit, areas' \in [Devices -> Areas], saved' \in [Devices -> Areas],
           formatted' \subseteq Devices, FormattedAccepted', LostInOrder'
    PROVE  FInv'
<1>1. loaded' \in Areas /\ todo' = {} /\ pc' = "idle" BY RawFresh DEF Exit
<1> QED BY <1>1 DEF FInv, AreaTypes, LoadedIsThere, LoadedAccepted, WrittenInOrder

\* At the end of every format and use, saved is what the device holds; where one
\* device changes, the others keep what they had.
LEMMA OneDevice ==
    ASSUME FInv, NEW d \in Devices, NEW m \in Areas, NEW was \in Areas,
           areas' = [areas EXCEPT ![d] = m], saved' = [saved EXCEPT ![d] = was],
           LeftOf(m, was)
    PROVE  areas' \in [Devices -> Areas] /\ saved' \in [Devices -> Areas] /\ LostInOrder'
<1>1. areas \in [Devices -> Areas] /\ saved \in [Devices -> Areas] BY DEF FInv, AreaTypes
<1>2. ASSUME NEW e \in Devices PROVE LeftOf(areas'[e], saved'[e])
  BY <1>1 DEF FInv, LostInOrder
<1> QED BY <1>1, <1>2 DEF LostInOrder

\* The super block is written: the device is not a formatted one any more.
LEMMA FormatSuperKeeps ==
    ASSUME MInv, FInv, NEW good \in BOOLEAN, FormatSuper(good)
    PROVE  FInv'
<1> DEFINE d == dev_fd_direct
<1>1. CASE ~(InDevice(0, PageSize) /\ good)
  BY <1>1, QuietExit DEF FormatSuper
<1>2. CASE InDevice(0, PageSize) /\ good
  <2>1. /\ pc' = "dirs" /\ super' = [super EXCEPT ![d] = curr_block_num(dev_size)]
        /\ formatted' = formatted \ {d}
        /\ UNCHANGED <<areas, saved, loaded, todo, dev_fd_direct>>
    BY <1>2 DEF FormatSuper, Goto, FirstArea, device, memory
  <2>2. super \in [Devices -> {Bad} \cup Nat] BY DEF MInv, DeviceTypes
  <2>3. FormattedAccepted'
    BY <2>1, <2>2 DEF FInv, AreaTypes, FormattedAccepted
  <2>4. super'[d] # Bad
    <3>1. d \in Devices BY DEF FormatSuper, At, MInv, DeviceTypes, DescriptorsAgree
    <3>2. curr_block_num(dev_size) \in Nat BY CountFits DEF MInv, DeviceTypes
    <3> QED BY <2>1, <2>2, <3>1, <3>2 DEF Bad
  <2> QED BY <2>1, <2>3, <2>4 DEF FInv, AreaTypes, LoadedIsThere, LoadedAccepted,
        WrittenInOrder, LostInOrder
<1> QED BY <1>1, <1>2

\* Rewriting some metas of an area, all those before it being free, loses them in
\* order.
LEMMA AreaLost ==
    ASSUME NEW m \in Areas, NEW was \in Areas, LeftOf(m, was), NEW new \in Areas,
           NEW a \in {"dirs", "files", "fbs"}, NEW S,
           new = [m EXCEPT ![a] = [i \in DOMAIN @ |-> IF i \in S THEN Free ELSE @[i]]],
           a \in {"files", "fbs"} => m.dirs = Fresh.dirs,
           a = "fbs" => m.files = Fresh.files
    PROVE  LeftOf(new, was)
<1>1. CASE a = "dirs"
  <2>1. new.files = m.files /\ new.fbs = m.fbs BY <1>1 DEF Areas
  <2>2. m.dirs = Fresh.dirs => new.dirs = Fresh.dirs BY <1>1 DEF Areas, Fresh
  <2> QED BY <2>1, <2>2 DEF LeftOf
<1>2. CASE a = "files"
  <2>1. new.dirs = m.dirs /\ new.fbs = m.fbs BY <1>2 DEF Areas
  <2>2. \A i \in Fhs : new.files[i] \in {m.files[i], Free} BY <1>2 DEF Areas
  <2>3. m.files = Fresh.files => new.files = Fresh.files BY <1>2 DEF Areas, Fresh
  <2> QED BY <1>2, <2>1, <2>2, <2>3 DEF LeftOf
<1>3. CASE a = "fbs"
  <2>1. new.dirs = m.dirs /\ new.files = m.files BY <1>3 DEF Areas
  <2>2. \A i \in Fbs : new.fbs[i] \in {m.fbs[i], Free} BY <1>3 DEF Areas
  <2> QED BY <1>3, <2>1, <2>2 DEF LeftOf
<1> QED BY <1>1, <1>2, <1>3

\* The write of an area that stops half way.
LEMMA FormatStopsKeeps ==
    ASSUME MInv, FInv, NEW a \in {"dirs", "files", "fbs"}, NEW S, FormatStops(a, S)
    PROVE  FInv'
<1> DEFINE d == dev_fd_direct
           m == areas[d]
           new == [m EXCEPT ![a] = [i \in DOMAIN @ |-> IF i \in S THEN Free ELSE @[i]]]
<1>1. /\ pc = a /\ Exit /\ UNCHANGED <<super, saved, formatted>>
      /\ areas' = [areas EXCEPT ![d] = new]
  BY DEF FormatStops, At, history
<1>2. d \in Devices BY <1>1 DEF MInv, DeviceTypes, DescriptorsAgree
<1>3. m \in Areas /\ saved[d] \in Areas /\ LeftOf(m, saved[d]) /\ saved' = [saved EXCEPT ![d] = saved[d]]
  BY <1>1, <1>2 DEF FInv, AreaTypes, LostInOrder
<1>4. new \in Areas
  BY <1>3 DEF Areas, Free
<1>5. /\ a \in {"files", "fbs"} => m.dirs = Fresh.dirs
      /\ a = "fbs" => m.files = Fresh.files
      /\ d \notin formatted
  BY <1>1 DEF FInv, WrittenInOrder
<1>6. LeftOf(new, saved[d]) BY <1>3, <1>4, <1>5, AreaLost
<1> HIDE DEF new
<1>7. areas' \in [Devices -> Areas] /\ saved' \in [Devices -> Areas] /\ LostInOrder'
  BY <1>1, <1>2, <1>3, <1>4, <1>6, OneDevice
<1>8. FormattedAccepted' /\ formatted' \subseteq Devices
  BY <1>1, <1>5 DEF FInv, AreaTypes, FormattedAccepted
<1> QED BY <1>1, <1>7, <1>8, ExitAfter

\* The write of a whole area.
LEMMA FormatAreaKeeps ==
    ASSUME MInv, FInv, NEW a \in {"dirs", "files", "fbs"}, FormatArea(a)
    PROVE  FInv'
<1> DEFINE d == dev_fd_direct
           m == areas[d]
           new == [m EXCEPT ![a] = Fresh[a]]
<1>1. /\ pc = a /\ pc' = NextArea(a) /\ areas' = [areas EXCEPT ![d] = new]
      /\ UNCHANGED <<super, saved, formatted, loaded, todo, dev_fd_direct>>
  BY DEF FormatArea, At, Goto, history, memory, device
<1>2. d \in Devices BY <1>1 DEF MInv, DeviceTypes, DescriptorsAgree
<1>3. m \in Areas /\ saved[d] \in Areas /\ LeftOf(m, saved[d]) /\ saved' = [saved EXCEPT ![d] = saved[d]]
  BY <1>1, <1>2 DEF FInv, AreaTypes, LostInOrder
<1>4. /\ a \in {"files", "fbs"} => m.dirs = Fresh.dirs
      /\ a = "fbs" => m.files = Fresh.files
      /\ d \notin formatted /\ super[d] # Bad
  BY <1>1 DEF FInv, WrittenInOrder
<1>5. new \in Areas
  <2>1. CASE a = "dirs" BY <2>1, <1>3 DEF Areas, Fresh
  <2>2. CASE a = "files" BY <2>2, <1>3 DEF Areas, Fresh
  <2>3. CASE a = "fbs" BY <2>3, <1>3 DEF Areas, Fresh
  <2> QED BY <2>1, <2>2, <2>3
<1>6. new = [m EXCEPT ![a] = [i \in DOMAIN @ |-> IF i \in Dhs \cup Fhs \cup Fbs THEN Free ELSE @[i]]]
  <2>1. CASE a = "dirs" BY <2>1, <1>3 DEF Areas, Fresh
  <2>2. CASE a = "files" BY <2>2, <1>3 DEF Areas, Fresh
  <2>3. CASE a = "fbs" BY <2>3, <1>3 DEF Areas, Fresh
  <2> QED BY <2>1, <2>2, <2>3
<1>7. LeftOf(new, saved[d])
  <2> DEFINE all == Dhs \cup Fhs \cup Fbs
             was == saved[d]
  <2>1. new = [m EXCEPT ![a] = [i \in DOMAIN @ |-> IF i \in all THEN Free ELSE @[i]]]
    BY <1>6
  <2>2. was \in Areas /\ LeftOf(m, was) BY <1>3
  <2> HIDE DEF new, m, all, was
  <2>3. LeftOf(new, was) BY <1>3, <1>4, <1>5, <2>1, <2>2, AreaLost
  <2> QED BY <2>3 DEF was
<1>8. /\ pc' \in {"files", "fbs", "done"} => new.dirs = Fresh.dirs
      /\ pc' \in {"fbs", "done"} => new.files = Fresh.files
      /\ pc' = "done" => new.fbs = Fresh.fbs
      /\ pc' \in {"files", "fbs", "done"}
  <2>1. CASE a = "dirs"
    <3>1. pc' = "files" BY <1>1, <2>1 DEF NextArea
    <3> QED BY <2>1, <3>1, <1>3 DEF Areas
  <2>2. CASE a = "files"
    <3>1. pc' = "fbs" BY <1>1, <2>2 DEF NextArea
    <3> QED BY <2>2, <3>1, <1>3, <1>4 DEF Areas
  <2>3. CASE a = "fbs"
    <3>1. pc' = "done" BY <1>1, <2>3 DEF NextArea
    <3> QED BY <2>3, <3>1, <1>3, <1>4 DEF Areas
  <2> QED BY <2>1, <2>2, <2>3
<1> HIDE DEF new
<1>9. areas' \in [Devices -> Areas] /\ saved' \in [Devices -> Areas] /\ LostInOrder'
  BY <1>1, <1>2, <1>3, <1>5, <1>7, OneDevice
<1>10. FormattedAccepted'
  BY <1>1, <1>4 DEF FInv, AreaTypes, FormattedAccepted
<1>11. areas'[dev_fd_direct'] = new BY <1>1, <1>2 DEF FInv, AreaTypes
<1>12. WrittenInOrder' BY <1>1, <1>4, <1>8, <1>11 DEF WrittenInOrder
<1> QED BY <1>1, <1>8, <1>9, <1>10, <1>12 DEF FInv, AreaTypes, LoadedIsThere, LoadedAccepted

\* The end of a format: the device is fresh, and accepted as such.
LEMMA FormatDoneKeeps ==
    ASSUME MInv, FInv, FormatDone
    PROVE  FInv'
<1> DEFINE d == dev_fd_direct
<1>1. /\ pc = "done" /\ Exit /\ formatted' = formatted \cup {d}
      /\ saved' = [saved EXCEPT ![d] = areas[d]] /\ UNCHANGED <<super, areas>>
  BY DEF FormatDone, At
<1>2. d \in Devices BY <1>1 DEF MInv, DeviceTypes, DescriptorsAgree
<1>3. areas[d] \in Areas /\ areas' = [areas EXCEPT ![d] = areas[d]]
  BY <1>1, <1>2 DEF FInv, AreaTypes
<1>4. areas[d] = Fresh
  <2>1. areas[d].dirs = Fresh.dirs /\ areas[d].files = Fresh.files /\ areas[d].fbs = Fresh.fbs
    BY <1>1 DEF FInv, WrittenInOrder
  <2> QED BY <1>3, <2>1 DEF Areas, Fresh
<1>5. areas' \in [Devices -> Areas] /\ saved' \in [Devices -> Areas] /\ LostInOrder'
  BY <1>1, <1>2, <1>3, LeftOfSelf, OneDevice
<1>6. super[d] # Bad BY <1>1 DEF FInv, WrittenInOrder
<1>7. FormattedAccepted' /\ formatted' \subseteq Devices
  BY <1>1, <1>2, <1>4, <1>6, RawFresh DEF FInv, AreaTypes, FormattedAccepted
<1> QED BY <1>1, <1>5, <1>7, ExitAfter

\* The metadata is read into memory as it is.
LEMMA ShmInitializeKeeps ==
    ASSUME MInv, FInv, ShmInitialize
    PROVE  FInv'
<1>1. CASE ~(PrefetchSuperMeta /\ ReadAllMeta)
  BY <1>1, QuietExit DEF ShmInitialize, history
<1>2. CASE PrefetchSuperMeta /\ ReadAllMeta
  <2>1. /\ pc = "read_all" /\ pc' = "initialize" /\ loaded' = areas[dev_fd_direct]
        /\ UNCHANGED <<super, areas, saved, formatted, todo, dev_fd_direct>>
    BY <1>2 DEF ShmInitialize, At, Goto, history, device
  <2>2. dev_fd_direct \in Devices BY <2>1 DEF MInv, DeviceTypes, DescriptorsAgree
  <2> QED BY <2>1, <2>2 DEF FInv, AreaTypes, LoadedIsThere, LoadedAccepted, WrittenInOrder,
        FormattedAccepted, LostInOrder
<1> QED BY <1>1, <1>2

\* InitializeMeta clears temporary metas, all of them if it accepts the rest.
LEMMA InitializeMetaKeeps ==
    ASSUME MInv, FInv, NEW X, InitializeMeta(X)
    PROVE  FInv'
<1> DEFINE d == dev_fd_direct
           m == loaded
           new == Cleared(m, X)
<1>1. pc = "initialize" /\ X \subseteq TempsIn(m) /\ UNCHANGED <<super, saved, formatted>>
  BY DEF InitializeMeta, At, history
<1>2. d \in Devices BY <1>1 DEF MInv, DeviceTypes, DescriptorsAgree
<1>3. m = areas[d] /\ m \in Areas /\ areas \in [Devices -> Areas]
  BY <1>1 DEF FInv, AreaTypes, LoadedIsThere
<1>4. areas' = [areas EXCEPT ![d] = new] BY <1>3 DEF InitializeMeta
<1>5. new \in Areas BY <1>1, <1>3, ClearedAreas
<1>6. saved[d] \in Areas /\ LeftOf(m, saved[d]) /\ saved' = [saved EXCEPT ![d] = saved[d]]
  BY <1>1, <1>2, <1>3 DEF FInv, AreaTypes, LostInOrder
<1>7. LeftOf(new, saved[d]) BY <1>1, <1>3, <1>6, ClearedLeft
<1>8. \A E : Linked(m, E) => Linked(new, E) BY <1>1, <1>3, ClearedLinked
<1> DEFINE ok == SuperAccepted(d) /\ Accepted(m) /\ X = TempsIn(m)
<1>9. ok => TempsIn(new) = {}
  <2> SUFFICES ASSUME X = TempsIn(m), NEW x \in TempsIn(new) PROVE FALSE OBVIOUS
  <2>1. /\ x \in {"files", "fbs"} \X (Fhs \cup Fbs)
        /\ x[2] \in DOMAIN new[x[1]] /\ new[x[1]][x[2]] = Temp
    BY DEF TempsIn
  <2>2. PICK a \in {"files", "fbs"}, i \in Fhs \cup Fbs : x = <<a, i>> BY <2>1
  <2>3. CASE a = "files"
    <3>1. i \in Fhs /\ new.files[i] = Temp BY <1>5, <2>1, <2>2, <2>3 DEF Areas
    <3>2. m.files[i] # Temp \/ <<"files", i>> \in TempsIn(m) BY <1>3, <3>1 DEF TempsIn, Areas
    <3>3. new.files[i] = IF <<"files", i>> \in X THEN Free ELSE m.files[i]
      BY <1>1, <1>3, <3>1, ClearedAreas
    <3> QED BY <3>1, <3>2, <3>3 DEF Temp, Free
  <2>4. CASE a = "fbs"
    <3>1. i \in Fbs /\ new.fbs[i] = Temp BY <1>5, <2>1, <2>2, <2>4 DEF Areas
    <3>2. m.fbs[i] # Temp \/ <<"fbs", i>> \in TempsIn(m) BY <1>3, <3>1 DEF TempsIn, Areas
    <3>3. new.fbs[i] = IF <<"fbs", i>> \in X THEN Free ELSE m.fbs[i]
      BY <1>1, <1>3, <3>1, ClearedAreas
    <3> QED BY <3>1, <3>2, <3>3 DEF Temp, Free
  <2> QED BY <2>2, <2>3, <2>4
<1>10. ok => pc' = "accepted" /\ loaded' = new /\ UNCHANGED <<todo, dev_fd_direct>>
  BY DEF InitializeMeta, Goto, device
<1>11. ~ok => Exit BY DEF InitializeMeta
<1> HIDE DEF new
<1>12. areas' \in [Devices -> Areas] /\ saved' \in [Devices -> Areas] /\ LostInOrder'
  BY <1>1, <1>2, <1>4, <1>5, <1>6, <1>7, OneDevice
<1>13. areas'[d] = new /\ \A e \in Devices : e # d => areas'[e] = areas[e]
  BY <1>2, <1>3, <1>4
<1>14. FormattedAccepted' /\ formatted' \subseteq Devices
  BY <1>1, <1>3, <1>8, <1>13 DEF FInv, AreaTypes, FormattedAccepted
<1>15. CASE ok
  <2>1. Linked(new, {}) /\ TempsIn(new) = {} BY <1>8, <1>9, <1>15, LinkedAccepted
  <2> QED BY <1>1, <1>5, <1>10, <1>12, <1>13, <1>14, <1>15, <2>1 DEF FInv, AreaTypes,
        LoadedIsThere, LoadedAccepted, WrittenInOrder
<1>16. CASE ~ok BY <1>11, <1>12, <1>14, <1>16, ExitAfter
<1> QED BY <1>15, <1>16

\* What a mounted file system has written, if it is sound but for what is spoilt, is
\* what later formats may lose.
LEMMA WrittenBack ==
    ASSUME MInv, FInv, NEW m \in Areas, Linked(m, {Spoilt}), pc \in {"accepted", "mounted"},
           pc' = "mounted", loaded' = m,
           areas' = [areas EXCEPT ![dev_fd_direct] = m],
           saved' = [saved EXCEPT ![dev_fd_direct] = m],
           UNCHANGED <<super, formatted, todo, dev_fd_direct>>
    PROVE  FInv'
<1> DEFINE d == dev_fd_direct
<1>1. d \in Devices /\ super[d] # Bad
  BY DEF MInv, DeviceTypes, DescriptorsAgree, PoolCounts
<1>2. areas' \in [Devices -> Areas] /\ saved' \in [Devices -> Areas] /\ LostInOrder'
  BY <1>1, LeftOfSelf, OneDevice
<1>3. areas \in [Devices -> Areas] BY DEF FInv, AreaTypes
<1>4. areas'[d] = m /\ \A e \in Devices : e # d => areas'[e] = areas[e]
  BY <1>1, <1>3
<1>5. FormattedAccepted' /\ formatted' \subseteq Devices
  BY <1>1, <1>4 DEF FInv, AreaTypes, FormattedAccepted
<1> QED BY <1>2, <1>4, <1>5 DEF FInv, AreaTypes, LoadedIsThere, LoadedAccepted,
      WrittenInOrder

\* The mount point becomes the first directory of a device without one.
LEMMA MakeMountPointKeeps ==
    ASSUME MInv, FInv, MakeMountPoint
    PROVE  FInv'
<1> DEFINE rooted == [loaded EXCEPT !.dirs[RootDh] = RootDh]
<1>1. pc = "accepted" /\ loaded \in Areas /\ Linked(loaded, {})
  BY DEF MakeMountPoint, At, FInv, AreaTypes, LoadedAccepted
<1>2. CASE UsedIn(loaded.dirs) = {}
  <2>1. rooted.files = loaded.files /\ rooted.fbs = loaded.fbs
        /\ rooted.dirs = [loaded.dirs EXCEPT ![RootDh] = RootDh]
        /\ rooted \in Areas
    <3>1. loaded.dirs \in [Dhs -> {Spoilt, Bad, Free} \cup Dhs] BY <1>1 DEF Areas
    <3>2. [loaded.dirs EXCEPT ![RootDh] = RootDh] \in [Dhs -> {Spoilt, Bad, Free} \cup Dhs]
      BY <3>1 DEF RootDh, Dhs
    <3> QED BY <1>1, <3>2 DEF Areas
  <2>2. UsedIn(loaded.files) = {}
    BY <1>1, <1>2 DEF Linked
  <2>3. \A i \in UsedIn(rooted.dirs) : i = RootDh /\ rooted.dirs[i] = RootDh
    BY <1>1, <1>2, <2>1 DEF UsedIn, Areas
  <2>4. CrcsMatch(rooted.dirs)
    BY <1>1, <2>1 DEF Linked, CrcsMatch, Areas, RootDh, Bad
  <2> HIDE DEF rooted
  <2>5. Linked(rooted, {Spoilt})
    BY <1>1, <2>1, <2>2, <2>3, <2>4 DEF Linked
  <2>6. /\ pc' = "mounted" /\ loaded' = rooted
        /\ areas' = [areas EXCEPT ![dev_fd_direct] = rooted]
        /\ saved' = [saved EXCEPT ![dev_fd_direct] = rooted]
        /\ UNCHANGED <<super, formatted, todo, dev_fd_direct>>
    BY <1>2 DEF MakeMountPoint, Goto, device, rooted
  <2> QED BY <1>1, <2>1, <2>5, <2>6, WrittenBack
<1>3. CASE UsedIn(loaded.dirs) # {}
  <2>1. /\ pc' = "mounted" /\ loaded' = loaded
        /\ areas' = [areas EXCEPT ![dev_fd_direct] = loaded]
        /\ saved' = [saved EXCEPT ![dev_fd_direct] = loaded]
        /\ UNCHANGED <<super, formatted, todo, dev_fd_direct>>
    BY <1>3 DEF MakeMountPoint, Goto, device
  <2> QED BY <1>1, <2>1, LinkedMore, WrittenBack
<1> QED BY <1>2, <1>3

\* The mounted file system writes a meta that is sound but for what is spoilt.
LEMMA WriteMetaKeeps ==
    ASSUME MInv, FInv, NEW m \in Areas, Linked(m, {Spoilt}), WriteMeta(m)
    PROVE  FInv'
<1>1. /\ pc = "mounted" /\ pc' = "mounted" /\ loaded' = m
      /\ areas' = [areas EXCEPT ![dev_fd_direct] = m]
      /\ saved' = [saved EXCEPT ![dev_fd_direct] = m]
      /\ UNCHANGED <<super, formatted, todo, dev_fd_direct>>
  BY DEF WriteMeta, At, device
<1> QED BY <1>1, WrittenBack

\* What is in memory while the file system is mounted.
LEMMA MountedLinked ==
    ASSUME FInv, NEW m, WriteMeta(m)
    PROVE  loaded \in Areas /\ Linked(loaded, {Spoilt})
BY DEF WriteMeta, At, FInv, AreaTypes, LoadedAccepted

\* A meta comes into use.
LEMMA UseKeeps ==
    ASSUME MInv, FInv, NEW a \in {"dirs", "files", "fbs"}, NEW i,
           NEW owner, Use(a, i, owner)
    PROVE  FInv'
<1>1. loaded \in Areas /\ Linked(loaded, {Spoilt}) BY MountedLinked DEF Use
<1>2. i \in DOMAIN loaded[a] /\ (owner = Temp => ~PointedTo(a, i)) BY DEF Use
<1>3. \/ a = "dirs" /\ owner \in UsedIn(loaded.dirs)
      \/ a = "files" /\ owner \in UsedIn(loaded.dirs) \cup {Temp}
      \/ a = "fbs" /\ owner \in UsedIn(loaded.files) \cup {Temp}
  BY DEF Use, Owners
<1>4. owner # Free /\ (a = "dirs" => owner # Temp)
  <2>1. UsedIn(loaded.dirs) \subseteq Dhs /\ UsedIn(loaded.files) \subseteq Dhs
    BY <1>1 DEF UsedIn, Areas, Dhs, Fhs
  <2>2. Dhs \subseteq Nat BY LayoutAssumption DEF Dhs
  <2> QED BY <1>3, <2>1, <2>2 DEF Free, Temp
<1>5. owner = Temp /\ a = "files" => \A j \in Fbs : loaded.fbs[j] # i
  BY <1>2 DEF PointedTo
<1> DEFINE m == [loaded EXCEPT ![a][i] = owner]
<1>6. m \in Areas /\ Linked(m, {Spoilt})
  BY <1>1, <1>2, <1>3, <1>4, <1>5, OneMetaLinked
<1>7. WriteMeta(m) BY DEF Use
<1> HIDE DEF m
<1> QED BY <1>6, <1>7, WriteMetaKeeps

\* A meta to which nothing points is cleared.
LEMMA ClearKeeps ==
    ASSUME MInv, FInv, NEW a \in {"dirs", "files", "fbs"}, NEW i, Clear(a, i)
    PROVE  FInv'
<1>1. loaded \in Areas /\ Linked(loaded, {Spoilt}) BY MountedLinked DEF Clear
<1>2. i \in DOMAIN loaded[a] /\ ~PointedTo(a, i) BY DEF Clear
<1>3. /\ a = "dirs" => \A j \in Dhs : loaded.dirs[j] # i /\ loaded.files[j] # i
      /\ a = "files" => \A j \in Fbs : loaded.fbs[j] # i
  BY <1>2 DEF PointedTo
<1> DEFINE m == [loaded EXCEPT ![a][i] = Free]
<1>4. m \in Areas /\ Linked(m, {Spoilt}) BY <1>1, <1>2, <1>3, OneMetaLinked
<1>5. WriteMeta(m) BY DEF Clear
<1> HIDE DEF m
<1> QED BY <1>4, <1>5, WriteMetaKeeps

\* A meta is spoilt.
LEMMA SpoiltKeeps ==
    ASSUME MInv, FInv, NEW a \in {"dirs", "files", "fbs"}, NEW i \in DOMAIN loaded[a],
           WriteMeta([loaded EXCEPT ![a][i] = Spoilt])
    PROVE  FInv'
<1>1. loaded \in Areas /\ Linked(loaded, {Spoilt}) BY MountedLinked
<1> DEFINE m == [loaded EXCEPT ![a][i] = Spoilt]
<1>2. Spoilt \notin {Free, Temp} BY DEF Spoilt, Free, Temp
<1>3. m \in Areas /\ Linked(m, {Spoilt}) BY <1>1, <1>2, OneMetaLinked
<1>4. WriteMeta(m) OBVIOUS
<1> HIDE DEF m
<1> QED BY <1>3, <1>4, WriteMetaKeeps

\* Every step keeps the invariant.
LEMMA FormatStep ==
    ASSUME MInv, FInv, [Next]_vars
    PROVE  FInv'
<1>1. loaded \in Areas /\ todo \subseteq Devices BY DEF FInv, AreaTypes
<1>2. ASSUME NEW d \in Devices, NEW stop \in Stops, Format(d, stop) PROVE FInv'
  <2>1. CASE stop = "none"
    BY <1>1, <1>2, <2>1, QuietStep DEF Format, Goto, memory, history
  <2>2. CASE stop # "none" BY <1>2, <2>2, QuietExit DEF Format, history
  <2> QED BY <2>1, <2>2
<1>3. ASSUME NEW d \in Devices, NEW stop \in Stops, OpenTarget(d, stop) PROVE FInv'
  BY <1>1, <1>3, QuietStep DEF OpenTarget, Goto, memory, history
<1>4. ASSUME NEW d \in Devices, NEW stop \in Stops, Check(d, stop) PROVE FInv'
  <2>1. CASE stop = "none"
    BY <1>1, <1>4, <2>1, QuietStep DEF Check, Goto, memory, history
  <2>2. CASE stop # "none" BY <1>4, <2>2, QuietExit DEF Check, history
  <2> QED BY <2>1, <2>2
<1>5. ASSUME NEW good \in BOOLEAN, FormatSuper(good) PROVE FInv'
  BY <1>5, FormatSuperKeeps
<1>6. ASSUME NEW a \in {"dirs", "files", "fbs"}, FormatArea(a) PROVE FInv'
  BY <1>6, FormatAreaKeeps
<1>7. ASSUME NEW a \in {"dirs", "files", "fbs"}, NEW S, FormatStops(a, S) PROVE FInv'
  BY <1>7, FormatStopsKeeps
<1>8. CASE FormatDone BY <1>8, FormatDoneKeeps
<1>9. CASE MountFileSystem
  BY <1>1, <1>9, QuietStep DEF MountFileSystem, Goto, memory, history
<1>10. CASE PrefetchUuid
  BY <1>1, <1>10, QuietStep DEF PrefetchUuid, Goto, memory, history
<1>11. CASE NoTarget BY <1>11, QuietExit DEF NoTarget, history
<1>12. CASE ShmInitialize BY <1>12, ShmInitializeKeeps
<1>13. ASSUME NEW X, InitializeMeta(X) PROVE FInv' BY <1>13, InitializeMetaKeeps
<1>14. CASE MakeMountPoint BY <1>14, MakeMountPointKeeps
<1>15. CASE Checked BY <1>15, QuietExit DEF Checked, history
<1>16. ASSUME NEW a \in {"dirs", "files", "fbs"}, NEW i, NEW owner, Use(a, i, owner)
       PROVE  FInv'
  BY <1>16, UseKeeps
<1>19. ASSUME NEW a \in {"dirs", "files", "fbs"}, NEW i, Clear(a, i) PROVE FInv'
  BY <1>19, ClearKeeps
<1>20. /\ DOMAIN loaded["dirs"] = Dhs /\ DOMAIN loaded["files"] = Dhs
       /\ DOMAIN loaded["fbs"] = Fbs
  BY <1>1 DEF Areas, Dhs, Fhs
<1>21. ASSUME NEW i \in Dhs, StalePath(i) PROVE FInv'
  BY <1>20, <1>21, SpoiltKeeps DEF StalePath
<1>22. ASSUME NEW i \in Fbs, ClaimedTwice(i) PROVE FInv'
  BY <1>20, <1>22, SpoiltKeeps DEF ClaimedTwice
<1>23. ASSUME NEW a \in {"dirs", "files"}, NEW i \in Dhs, StaleCrc(a, i) PROVE FInv'
  BY <1>20, <1>23, SpoiltKeeps DEF StaleCrc
<1>17. CASE Stop BY <1>17, QuietExit DEF Stop, history
<1>18. CASE UNCHANGED vars
  BY <1>18 DEF FInv, AreaTypes, LoadedIsThere, LoadedAccepted, WrittenInOrder,
     FormattedAccepted, LostInOrder, vars, device, memory, history
<1> QED
  BY <1>2, <1>3, <1>4, <1>5, <1>6, <1>7, <1>8, <1>9, <1>10, <1>11, <1>12, <1>13,
     <1>14, <1>15, <1>16, <1>17, <1>18, <1>19, <1>21, <1>22, <1>23 DEF Next, MountedStep

\* Devices that were never written promise nothing.
LEMMA FormatInit == Init => FInv
<1> SUFFICES ASSUME Init PROVE FInv OBVIOUS
<1>1. /\ pc = "idle" /\ todo = {} /\ formatted = {} /\ loaded = Raw
      /\ areas = [d \in Devices |-> Raw] /\ saved = [d \in Devices |-> Raw]
  BY DEF Init
<1>2. AreaTypes BY <1>1, RawFresh DEF AreaTypes
<1>3. LoadedIsThere /\ LoadedAccepted /\ WrittenInOrder /\ FormattedAccepted
  BY <1>1 DEF LoadedIsThere, LoadedAccepted, WrittenInOrder, FormattedAccepted
<1>4. LostInOrder BY <1>1, LeftOfSelf DEF LostInOrder
<1> QED BY <1>2, <1>3, <1>4 DEF FInv

\* Always FInv.
LEMMA FormatInvariant == Spec => []FInv
BY FormatInit, FormatStep, MountInvariant, PTL DEF Spec

-----------------------------------------------------------------------------
(* The theorems *)

\* Every variable of Mount has its type, whatever is on the devices.
THEOREM MountTypeCorrect == Spec => []TypeOK
<1>1. MInv /\ FInv => TypeOK BY DEF MInv, FInv, DeviceTypes, AreaTypes, TypeOK
<1> QED BY <1>1, MountInvariant, FormatInvariant, PTL

\* Wherever a format or the cleaning of temporary files stopped, a mount finds all
\* the files that the device had when it was last used, or none
\* (FileSystem::Format, FileHandle::InitializeMeta, FileBlockHandle::InitializeMeta).
THEOREM FilesAlwaysAllOrNone == Spec => []FilesAllOrNone
<1>1. ASSUME MInv, FInv PROVE FilesAllOrNone
  <2> SUFFICES ASSUME pc = "accepted" PROVE FilesAllOrNone BY DEF FilesAllOrNone, At
  <2>1. dev_fd_direct \in Devices BY <1>1 DEF MInv, DeviceTypes, DescriptorsAgree
  <2>2. /\ loaded \in Areas /\ saved[dev_fd_direct] \in Areas
        /\ LeftOf(loaded, saved[dev_fd_direct])
    BY <1>1, <2>1 DEF FInv, AreaTypes, LoadedIsThere, LostInOrder
  <2>3. Accepted(loaded) /\ TempsIn(loaded) = {}
    BY <1>1, LinkedAccepted DEF FInv, LoadedAccepted
  <2> QED BY <2>2, <2>3, LeftAllOrNone DEF FilesAllOrNone
<1> QED BY <1>1, MountInvariant, FormatInvariant, PTL

\* A device whose format was reported a success is accepted by every later mount,
\* wherever the operations on it were interrupted, unless a meta is spoilt: no other
\* bad crc, directory without its parent, file without its directory or FileBlock
\* without its file comes about (FileSystem::Format, the InitializeMeta of the
\* handles, DirHandle::DeleteDirectory, FileHandle::unlink).
THEOREM FormattedAlwaysMounts == Spec => []FormattedMounts
<1>1. ASSUME FInv PROVE FormattedMounts
  <2>1. \A d \in formatted : areas[d] \in Areas BY <1>1 DEF FInv, AreaTypes
  <2> QED BY <1>1, <2>1, UnspoiltAccepted DEF FInv, FormattedAccepted, FormattedMounts
<1> QED BY <1>1, FormatInvariant, PTL
=============================================================================
