--------------------------- MODULE FilesystemProofs ---------------------------
(***************************************************************************)
(* Proofs about the switch of Filesystem.tla, for any number of formats.   *)
(*                                                                         *)
(* RamServes is not inductive: to see that switchToRam succeeds one must   *)
(* know that the RAM disk still holds the volume the boot made, and that   *)
(* no backend leaves the other driver on the SATA disk.  SwitchInv adds    *)
(* those facts.                                                            *)
(***************************************************************************)
EXTENDS Filesystem, TLAPS

\* What each backend implies about both drivers, and the RAM disk's volume.
SwitchInv ==
  /\ TypeOK
  /\ super["ram"].vol = RamVolume
  /\ ext4.mounted
  /\ ext4.geometry = RamVolume
  /\ backend = "ext4Ram"   => ext4.device = "ram" /\ fat = RamFat
  /\ backend = "ext4Sata"  => ext4.device = "sata" /\ fat = RamFat
  /\ backend = "fat32Sata" =>
       /\ ext4.device = "ram" /\ fat = [device |-> "sata", volume |-> boot]
       /\ mbr /\ boot # NoVolume
  /\ shell # "prompt" => backend = "ext4Ram"
  /\ shell = "fatMbr" => boot = NewVolume

\* Volumes are numbered in the order of their formats, and the disk names a FAT32
\* partition only since some format finished.
MbrInv ==
  /\ \A v \in complete : v \in Int /\ v <= NewVolume
  /\ mbr => \E v \in complete : v # RamVolume /\ (v <= boot \/ boot = NoVolume)

\* Mounting yields a driver state.
LEMMA MountVolumeType ==
  ASSUME NEW d \in Device, NEW sup \in Superblock, NEW readable \in BOOLEAN
  PROVE  MountVolume(d, sup, readable) \in Ext4State
<1>1. sup.vol \in Volume /\ (sup.safe /\ sup.clean) \in BOOLEAN
  BY DEF Superblock
<1>2. Detached(d) \in Ext4State
  BY MaxFormatsAssumption DEF Detached, Ext4State, Volume, NoVolume
<1>3. QED
  BY <1>1, <1>2 DEF MountVolume, Ext4State

\* The RAM volume, which every boot formats, can always be mounted.
LEMMA RamMounts ==
  ASSUME NEW sup \in Superblock, sup.vol = RamVolume
  PROVE  /\ MountVolume("ram", sup, TRUE).mounted
         /\ MountVolume("ram", sup, TRUE).device = "ram"
         /\ MountVolume("ram", sup, TRUE).geometry = RamVolume
  BY DEF MountVolume, RamVolume, NoVolume

\* finalize touches nothing but a clean bit.
LEMMA FinalizeDiskType ==
  ASSUME NEW e \in Ext4State, NEW sup \in [Device -> Superblock], NEW wrote \in BOOLEAN
  PROVE  /\ FinalizeDisk(e, sup, wrote) \in [Device -> Superblock]
         /\ \A d \in Device : FinalizeDisk(e, sup, wrote)[d].vol = sup[d].vol
<1>1. e.device \in Device
  BY DEF Ext4State
<1>2. [sup[e.device] EXCEPT !.clean = TRUE] \in Superblock
  BY <1>1 DEF Superblock
<1>3. QED
  BY <1>1, <1>2 DEF FinalizeDisk, Superblock

\* switchToRam succeeds, and leaves the ext4 driver mounted on the RAM volume
\* and FAT32 on its own.
LEMMA SwitchSucceeds ==
  ASSUME SwitchInv, NEW wrote \in BOOLEAN
  PROVE  /\ SwitchSuper(wrote) \in [Device -> Superblock]
         /\ SwitchSuper(wrote)["ram"].vol = RamVolume
         /\ SwitchExt4(wrote) \in Ext4State
         /\ SwitchExt4(wrote).mounted
         /\ SwitchExt4(wrote).device = "ram"
         /\ SwitchExt4(wrote).geometry = RamVolume
         /\ SwitchFat = RamFat
         /\ SwitchBackend(wrote) = "ext4Ram"
         /\ SwitchOK(wrote)
<1> USE DEF SwitchInv, TypeOK
<1>r. "ram" \in Device
  BY DEF Device
<1>1. /\ SwitchSuper(wrote) \in [Device -> Superblock]
      /\ SwitchSuper(wrote)["ram"].vol = RamVolume
  BY FinalizeDiskType, <1>r DEF SwitchSuper
<1>2. CASE backend = "ext4Ram"
  BY <1>1, <1>2 DEF SwitchExt4, SwitchFat, SwitchBackend, SwitchOK
<1>3. CASE backend = "ext4Sata"
  <2>1. SwitchExt4(wrote) = MountVolume("ram", SwitchSuper(wrote)["ram"], TRUE)
    BY <1>3 DEF SwitchExt4, Attach, Detached
  <2>2. SwitchSuper(wrote)["ram"] \in Superblock
    BY <1>1, <1>r
  <2>3. QED
    BY <1>1, <1>3, <1>r, <2>1, <2>2, MountVolumeType, RamMounts
       DEF SwitchFat, SwitchBackend, SwitchOK
<1>4. CASE backend = "fat32Sata"
  <2>1. SwitchExt4(wrote) = [ext4 EXCEPT !.device = "ram"]
    BY <1>4 DEF SwitchExt4, Attach
  <2>2. QED
    BY <1>1, <1>4, <1>r, <2>1 DEF SwitchFat, SwitchBackend, SwitchOK, Ext4State
<1>5. QED
  BY <1>2, <1>3, <1>4 DEF Backend

------------------------------------------------------------------------------

\* The state a boot leaves satisfies the invariant.
LEMMA InitSwitchInv == Init => SwitchInv
<1> SUFFICES ASSUME Init PROVE SwitchInv
  OBVIOUS
<1> USE DEF Init, FatAtBoot, Device, FsType, Backend, NoVolume, RamVolume, FirstSata
<1>1. PICK s \in {NoSuper, Fresh(FirstSata), [Fresh(FirstSata) EXCEPT !.safe = FALSE]} :
        super = [d \in Device |-> IF d = "ram" THEN Fresh(RamVolume) ELSE s]
  OBVIOUS
<1>2. s \in Superblock /\ Fresh(RamVolume) \in Superblock
  <2>1. 0 \in Volume /\ 1 \in Volume /\ 2 \in Volume
    BY MaxFormatsAssumption DEF Volume
  <2>2. NoSuper \in Superblock
    BY <2>1 DEF NoSuper, Superblock
  <2>3. Fresh(1) \in Superblock /\ Fresh(2) \in Superblock
    BY <2>1 DEF Fresh, Superblock
  <2>4. [Fresh(2) EXCEPT !.safe = FALSE] \in Superblock
    BY <2>1 DEF Fresh, Superblock
  <2>5. QED
    BY <2>2, <2>3, <2>4
<1>3. super \in [Device -> Superblock] /\ super["ram"] = Fresh(RamVolume)
  BY <1>1, <1>2
<1>4. ext4 \in Ext4State
  BY <1>2, MountVolumeType
<1>5. ext4.mounted /\ ext4.device = "ram" /\ ext4.geometry = RamVolume
  BY RamMounts, <1>2 DEF Fresh
<1>6. fat \in FatState
  BY MaxFormatsAssumption DEF RamFat, FatState, Volume
<1>7. boot \in Volume /\ complete \subseteq Volume /\ formats \in 0 .. MaxFormats
  BY MaxFormatsAssumption DEF Volume
<1>8. super["ram"].vol = RamVolume
  BY <1>3 DEF Fresh
<1>9. TypeOK
  BY <1>3, <1>4, <1>6, <1>7 DEF TypeOK, Stage
<1>10. QED
  BY <1>5, <1>8, <1>9 DEF SwitchInv

\* mnt, of either type, from any backend.
LEMMA MntPreserves == SwitchInv /\ Mnt => SwitchInv'
<1> SUFFICES ASSUME SwitchInv, Mnt PROVE SwitchInv'
  OBVIOUS
<1>1. PICK wrote \in BOOLEAN, readable \in BOOLEAN :
        IF preferred = "ext4" THEN MountExt4(wrote, readable)
                              ELSE MountFat(wrote, readable)
  BY SwitchSucceeds DEF Mnt
<1> DEFINE sup == SwitchSuper(wrote)
           e   == SwitchExt4(wrote)
<1>2. /\ sup \in [Device -> Superblock] /\ sup["ram"].vol = RamVolume
      /\ e \in Ext4State /\ e.mounted /\ e.device = "ram" /\ e.geometry = RamVolume
      /\ SwitchFat = RamFat
  BY SwitchSucceeds
<1>3. UNCHANGED <<preferred, mbr, boot, complete, shell, formats>> /\ shell = "prompt"
  BY DEF Mnt
<1>4. RamFat \in FatState
  BY MaxFormatsAssumption DEF RamFat, FatState, Volume, RamVolume, Device
<1> HIDE DEF sup, e
<1>5. \A d \in Device, s2 \in Superblock, r \in BOOLEAN :
        /\ Attach(e, d, s2, r) \in Ext4State
        /\ Attach(e, d, s2, r).mounted
        /\ Attach(e, d, s2, r).device = d
        /\ Attach(e, d, s2, r).geometry = RamVolume
  BY <1>2 DEF Attach, Ext4State
<1>6. "ram" \in Device /\ "sata" \in Device
  BY DEF Device
<1>7. CASE preferred = "ext4"
  <2>1. MountExt4(wrote, readable)
    BY <1>1, <1>7
  <2>2. /\ fat' = RamFat /\ super' = sup /\ backend' = "ext4Sata"
        /\ ext4' = Attach(e, "sata", sup["sata"], readable)
    BY <2>1, <1>2, <1>5, <1>6 DEF MountExt4, sup, e
  <2>3. QED
    BY <2>2, <1>2, <1>3, <1>4, <1>5, <1>6 DEF SwitchInv, TypeOK, Backend, Stage
<1>8. CASE preferred # "ext4"
  <2>1. MountFat(wrote, readable) /\ super' = sup
    BY <1>1, <1>8 DEF MountFat, sup
  <2>2. CASE FatRecognized /\ readable
    <3>1. /\ fat' = [device |-> "sata", volume |-> boot]
          /\ backend' = "fat32Sata" /\ ext4' = e
      BY <2>1, <2>2 DEF MountFat, e
    <3>2. fat' \in FatState
      BY <3>1, <1>6 DEF FatState, SwitchInv, TypeOK
    <3>3. QED
      BY <2>1, <2>2, <3>1, <3>2, <1>2, <1>3 DEF SwitchInv, TypeOK, Backend, Stage, FatRecognized
  <2>3. CASE ~(FatRecognized /\ readable)
    <3>1. /\ fat' = RamFat /\ backend' = "ext4Ram"
          /\ ext4' = Attach(e, "ram", sup["ram"], TRUE)
      BY <2>1, <2>3, <1>2 DEF MountFat, e
    <3>2. /\ ext4' \in Ext4State /\ ext4'.mounted
          /\ ext4'.device = "ram" /\ ext4'.geometry = RamVolume
      <4>1. ext4' = [e EXCEPT !.device = "ram"]
        BY <3>1, <1>2 DEF Attach
      <4>2. QED
        BY <4>1, <1>2, <1>6 DEF Ext4State
    <3>3. QED
      BY <2>1, <3>1, <3>2, <1>2, <1>3, <1>4 DEF SwitchInv, TypeOK, Backend, Stage
  <2>4. QED
    BY <2>2, <2>3
<1>9. QED
  BY <1>7, <1>8

\* unmnt and the start of a format both run switchToRam.
LEMMA LeavePreserves ==
  ASSUME SwitchInv, Unmnt \/ \E type \in FsType : DformatStart(type)
  PROVE  SwitchInv'
<1>1. PICK wrote \in BOOLEAN :
        /\ super' = SwitchSuper(wrote) /\ ext4' = SwitchExt4(wrote)
        /\ backend' = SwitchBackend(wrote) /\ fat' = SwitchFat
        /\ UNCHANGED <<preferred, mbr, boot, complete>>
        /\ shell' \in {"prompt", "ext4Wipe", "fatClear"} /\ formats' \in 0 .. MaxFormats
  <2>1. CASE Unmnt
    BY <2>1 DEF Unmnt, SwitchInv, TypeOK
  <2>2. ASSUME NEW type \in FsType, DformatStart(type)
        PROVE  \E wrote \in BOOLEAN :
                 /\ super' = SwitchSuper(wrote) /\ ext4' = SwitchExt4(wrote)
                 /\ backend' = SwitchBackend(wrote) /\ fat' = SwitchFat
                 /\ UNCHANGED <<preferred, mbr, boot, complete>>
                 /\ shell' \in {"prompt", "ext4Wipe", "fatClear"} /\ formats' \in 0 .. MaxFormats
    BY <2>2, MaxFormatsAssumption DEF DformatStart, SwitchInv, TypeOK
  <2>3. QED
    BY <2>1, <2>2
<1>2. RamFat \in FatState
  BY MaxFormatsAssumption DEF RamFat, FatState, Volume, RamVolume, Device
<1>3. QED
  BY <1>1, <1>2, SwitchSucceeds DEF SwitchInv, TypeOK, Backend, Stage

\* A change to the ext4 volume disturbs the disk, not the binding.
LEMMA ModifyPreserves == SwitchInv /\ ModifyExt4 => SwitchInv'
<1> SUFFICES ASSUME SwitchInv, ModifyExt4 PROVE SwitchInv'
  OBVIOUS
<1> USE DEF SwitchInv, TypeOK
<1>1. ext4.device \in Device /\ super[ext4.device] \in Superblock
  BY DEF Ext4State
<1>2. /\ super' \in [Device -> Superblock] /\ super'["ram"].vol = RamVolume
  <2>1. PICK c \in BOOLEAN, i \in BOOLEAN :
          super' = [super EXCEPT ![ext4.device] = [super[ext4.device] EXCEPT !.clean = c, !.intact = i]]
    <3>1. super[ext4.device].clean \in BOOLEAN /\ super[ext4.device].intact \in BOOLEAN
      BY <1>1 DEF Superblock
    <3>2. super' = [super EXCEPT
                     ![ext4.device] = [super[ext4.device] EXCEPT
                        !.clean  = IF ext4.dirty THEN @ ELSE FALSE,
                        !.intact = @ /\ ~StrayGeometry]]
      BY <1>1 DEF ModifyExt4, Superblock
    <3>3. QED
      BY <3>1, <3>2
  <2>2. [super[ext4.device] EXCEPT !.clean = c, !.intact = i] \in Superblock
    BY <1>1 DEF Superblock
  <2>3. [super[ext4.device] EXCEPT !.clean = c, !.intact = i].vol = super[ext4.device].vol
    BY <1>1 DEF Superblock
  <2>4. QED
    BY <1>1, <2>1, <2>2, <2>3 DEF Device
<1>3. /\ ext4' \in Ext4State /\ ext4'.mounted /\ ext4'.geometry = RamVolume
      /\ ext4'.device = ext4.device
  BY DEF ModifyExt4, Ext4State
<1>4. boot' \in Volume /\ complete' \subseteq Volume
  BY MaxFormatsAssumption DEF ModifyExt4, Volume, NoVolume
<1>5. QED
  BY <1>2, <1>3, <1>4 DEF ModifyExt4, Backend

\* The stages of a format write the SATA disk only.
LEMMA FormatPreserves ==
  ASSUME SwitchInv,
         FormatExt4Wipe \/ FormatExt4Build \/ FormatFatClear \/ FormatFatBoot \/ FormatFatMbr
  PROVE  SwitchInv'
<1> USE DEF SwitchInv, TypeOK, Stage, FsType
<1>1. backend = "ext4Ram" /\ UNCHANGED <<backend, ext4, fat, formats>>
  BY DEF FormatExt4Wipe, FormatExt4Build, FormatFatClear, FormatFatBoot, FormatFatMbr
<1>2. NewVolume \in Volume /\ NoVolume \in Volume /\ RamVolume \in Volume
  BY MaxFormatsAssumption DEF NewVolume, Volume, FirstSata, NoVolume, RamVolume
<1>3. /\ super' \in [Device -> Superblock]
      /\ super'["ram"] = super["ram"]
  <2>1. NoSuper \in Superblock /\ Fresh(NewVolume) \in Superblock
    BY <1>2 DEF NoSuper, Fresh, Superblock
  <2>2. [super["sata"] EXCEPT !.intact = FALSE] \in Superblock
    BY DEF Superblock, Device
  <2>3. QED
    BY <2>1, <2>2 DEF FormatExt4Wipe, FormatExt4Build, FormatFatClear, FormatFatBoot,
                      FormatFatMbr, Device
<1>4. mbr' \in BOOLEAN /\ boot' \in Volume /\ complete' \subseteq Volume
  BY <1>2 DEF FormatExt4Wipe, FormatExt4Build, FormatFatClear, FormatFatBoot, FormatFatMbr
<1>5. preferred' \in FsType /\ shell' \in Stage
  BY DEF FormatExt4Wipe, FormatExt4Build, FormatFatClear, FormatFatBoot, FormatFatMbr
<1>6. shell' = "fatMbr" => boot' = NewVolume'
  BY <1>1 DEF FormatExt4Wipe, FormatExt4Build, FormatFatClear, FormatFatBoot, FormatFatMbr,
              NewVolume
<1>7. QED
  BY <1>1, <1>3, <1>4, <1>5, <1>6

\* A reboot reestablishes the invariant from nothing but the types.
LEMMA RebootPreserves == SwitchInv /\ Reboot => SwitchInv'
<1> SUFFICES ASSUME SwitchInv, Reboot PROVE SwitchInv'
  OBVIOUS
<1> USE DEF SwitchInv, TypeOK, Reboot, FatAtBoot
<1>1. Fresh(RamVolume) \in Superblock /\ RamFat \in FatState
  BY MaxFormatsAssumption DEF Fresh, Superblock, RamFat, FatState, Volume, RamVolume, Device
<1>2. Fresh(RamVolume).vol = RamVolume
  BY DEF Fresh
<1>3. ext4' \in Ext4State /\ ext4'.mounted /\ ext4'.device = "ram" /\ ext4'.geometry = RamVolume
  BY <1>1, <1>2, MountVolumeType, RamMounts DEF Device
<1>4. super' \in [Device -> Superblock] /\ super'["ram"].vol = RamVolume
  BY <1>1, <1>2 DEF Device
<1>5. QED
  BY <1>1, <1>3, <1>4 DEF Backend, FsType, Stage

------------------------------------------------------------------------------

\* SwitchInv holds in every reachable state of the switch.
THEOREM SwitchInvariant == Spec => []SwitchInv
<1>1. SwitchInv /\ [Next]_vars => SwitchInv'
  <2> SUFFICES ASSUME SwitchInv, [Next]_vars PROVE SwitchInv'
    OBVIOUS
  <2>1. CASE UNCHANGED vars
    BY <2>1 DEF vars, SwitchInv, TypeOK, NewVolume
  <2>2. CASE Next
    BY <2>2, MntPreserves, LeavePreserves, ModifyPreserves, FormatPreserves, RebootPreserves
       DEF Next
  <2>3. QED
    BY <2>1, <2>2
<1>2. QED
  BY InitSwitchInv, <1>1, PTL DEF Spec

\* The state of the switch keeps its types, whatever fails.
THEOREM TypeCorrect == Spec => []TypeOK
<1>1. SwitchInv => TypeOK
  BY DEF SwitchInv
<1>2. QED
  BY <1>1, SwitchInvariant, PTL

\* Whenever the switch says that the RAM disk serves, both drivers are on it.
THEOREM RamServesAlways == Spec => []RamServes
<1>1. SwitchInv => RamServes
  BY DEF SwitchInv, RamServes
<1>2. QED
  BY <1>1, SwitchInvariant, PTL

\* Whenever the switch says FAT32, FAT32 uses the geometry of the volume there.
THEOREM FatServesAlways == Spec => []FatServes
<1>1. SwitchInv => FatServes
  BY DEF SwitchInv, FatServes
<1>2. QED
  BY <1>1, SwitchInvariant, PTL

\* No driver is bound to the disk while a formatter overwrites it.
THEOREM FormatAloneAlways == Spec => []FormatAlone
<1>1. SwitchInv => FormatAlone
  BY DEF SwitchInv, FormatAlone, RamFat
<1>2. QED
  BY <1>1, SwitchInvariant, PTL

\* Only the last stages of a format and a stray write change what the MBR names.
LEMMA MbrInvPreserved == SwitchInv /\ MbrInv /\ [Next]_vars => MbrInv'
<1> SUFFICES ASSUME SwitchInv, MbrInv, [Next]_vars PROVE MbrInv'
  OBVIOUS
<1>1. formats \in Nat /\ NewVolume \in Int /\ MaxFormats \in Nat /\ boot \in Int
  BY MaxFormatsAssumption DEF SwitchInv, TypeOK, NewVolume, FirstSata, Volume
<1>2. formats' \in Nat /\ NewVolume' >= NewVolume /\ NewVolume' \in Int
  <2>1. formats' = formats \/ formats' = formats + 1
    <3>1. CASE UNCHANGED vars
      BY <3>1 DEF vars
    <3>2. CASE Next
      BY <3>2 DEF Next, Mnt, Unmnt, ModifyExt4, DformatStart, FormatExt4Wipe, FormatExt4Build,
                  FormatFatClear, FormatFatBoot, FormatFatMbr, Reboot
    <3>3. QED
      BY <3>1, <3>2
  <2>2. QED
    BY <1>1, <2>1 DEF NewVolume, FirstSata
<1>3. CASE FormatFatMbr
  <2>1. boot = NewVolume /\ NewVolume' = NewVolume /\ boot' = boot
    BY <1>3 DEF FormatFatMbr, SwitchInv, NewVolume
  <2>2. PICK named \in BOOLEAN, cleared \in BOOLEAN :
          /\ named => cleared
          /\ complete' = IF cleared THEN complete \cup {NewVolume} ELSE complete
          /\ mbr' = (mbr \/ named)
    BY <1>3 DEF FormatFatMbr
  <2>3. NewVolume # RamVolume
    BY <1>1 DEF NewVolume, FirstSata, RamVolume
  <2>4. \A v \in complete' : v \in Int /\ v <= NewVolume'
    BY <1>1, <2>1, <2>2 DEF MbrInv
  <2>5. CASE named
    BY <1>1, <2>1, <2>2, <2>3, <2>4, <2>5 DEF MbrInv
  <2>6. CASE ~named
    BY <2>1, <2>2, <2>4, <2>6 DEF MbrInv
  <2>7. QED
    BY <2>5, <2>6
<1>4. CASE FormatExt4Wipe
  <2>1. PICK mbrGone \in BOOLEAN :
          mbr' = (mbr /\ ~mbrGone) /\ complete' = IF mbrGone THEN {RamVolume} ELSE complete
    BY <1>4 DEF FormatExt4Wipe
  <2>2. boot' = boot /\ NewVolume' = NewVolume
    BY <1>4 DEF FormatExt4Wipe, NewVolume
  <2>3. RamVolume \in Int /\ RamVolume <= NewVolume
    BY <1>1 DEF RamVolume, NewVolume, FirstSata
  <2>4. QED
    BY <2>1, <2>2, <2>3 DEF MbrInv
<1>5. CASE ~FormatFatMbr /\ ~FormatExt4Wipe
  <2>1. complete' = complete /\ mbr' = mbr
    BY <1>5 DEF Next, Mnt, Unmnt, ModifyExt4, DformatStart, FormatExt4Build,
                FormatFatClear, FormatFatBoot, Reboot, vars
  <2>2. boot' \in {boot, NoVolume, NewVolume}
    <3>1. CASE UNCHANGED vars
      BY <3>1 DEF vars
    <3>2. CASE Next
      BY <1>5, <3>2 DEF Next, Mnt, Unmnt, ModifyExt4, DformatStart, FormatExt4Build,
                        FormatFatClear, FormatFatBoot, Reboot
    <3>3. QED
      BY <3>1, <3>2
  <2>3. \A v \in complete' : v \in Int /\ v <= NewVolume'
    BY <1>1, <1>2, <2>1 DEF MbrInv
  <2>4. ASSUME mbr' PROVE \E v \in complete' : v # RamVolume /\ (v <= boot' \/ boot' = NoVolume)
    <3>1. PICK v \in complete : v # RamVolume /\ (v <= boot \/ boot = NoVolume) /\ v <= NewVolume
      BY <2>1, <2>4 DEF MbrInv
    <3>2. v <= boot' \/ boot' = NoVolume
      BY <2>2, <3>1
    <3>3. QED
      BY <2>1, <3>1, <3>2
  <2>5. QED
    BY <2>3, <2>4 DEF MbrInv
<1>6. QED
  BY <1>3, <1>4, <1>5

\* A volume that was formatted half way is mounted only through the MBR of an
\* older one, however many formats there were.
THEOREM HalfFormatHasOldMbrAlways == Spec => []HalfFormatHasOldMbr
<1>1. Init => MbrInv
  BY MaxFormatsAssumption DEF Init, MbrInv, NewVolume, FirstSata, RamVolume
<1>2. SwitchInv /\ MbrInv => HalfFormatHasOldMbr
  <2> SUFFICES ASSUME SwitchInv, MbrInv, backend = "fat32Sata", boot \notin complete
               PROVE  \E v \in complete \ {RamVolume} : v < boot
    BY DEF HalfFormatHasOldMbr
  <2>1. PICK v \in complete : v # RamVolume /\ v <= boot
    BY DEF SwitchInv, MbrInv
  <2>2. v # boot /\ v \in Int /\ boot \in Int
    BY MaxFormatsAssumption DEF MbrInv, SwitchInv, TypeOK, Volume
  <2>3. QED
    BY <2>1, <2>2
<1>3. QED
  BY <1>1, <1>2, MbrInvPreserved, SwitchInvariant, PTL DEF Spec

\* preferred changes only together with a finished volume on the disk, or at a
\* reboot: the boot sector FormatFatMbr finds is the one its own format wrote.
THEOREM PreferredIsFormattedAlways == Spec => PreferredIsFormatted
<1>1. SwitchInv /\ [Next]_vars =>
        [preferred' # preferred =>
           \/ preferred' = "fat32" /\ mbr' /\ boot' \in complete'
           \/ preferred' = "ext4" /\ super'["sata"] = Fresh(NewVolume)
           \/ preferred' = "ext4" /\ Reboot]_vars
  <2> SUFFICES ASSUME SwitchInv, Next, preferred' # preferred
               PROVE  \/ preferred' = "fat32" /\ mbr' /\ boot' \in complete'
                      \/ preferred' = "ext4" /\ super'["sata"] = Fresh(NewVolume)
                      \/ preferred' = "ext4" /\ Reboot
    BY DEF vars
  <2>1. CASE FormatFatMbr
    BY <2>1 DEF FormatFatMbr, SwitchInv, TypeOK
  <2>2. CASE FormatExt4Build
    BY <2>2 DEF FormatExt4Build, SwitchInv, TypeOK, Device
  <2>3. CASE Reboot
    BY <2>3 DEF Reboot
  <2>4. QED
    BY <2>1, <2>2, <2>3 DEF Next, Mnt, Unmnt, ModifyExt4, DformatStart, FormatExt4Wipe,
                            FormatFatClear, FormatFatBoot
<1>2. QED
  BY <1>1, SwitchInvariant, PTL DEF Spec, PreferredIsFormatted

\* The switch implements FileService: each command is one of its steps, and the
\* inner stages of a format are stutters.
THEOREM ImplementsFileService == Spec => RefinesFileService
<1>1. Init => Service!ServiceInit
  BY DEF Init, Service!ServiceInit
<1>2. SwitchInv /\ [Next]_vars => [Service!ServiceNext]_(Service!serviceVars)
  <2> SUFFICES ASSUME SwitchInv, [Next]_vars
               PROVE  [Service!ServiceNext]_(Service!serviceVars)
    OBVIOUS
  <2> USE DEF Service!ServiceNext, Service!serviceVars
  <2>1. CASE UNCHANGED vars
    BY <2>1 DEF vars
  <2>2. CASE Mnt
    BY <2>2 DEF Mnt, Service!MountOutcome
  <2>3. CASE Unmnt
    BY <2>3 DEF Unmnt, Service!MountOutcome
  <2>4. ASSUME NEW type \in FsType, DformatStart(type)
        PROVE  [Service!ServiceNext]_(Service!serviceVars)
    <3>1. backend' = "ext4Ram"
      BY <2>4, SwitchSucceeds DEF DformatStart
    <3>2. shell = "prompt" /\ shell' \in {"prompt", "ext4Wipe", "fatClear"}
      BY <2>4 DEF DformatStart
    <3>3. QED
      BY <3>1, <3>2 DEF Service!MountOutcome, Service!BeginFormat
  <2>5. CASE FormatExt4Wipe \/ FormatExt4Build \/ FormatFatClear \/ FormatFatBoot \/ FormatFatMbr
    BY <2>5 DEF FormatExt4Wipe, FormatExt4Build, FormatFatClear, FormatFatBoot, FormatFatMbr,
                Service!EndFormat
  <2>6. CASE Reboot
    BY <2>6 DEF Reboot, Service!Restart
  <2>7. CASE ModifyExt4
    BY <2>7 DEF ModifyExt4
  <2>8. QED
    BY <2>1, <2>2, <2>3, <2>4, <2>5, <2>6, <2>7 DEF Next
<1>3. QED
  BY <1>1, <1>2, SwitchInvariant, PTL DEF Spec, RefinesFileService, Service!ServiceSpec

==============================================================================
