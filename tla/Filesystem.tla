------------------------------ MODULE Filesystem ------------------------------
(***************************************************************************)
(* The switch between the RAM disk and the SATA disk behind the shell's    *)
(* file commands: Kernel::Filesystem, the mount state of the one static    *)
(* Ext4Driver it owns, the volume selection of Kernel::FAT32, and dformat. *)
(*                                                                         *)
(* The shell runs one command at a time, so a command is one step; dformat *)
(* is split at the writes after which an I/O error or a power cut leaves a *)
(* different disk behind.  A volume is an identity: NoVolume, RamVolume    *)
(* (the RAM disk is formatted by every boot) or the number of the format   *)
(* that made it.  The SATA controller may fail any read or write.          *)
(***************************************************************************)
EXTENDS Integers

CONSTANT MaxFormats   \* bound on the SATA formats started in a behaviour

ASSUME MaxFormatsAssumption == MaxFormats \in Nat

Device   == {"ram", "sata"}
FsType   == {"ext4", "fat32"}
Backend  == {"ext4Ram", "ext4Sata", "fat32Sata"}

NoVolume  == 0
RamVolume == 1
FirstSata == 2                       \* what the disk held at first power-on
Volume    == 0 .. (MaxFormats + 2)

\* An ext4 superblock: the volume it describes, the clean bit of its state
\* word, whether its feature words allow writing, and whether the blocks it
\* describes are still its own.
Superblock == [vol: Volume, clean: BOOLEAN, safe: BOOLEAN, intact: BOOLEAN]
NoSuper    == [vol |-> NoVolume, clean |-> FALSE, safe |-> FALSE, intact |-> FALSE]
Fresh(v)   == [vol |-> v, clean |-> TRUE, safe |-> TRUE, intact |-> TRUE]

Ext4State == [device: Device, mounted: BOOLEAN, writable: BOOLEAN,
              dirty: BOOLEAN, geometry: Volume]
FatState  == [device: Device, volume: Volume]
Stage     == {"prompt", "ext4Wipe", "ext4Build", "fatClear", "fatBoot", "fatMbr"}

VARIABLES
  backend,     \* filesystem.cpp: which driver and device the commands go to
  preferred,   \* filesystem.cpp: the type `mnt` mounts
  ext4,        \* filesystem.cpp: the static Ext4Driver
  fat,         \* fat32.cpp: sataDevice and the geometry in use
  super,       \* the ext4 superblock each device holds
  mbr,         \* sector 0 of the SATA disk names a FAT32 partition
  boot,        \* the FAT32 volume whose boot sector the partition holds
  complete,    \* the FAT32 volumes finished, but for the MBR, since it was wiped
  shell,       \* what the shell is doing: a prompt or a stage of dformat
  formats      \* formats started so far (bounds the behaviour)

vars == <<backend, preferred, ext4, fat, super, mbr, boot, complete, shell, formats>>
disk == <<super, mbr, boot, complete>>

TypeOK ==
  /\ backend \in Backend
  /\ preferred \in FsType
  /\ ext4 \in Ext4State
  /\ fat \in FatState
  /\ super \in [Device -> Superblock]
  /\ mbr \in BOOLEAN
  /\ boot \in Volume
  /\ complete \subseteq Volume
  /\ shell \in Stage
  /\ formats \in 0 .. MaxFormats

------------------------------------------------------------------------------
(* Ext4Driver: mounting and unmounting *)

Detached(d) == [device |-> d, mounted |-> FALSE, writable |-> FALSE,
                dirty |-> FALSE, geometry |-> NoVolume]

\* mountVolume: read the superblock of the bound device; writing is enabled for
\* supported features and a clean state only.
MountVolume(d, sup, readable) ==
  IF readable /\ sup.vol # NoVolume
  THEN [device |-> d, mounted |-> TRUE, writable |-> sup.safe /\ sup.clean,
        dirty |-> FALSE, geometry |-> sup.vol]
  ELSE Detached(d)

\* useDriver, setResource, initialize: a driver that is already mounted is only
\* bound to the device.
Attach(e, d, sup, readable) ==
  IF e.mounted THEN [e EXCEPT !.device = d] ELSE MountVolume(d, sup, readable)

\* finalize: a dirty volume gets its clean bit back, if the write succeeds.
FinalizeDisk(e, sup, wrote) ==
  IF e.mounted /\ e.dirty /\ wrote THEN [sup EXCEPT ![e.device].clean = TRUE] ELSE sup

------------------------------------------------------------------------------
(* Kernel::Filesystem *)

RamFat == [device |-> "ram", volume |-> RamVolume]

\* FAT32::initialize: a boot formats the RAM disk and starts on it.
FatAtBoot == RamFat

\* switchToRam with mountRamExt4: the three values it leaves.
SwitchSuper(wrote) ==
  IF backend = "ext4Sata" THEN FinalizeDisk(ext4, super, wrote) ELSE super

SwitchExt4(wrote) ==
  CASE backend = "ext4Ram"   -> ext4
    [] backend = "ext4Sata"  ->
         Attach(Detached(ext4.device), "ram", SwitchSuper(wrote)["ram"], TRUE)
    [] backend = "fat32Sata" -> Attach(ext4, "ram", super["ram"], TRUE)

\* Mutant: selectRamVolume is not called.
SwitchFatKept == fat

SwitchFat == IF backend = "fat32Sata" THEN RamFat ELSE fat

SwitchOK(wrote) == backend = "ext4Ram" \/ SwitchExt4(wrote).mounted

\* Mutants: the switch keeps the back end, or records the device for it.
SwitchBackendKept(wrote) == backend

SwitchBackendDevice(wrote) == IF SwitchOK(wrote) THEN "ram" ELSE backend

SwitchBackend(wrote) == IF SwitchOK(wrote) THEN "ext4Ram" ELSE backend

\* mountSata for ext4, after a successful switchToRam.
MountExt4(wrote, readable) ==
  LET sup   == SwitchSuper(wrote)
      bound == Attach(SwitchExt4(wrote), "sata", sup["sata"], readable)
  IN  /\ fat' = SwitchFat
      /\ super' = sup
      /\ IF bound.mounted
         THEN ext4' = bound /\ backend' = "ext4Sata"
         ELSE LET again == Attach(bound, "ram", sup["ram"], TRUE)
              IN  /\ ext4' = again
                  /\ backend' = "ext4Ram"

\* FAT32::findVolumeGeometry: an MBR partition of a FAT32 type with a good boot
\* sector.
FatRecognized == mbr /\ boot # NoVolume

\* Mutant: the geometry that was found is not adopted.
MountFatStale(wrote, readable) ==
  /\ super' = SwitchSuper(wrote)
  /\ fat' = SwitchFat
  /\ ext4' = SwitchExt4(wrote)
  /\ backend' = IF FatRecognized /\ readable THEN "fat32Sata" ELSE "ext4Ram"

\* mountSata for FAT32; the RAM ext4 volume stays mounted underneath.
MountFat(wrote, readable) ==
  /\ super' = SwitchSuper(wrote)
  /\ IF FatRecognized /\ readable
     THEN /\ fat' = [device |-> "sata", volume |-> boot]
          /\ backend' = "fat32Sata"
          /\ ext4' = SwitchExt4(wrote)
     ELSE /\ fat' = SwitchFat
          /\ ext4' = Attach(SwitchExt4(wrote), "ram", super'["ram"], TRUE)
          /\ backend' = "ext4Ram"

\* The shell's mnt: mountSata(preferredType(), ahci).
Mnt ==
  /\ shell = "prompt"
  /\ \E wrote, readable \in BOOLEAN :
       IF SwitchOK(wrote)
       THEN IF preferred = "ext4" THEN MountExt4(wrote, readable)
                                  ELSE MountFat(wrote, readable)
       ELSE /\ super' = SwitchSuper(wrote)
            /\ ext4' = SwitchExt4(wrote)
            /\ fat' = SwitchFat
            /\ UNCHANGED backend
  /\ UNCHANGED <<preferred, mbr, boot, complete, shell, formats>>

\* The shell's unmnt: notMounted on the RAM disk, switchToRam otherwise.
Unmnt ==
  /\ shell = "prompt"
  /\ backend # "ext4Ram"
  /\ \E wrote \in BOOLEAN :
       /\ super' = SwitchSuper(wrote)
       /\ ext4' = SwitchExt4(wrote)
       /\ backend' = SwitchBackend(wrote)
  /\ fat' = SwitchFat
  /\ UNCHANGED <<preferred, mbr, boot, complete, shell, formats>>

\* The driver computes addresses from the superblock of another volume.
StrayGeometry == ext4.geometry # super[ext4.device].vol

\* A command that changes the ext4 volume: markDirty first, then the change,
\* which lands where the driver's geometry says; the 2 MiB of the RAM geometry
\* reach into a FAT32 partition of the SATA disk.
ModifyExt4 ==
  /\ shell = "prompt"
  /\ backend # "fat32Sata"
  /\ ext4.mounted /\ ext4.writable
  /\ super' = [super EXCEPT
                 ![ext4.device].clean  = IF ext4.dirty THEN @ ELSE FALSE,
                 ![ext4.device].intact = @ /\ ~StrayGeometry]
  /\ \E hit \in BOOLEAN :
       /\ hit => ext4.device = "sata" /\ StrayGeometry
       /\ boot' = IF hit THEN NoVolume ELSE boot
  /\ ext4' = [ext4 EXCEPT !.dirty = TRUE]
  /\ UNCHANGED <<backend, preferred, fat, mbr, complete, shell, formats>>

------------------------------------------------------------------------------
(* dformat, with the shell's part of it *)

\* Mutant: the formatter starts without prepareDiskFormat.
DformatStartMounted(type) ==
  /\ shell = "prompt"
  /\ formats < MaxFormats
  /\ shell' = IF type = "ext4" THEN "ext4Wipe" ELSE "fatClear"
  /\ formats' = formats + 1
  /\ UNCHANGED <<backend, preferred, ext4, fat, super, mbr, boot, complete>>

\* The confirmed command: prepareDiskFormat, then the formatter starts unless
\* the disk is too small or too large for the type.
DformatStart(type) ==
  /\ shell = "prompt"
  /\ formats < MaxFormats
  /\ \E wrote, fits \in BOOLEAN :
       /\ super' = SwitchSuper(wrote)
       /\ ext4' = SwitchExt4(wrote)
       /\ backend' = SwitchBackend(wrote)
       /\ IF SwitchOK(wrote) /\ fits
          THEN /\ shell' = IF type = "ext4" THEN "ext4Wipe" ELSE "fatClear"
               /\ formats' = formats + 1
          ELSE UNCHANGED <<shell, formats>>
  /\ fat' = SwitchFat
  /\ UNCHANGED <<preferred, mbr, boot, complete>>

NewVolume == FirstSata + formats

\* Ext4Driver::format: the first 2 KiB (MBR and superblock) are zeroed, sector
\* by sector; an error stops it anywhere.
FormatExt4Wipe ==
  /\ shell = "ext4Wipe"
  /\ \E ok, mbrGone, superGone \in BOOLEAN :
       /\ superGone => mbrGone
       /\ ok => superGone
       /\ mbr' = (mbr /\ ~mbrGone)
       /\ complete' = IF mbrGone THEN {RamVolume} ELSE complete
       /\ super' = IF superGone THEN [super EXCEPT !["sata"] = NoSuper] ELSE super
       /\ shell' = IF ok THEN "ext4Build" ELSE "prompt"
  /\ UNCHANGED <<backend, preferred, ext4, fat, boot, formats>>

\* ... the groups, the root directory and, last, the superblock; then the
\* temporary driver mounts what it wrote, and an error there still reports a
\* failed format although the volume is on the disk.
FormatExt4Build ==
  /\ shell = "ext4Build"
  /\ \E wrote, ok \in BOOLEAN :
       /\ ok => wrote
       /\ super' = IF wrote THEN [super EXCEPT !["sata"] = Fresh(NewVolume)] ELSE super
       /\ preferred' = IF ok THEN "ext4" ELSE preferred
  /\ shell' = "prompt"
  /\ UNCHANGED <<backend, ext4, fat, mbr, boot, complete, formats>>

\* partitionAndFormatFat32: the reserved sectors and both FATs of the partition
\* at 1 MiB; an ext4 volume of the whole disk loses blocks to it.
FormatFatClear ==
  /\ shell = "fatClear"
  /\ \E ok, cleared \in BOOLEAN :
       /\ ok => cleared
       /\ boot' = IF cleared THEN NoVolume ELSE boot
       /\ super' = IF cleared THEN [super EXCEPT !["sata"].intact = FALSE] ELSE super
       /\ shell' = IF ok THEN "fatBoot" ELSE "prompt"
  /\ UNCHANGED <<backend, preferred, ext4, fat, mbr, complete, formats>>

\* ... then the boot sector (and its backup and the FSInfo sectors) ...
FormatFatBoot ==
  /\ shell = "fatBoot"
  /\ \E ok, wrote \in BOOLEAN :
       /\ ok => wrote
       /\ boot' = IF wrote THEN NewVolume ELSE boot
       /\ shell' = IF ok THEN "fatMbr" ELSE "prompt"
  /\ UNCHANGED <<backend, preferred, ext4, fat, super, mbr, complete, formats>>

\* Mutant: setPreferredType is called whatever the formatter returned.
FormatFatMbrAlways ==
  /\ shell = "fatMbr"
  /\ \E named, cleared \in BOOLEAN :
       /\ named => cleared
       /\ complete' = IF cleared THEN complete \cup {NewVolume} ELSE complete
       /\ mbr' = (mbr \/ named)
  /\ preferred' = "fat32"
  /\ shell' = "prompt"
  /\ UNCHANGED <<backend, ext4, fat, super, boot, formats>>

\* Mutant: the MBR is written before the root cluster is cleared.
FormatFatMbrFirst ==
  /\ shell = "fatMbr"
  /\ \E ok, named, cleared \in BOOLEAN :
       /\ ok => cleared
       /\ cleared => named
       /\ complete' = IF cleared THEN complete \cup {NewVolume} ELSE complete
       /\ mbr' = (mbr \/ named)
       /\ preferred' = IF ok THEN "fat32" ELSE preferred
  /\ shell' = "prompt"
  /\ UNCHANGED <<backend, ext4, fat, super, boot, formats>>

\* ... then the root cluster is cleared and the MBR written.
FormatFatMbr ==
  /\ shell = "fatMbr"
  /\ \E ok, named, cleared \in BOOLEAN :
       /\ ok => named
       /\ named => cleared
       /\ complete' = IF cleared THEN complete \cup {NewVolume} ELSE complete
       /\ mbr' = (mbr \/ named)
       /\ preferred' = IF ok THEN "fat32" ELSE preferred
  /\ shell' = "prompt"
  /\ UNCHANGED <<backend, ext4, fat, super, boot, formats>>

\* A reset or power cut at any moment: no volume is finalized, and kernelMain
\* starts over with a newly formatted RAM disk and the static defaults.
Reboot ==
  /\ backend' = "ext4Ram"
  /\ preferred' = "ext4"
  /\ super' = [super EXCEPT !["ram"] = Fresh(RamVolume)]
  /\ ext4' = MountVolume("ram", Fresh(RamVolume), TRUE)
  /\ fat' = FatAtBoot
  /\ shell' = "prompt"
  /\ UNCHANGED <<mbr, boot, complete, formats>>

\* Filesystem::initialize has run; the SATA disk holds whatever it came with.
Init ==
  /\ backend = "ext4Ram"
  /\ preferred = "ext4"
  /\ ext4 = MountVolume("ram", Fresh(RamVolume), TRUE)
  /\ fat = FatAtBoot
  /\ \E s \in {NoSuper, Fresh(FirstSata), [Fresh(FirstSata) EXCEPT !.safe = FALSE]} :
       super = [d \in Device |-> IF d = "ram" THEN Fresh(RamVolume) ELSE s]
  /\ mbr = FALSE
  /\ boot = NoVolume
  /\ complete = {RamVolume}
  /\ shell = "prompt"
  /\ formats = 0

Next ==
  \/ Mnt
  \/ Unmnt
  \/ ModifyExt4
  \/ \E type \in FsType : DformatStart(type)
  \/ FormatExt4Wipe \/ FormatExt4Build
  \/ FormatFatClear \/ FormatFatBoot \/ FormatFatMbr
  \/ Reboot

Spec == Init /\ [][Next]_vars

------------------------------------------------------------------------------
(* Properties *)

\* While the switch says that the RAM disk serves, the ext4 driver is bound to
\* it, mounted, and uses the RAM volume's own geometry, and FAT32 is back on its
\* RAM volume: no sequence of mnt, unmnt and dformat, with any of their I/O
\* failing, leaves a driver behind on the SATA disk (switchToRam, mountRamExt4).
RamServes ==
  backend = "ext4Ram" =>
    /\ ext4.device = "ram" /\ ext4.mounted
    /\ ext4.geometry = super["ram"].vol
    /\ fat = RamFat

\* While the switch says FAT32, the geometry FAT32 uses is that of the volume
\* now on the SATA disk, and the ext4 RAM volume waits, mounted, underneath.
FatServes ==
  backend = "fat32Sata" =>
    /\ fat = [device |-> "sata", volume |-> boot]
    /\ mbr /\ boot # NoVolume
    /\ ext4.device = "ram" /\ ext4.mounted

\* No driver is bound to the disk that a formatter is overwriting
\* (prepareDiskFormat comes before the first write).
FormatAlone == shell # "prompt" => ext4.device = "ram" /\ fat.device = "ram"

\* A volume whose format stopped before it had cleared the root directory is
\* mounted only where an older format had finished and no ext4 format has begun
\* since: the MBR, which is written last, is that one's (partitionAndFormatFat32,
\* and the two sectors that Ext4Driver::format zeroes).
HalfFormatHasOldMbr ==
  backend = "fat32Sata" /\ boot \notin complete =>
    \E v \in complete \ {RamVolume} : v < boot

\* setPreferredType records a format only once the disk holds the finished,
\* recognizable volume of that type; anything else that changes it is a reboot.
PreferredIsFormatted ==
  [][preferred' # preferred =>
       \/ preferred' = "fat32" /\ mbr' /\ boot' \in complete'
       \/ preferred' = "ext4" /\ super'["sata"] = Fresh(NewVolume)
       \/ preferred' = "ext4" /\ Reboot]_vars

\* The switch implements the service FileService describes.
Service == INSTANCE FileService WITH
             serving    <- IF backend = "ext4Ram" THEN "ram" ELSE "sata",
             formatting <- shell # "prompt"

\* Every step of the switch is a step, or a stutter, of FileService: a format
\* begins by taking the SATA disk out of service.
RefinesFileService == Service!ServiceSpec

------------------------------------------------------------------------------
(* What the documentation says and the code does not do *)

\* docs/fat32-filesystem.en.md, on mnt: it mounts the formatted SATA filesystem.
\* Then a mounted ext4 driver uses the geometry of the volume its device holds.
MountedVolumeIsTheDevices ==
  ext4.mounted => ext4.geometry = super[ext4.device].vol

==============================================================================
