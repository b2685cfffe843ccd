------------------------------ MODULE DiskFormat ------------------------------
(***************************************************************************)
(* How dformat lays out a disk of a given size, and what a mount reads     *)
(* back: the search of DFORMAT::chooseGeometry for a FAT32 geometry, the   *)
(* loop of Ext4Driver::format that drops a small trailing group, the       *)
(* numbers both write, and those that FAT32::findVolumeGeometry and        *)
(* Ext4Driver::mountAt compute from them again.  The numbers are the       *)
(* code's own.  Which of the writes may fail is in Filesystem.             *)
(***************************************************************************)
EXTENDS Integers

CONSTANT Sizes        \* the sizes, in sectors, of the disks that are formatted

\* A size is a uint32_t: below 65536 * 65536.
ASSUME SizesAssumption == \A s \in Sizes : s \in Nat /\ s \div 65536 < 65536

partitionStart       == 2048
reservedSectors      == 32
fatCount             == 2
rootCluster          == 2
minFat32Clusters     == 65525
maxFat32Clusters     == 268435445       \* 0x0FFFFFF5
maxSectorsPerCluster == 64
MaxIterations        == 32
EntriesPerSector     == 128             \* of four bytes, in a sector of 512

VARIABLES
  device,       \* the sectors of the disk
  stage,        \* what runs, or the status it ended with
  spc,          \* chooseGeometry: sectorsPerCluster,
  fatSectors,   \*   the table's size assumed by this iteration,
  iteration,    \*   its number,
  enough,       \*   and hasEnoughClusters
  blocks,       \* format: the blocks of the ext4 volume
  volume,       \* what the last format wrote
  found         \* what the last mount computed

vars == <<device, stage, spc, fatSectors, iteration, enough, blocks, volume, found>>

Refusal == {"invalidDevice", "diskTooSmall", "unsupportedCapacity", "noSpace"}
Stage   == {"idle", "choose", "groups", "written", "mounted", "notMounted"} \cup Refusal
Spc     == {1, 2, 4, 8, 16, 32, 64}

None == [type |-> "none"]

TypeOK ==
  /\ device \in Sizes
  /\ stage \in Stage
  /\ spc \in Spc
  /\ fatSectors \in Nat /\ iteration \in 0 .. MaxIterations /\ enough \in BOOLEAN
  /\ blocks \in Nat

------------------------------------------------------------------------------
(* The FAT32 geometry *)

partitionSectors == device - partitionStart

metadataSectors(f) == reservedSectors + fatCount * f

\* The whole clusters behind two tables of f sectors.
clusterCount(p, s, f) == (p - metadataSectors(f)) \div s

\* Mutant: the two reserved entries are forgotten.
requiredNoReserved(c) == (c + EntriesPerSector - 1) \div EntriesPerSector

\* The sectors of a table for c clusters and two reserved entries.
requiredFatSectors(c) == (c + 2 + EntriesPerSector - 1) \div EntriesPerSector

\* One iteration has found the table that its own clusters need.
Converged ==
  /\ iteration < MaxIterations
  /\ metadataSectors(fatSectors) < partitionSectors
  /\ fatSectors = requiredFatSectors(clusterCount(partitionSectors, spc, fatSectors))

\* Mutant: a volume of exactly minFat32Clusters is refused.
EnoughButMin(c) == c > minFat32Clusters

Enough(c) == c >= minFat32Clusters

\* What boot sector and MBR hold.
FatVolume(p, s, f) ==
  [type |-> "fat32", start |-> partitionStart, partition |-> p, total |-> p, spc |-> s,
   reserved |-> reservedSectors, fats |-> fatCount, fatSectors |-> f, root |-> rootCluster]

\* readVolumeGeometry: what it refuses, and the geometry it takes.
FatReadable(v) ==
  LET meta == v.reserved + v.fats * v.fatSectors
      c    == (v.total - meta) \div v.spc
  IN  /\ v.start < device /\ v.partition <= device - v.start
      /\ v.spc \in Spc
      /\ v.reserved # 0 /\ v.fats \in {1, 2} /\ v.fatSectors # 0 /\ v.total # 0
      /\ v.total <= v.partition
      /\ meta < v.total
      /\ c # 0 /\ c + 2 <= v.fatSectors * EntriesPerSector
      /\ v.root >= 2 /\ v.root < c + 2

FatFound(v) ==
  [start |-> v.start, spc |-> v.spc, firstFat |-> v.start + v.reserved,
   fats |-> v.fats, fatSectors |-> v.fatSectors,
   firstData |-> v.start + v.reserved + v.fats * v.fatSectors,
   clusters |-> (v.total - v.reserved - v.fats * v.fatSectors) \div v.spc,
   root |-> v.root]

------------------------------------------------------------------------------
(* The ext4 layout *)

InodeSize == 256
DescSize  == 32

LesserOf(a, b)  == IF a <= b THEN a ELSE b
GreaterOf(a, b) == IF a >= b THEN a ELSE b

BlockSize == IF device >= 131072 THEN 4096 ELSE 1024       \* 64 MiB

firstDataBlock(bs) == IF bs = 1024 THEN 1 ELSE 0
blocksPerGroup(bs) == bs * 8
SectorsPerBlock(bs) == bs \div 512

groupCount(b, bs) ==
  (b - firstDataBlock(bs) + blocksPerGroup(bs) - 1) \div blocksPerGroup(bs)

gdtBlocks(b, bs) == (groupCount(b, bs) * DescSize + bs - 1) \div bs

\* One inode for 16 KiB, at least 32, in sixteens, and no more than a bitmap holds.
inodesPerGroup(b, bs) ==
  LET wanted == (LesserOf(b - firstDataBlock(bs), blocksPerGroup(bs)) * bs) \div 16384
  IN  LesserOf(((GreaterOf(wanted, 32) + 15) \div 16) * 16, bs * 8)

tableBlocks(b, bs) == (inodesPerGroup(b, bs) * InodeSize + bs - 1) \div bs

lastBlocks(b, bs) == b - firstDataBlock(bs) - (groupCount(b, bs) - 1) * blocksPerGroup(bs)

lastMeta(b, bs) ==
  2 + tableBlocks(b, bs) + IF groupCount(b, bs) = 1 THEN 1 + gdtBlocks(b, bs) ELSE 0

\* Mutant: the trailing group is kept whatever its size.
TrailingKept(b, bs) == FALSE

\* A trailing group without room for its metadata and 16 blocks.
TrailingTooSmall(b, bs) ==
  groupCount(b, bs) > 1 /\ lastBlocks(b, bs) < lastMeta(b, bs) + 16

\* The blocks in use at the start of a group: its metadata, in group 0 behind
\* superblock and descriptors, with the root directory and lost+found.
prefix(b, bs, g) ==
  2 + tableBlocks(b, bs) + IF g = 0 THEN 1 + gdtBlocks(b, bs) + 2 ELSE 0

GroupStart(bs, g) == firstDataBlock(bs) + g * blocksPerGroup(bs)

GroupBlocks(b, bs, g) == LesserOf(blocksPerGroup(bs), b - GroupStart(bs, g))

\* The descriptor of a group, its counters in 16 bits; used is the prefix its
\* bitmap marks, at the address it was written to.
Descriptor(b, bs, g) ==
  LET first == IF g = 0 THEN firstDataBlock(bs) + 1 + gdtBlocks(b, bs) ELSE GroupStart(bs, g)
  IN  [blockBitmap |-> first, inodeBitmap |-> first + 1, table |-> first + 2,
       used |-> prefix(b, bs, g),
       freeBlocks |-> (GroupBlocks(b, bs, g) - prefix(b, bs, g)) % 65536,
       freeInodes |-> (inodesPerGroup(b, bs) - IF g = 0 THEN 11 ELSE 0) % 65536,
       block |-> firstDataBlock(bs) + 1 + (g * DescSize) \div bs,
       offset |-> (g * DescSize) % bs]

Ext4Volume(b, bs) ==
  [type |-> "ext4", blockSize |-> bs, blocks |-> b, firstData |-> firstDataBlock(bs),
   blocksPerGroup |-> blocksPerGroup(bs), inodesPerGroup |-> inodesPerGroup(b, bs),
   inodes |-> groupCount(b, bs) * inodesPerGroup(b, bs),
   groups |-> [g \in 0 .. groupCount(b, bs) - 1 |-> Descriptor(b, bs, g)]]

\* Mutant: a last group of less than blocksPerGroup is not counted.
MountedGroupsWhole(v) == (v.blocks - v.firstData) \div v.blocksPerGroup

\* mountAt: what it computes from the superblock, and what it refuses.
MountedGroups(v) ==
  (v.blocks - v.firstData + v.blocksPerGroup - 1) \div v.blocksPerGroup

Ext4Readable(v) ==
  /\ v.blocks # 0 /\ v.firstData < v.blocks /\ v.blocksPerGroup # 0
  /\ v.inodesPerGroup >= 2 /\ v.inodesPerGroup <= v.blockSize * 8 /\ v.inodes >= 2
  /\ v.blocks * SectorsPerBlock(v.blockSize) <= device
  /\ MountedGroups(v) # 0 /\ v.inodes <= MountedGroups(v) * v.inodesPerGroup

\* descriptorOffset: where the mounted driver looks for a group's descriptor.
DescriptorBlock(v, g)  == v.firstData + g \div (v.blockSize \div DescSize) + 1
DescriptorOffset(v, g) == (g % (v.blockSize \div DescSize)) * DescSize

Ext4Found(v) ==
  [groups |-> [g \in 0 .. MountedGroups(v) - 1 |->
                 [block |-> DescriptorBlock(v, g), offset |-> DescriptorOffset(v, g)]]]

------------------------------------------------------------------------------
(* Actions *)

\* partitionAndFormatFat32 begins.
StartFat32 ==
  /\ stage = "idle"
  /\ stage' = IF device <= partitionStart THEN "invalidDevice" ELSE "choose"
  /\ spc' = 1 /\ fatSectors' = 1 /\ iteration' = 0 /\ enough' = FALSE
  /\ UNCHANGED <<device, blocks, volume, found>>

\* An iteration of the inner loop that goes on with another size of the table.
Iterate ==
  /\ stage = "choose"
  /\ iteration < MaxIterations
  /\ metadataSectors(fatSectors) < partitionSectors
  /\ ~Converged
  /\ fatSectors' = requiredFatSectors(clusterCount(partitionSectors, spc, fatSectors))
  /\ iteration' = iteration + 1
  /\ UNCHANGED <<device, stage, spc, enough, blocks, volume, found>>

\* This cluster size does not do: it did not converge, or has too few or too
\* many clusters; the next one starts over, and behind the last one is a refusal.
NextClusterSize ==
  /\ stage = "choose"
  /\ LET c == clusterCount(partitionSectors, spc, fatSectors)
     IN  /\ \/ iteration = MaxIterations
            \/ metadataSectors(fatSectors) >= partitionSectors
            \/ Converged /\ (~Enough(c) \/ c > maxFat32Clusters)
         /\ enough' = (enough \/ (Converged /\ Enough(c)))
  /\ IF spc < maxSectorsPerCluster
     THEN spc' = 2 * spc /\ stage' = stage
     ELSE /\ spc' = spc
          /\ stage' = IF enough' THEN "unsupportedCapacity" ELSE "diskTooSmall"
  /\ fatSectors' = 1 /\ iteration' = 0
  /\ UNCHANGED <<device, blocks, volume, found>>

\* The geometry is chosen, and everything written with it.
WriteFat32 ==
  /\ stage = "choose"
  /\ Converged
  /\ LET c == clusterCount(partitionSectors, spc, fatSectors)
     IN  Enough(c) /\ c <= maxFat32Clusters
  /\ volume' = FatVolume(partitionSectors, spc, fatSectors)
  /\ stage' = "written"
  /\ UNCHANGED <<device, spc, fatSectors, iteration, enough, blocks, found>>

\* Ext4Driver::format begins.
StartExt4 ==
  /\ stage = "idle"
  /\ blocks' = device \div SectorsPerBlock(BlockSize)
  /\ stage' = IF blocks' < 64 THEN "noSpace" ELSE "groups"
  /\ UNCHANGED <<device, spc, fatSectors, iteration, enough, volume, found>>

DropGroup ==
  /\ stage = "groups"
  /\ TrailingTooSmall(blocks, BlockSize)
  /\ blocks' = firstDataBlock(BlockSize)
                 + (groupCount(blocks, BlockSize) - 1) * blocksPerGroup(BlockSize)
  /\ UNCHANGED <<device, stage, spc, fatSectors, iteration, enough, volume, found>>

WriteExt4 ==
  /\ stage = "groups"
  /\ ~TrailingTooSmall(blocks, BlockSize)
  /\ IF blocks - firstDataBlock(BlockSize) < prefix(blocks, BlockSize, 0) + 2
     THEN stage' = "noSpace" /\ UNCHANGED volume
     ELSE stage' = "written" /\ volume' = Ext4Volume(blocks, BlockSize)
  /\ UNCHANGED <<device, spc, fatSectors, iteration, enough, blocks, found>>

\* mnt of the type that was just formatted.
Mount ==
  /\ stage = "written"
  /\ IF IF volume.type = "fat32" THEN FatReadable(volume) ELSE Ext4Readable(volume)
     THEN /\ stage' = "mounted"
          /\ found' = IF volume.type = "fat32" THEN FatFound(volume) ELSE Ext4Found(volume)
     ELSE stage' = "notMounted" /\ UNCHANGED found
  /\ UNCHANGED <<device, spc, fatSectors, iteration, enough, blocks, volume>>

\* The shell reports the status and takes the next command.
Report ==
  /\ stage \in Refusal \cup {"written", "mounted", "notMounted"}
  /\ stage' = "idle"
  /\ UNCHANGED <<device, spc, fatSectors, iteration, enough, blocks, volume, found>>

Init ==
  /\ device \in Sizes
  /\ stage = "idle"
  /\ spc = 1 /\ fatSectors = 1 /\ iteration = 0 /\ enough = FALSE
  /\ blocks = 0
  /\ volume = None /\ found = None

Next ==
  \/ StartFat32 \/ Iterate \/ NextClusterSize \/ WriteFat32
  \/ StartExt4 \/ DropGroup \/ WriteExt4
  \/ Mount \/ Report

Spec == Init /\ [][Next]_vars

------------------------------------------------------------------------------
(* Properties *)

FatClusters(v) == FatFound(v).clusters

\* A FAT32 volume fits its partition: each cluster and both reserved entries have
\* a place in the table, the table has no sector to spare, the clusters end
\* inside the partition and leave less than one cluster of it unused.
FatFits(v) ==
  LET c   == FatClusters(v)
      end == FatFound(v).firstData + c * v.spc
  IN  /\ c + 2 <= v.fatSectors * EntriesPerSector
      /\ c + 2 > (v.fatSectors - 1) * EntriesPerSector
      /\ v.start + v.total = device
      /\ end <= device /\ device - end < v.spc

\* A group of an ext4 volume: both bitmaps and the table (in group 0 behind the
\* superblock and the descriptors, and before two directories) are its first
\* blocks and the ones its bitmap marks; they lie inside the group; and the
\* count of free blocks is what the bitmap leaves, at least one.
GroupFits(v, g) ==
  LET d     == v.groups[g]
      bs    == v.blockSize
      start == v.firstData + g * v.blocksPerGroup
      size  == LesserOf(v.blocksPerGroup, v.blocks - start)
      table == d.table + (v.inodesPerGroup * InodeSize) \div bs
  IN  /\ d.blockBitmap >= start /\ d.inodeBitmap = d.blockBitmap + 1
      /\ d.table = d.inodeBitmap + 1
      /\ table + (IF g = 0 THEN 2 ELSE 0) = start + d.used
      /\ d.used + d.freeBlocks = size /\ d.freeBlocks > 0
      /\ v.inodesPerGroup = d.freeInodes + (IF g = 0 THEN 11 ELSE 0)
      /\ d.block < v.groups[0].blockBitmap /\ d.offset + DescSize <= bs

\* What was written fits the disk, for both types (chooseGeometry and the group
\* loop of format).
LayoutFits ==
  stage = "written" =>
    IF volume.type = "fat32" THEN FatFits(volume)
    ELSE /\ volume.blocks * SectorsPerBlock(volume.blockSize) <= device
         /\ \A g \in DOMAIN volume.groups : GroupFits(volume, g)

\* A table of f sectors is exactly what its own clusters of s sectors need, and
\* they are neither too few nor too many.
Exact(s, f) ==
  LET c == clusterCount(partitionSectors, s, f)
  IN  /\ metadataSectors(f) < partitionSectors
      /\ c >= minFat32Clusters /\ c <= maxFat32Clusters
      /\ f = requiredFatSectors(c)

\* The cluster sizes that chooseGeometry has passed over.
PassedOver ==
  CASE stage \in {"diskTooSmall", "unsupportedCapacity"} -> Spc
    [] stage = "written" -> {s \in Spc : volume.type = "fat32" /\ s < volume.spc}
    [] OTHER             -> {}

\* chooseGeometry passes over a cluster size only if no size of the table is
\* exact for it: neither where the loop starts nor its 32 iterations lose one.
NoGeometryIsMissed ==
  \A s \in PassedOver :
    partitionSectors >= s * minFat32Clusters =>
      \A f \in 1 .. requiredFatSectors(partitionSectors \div s) : ~Exact(s, f)

\* mountSata and mountAt accept what the formatters wrote, and compute from it the
\* geometry it was written with: the same clusters behind the same tables, the
\* root directory where it was cleared; the same groups, and every descriptor
\* where it was put.
MountAgrees ==
  /\ stage # "notMounted"
  /\ stage = "mounted" /\ volume.type = "fat32" =>
       /\ found.clusters = clusterCount(partitionSectors, volume.spc, volume.fatSectors)
       /\ found.firstData = partitionStart + metadataSectors(volume.fatSectors)
       /\ found.firstData + found.clusters * found.spc <= device
  /\ stage = "mounted" /\ volume.type = "ext4" =>
       /\ DOMAIN found.groups = DOMAIN volume.groups
       /\ \A g \in DOMAIN found.groups :
            /\ found.groups[g].block = volume.groups[g].block
            /\ found.groups[g].offset = volume.groups[g].offset

==============================================================================
