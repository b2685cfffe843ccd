--------------------------- MODULE DiskFormatProofs ---------------------------
(***************************************************************************)
(* Proofs about DiskFormat.tla for every size of a disk.                   *)
(*                                                                         *)
(* The search for a FAT32 geometry applies an antitone function to the     *)
(* size of the table.  Near an exact size e each application brings the    *)
(* distance d down to at most (2d + 127) \div 128, so that the seventh     *)
(* iteration, of the 32 allowed, is at e: a cluster size that is passed    *)
(* over has no exact size.                                                 *)
(***************************************************************************)
EXTENDS DiskFormat, TLAPS

\* What a division by a cluster size yields.
LEMMA SpcDivision ==
  ASSUME NEW n \in Int, NEW s \in Spc
  PROVE  /\ n \div s \in Int
         /\ (n \div s) * s <= n /\ n < (n \div s) * s + s
<1>1. CASE s = 1 BY <1>1, SMT
<1>2. CASE s = 2 BY <1>2, SMT
<1>3. CASE s = 4 BY <1>3, SMT
<1>4. CASE s = 8 BY <1>4, SMT
<1>5. CASE s = 16 BY <1>5, SMT
<1>6. CASE s = 32 BY <1>6, SMT
<1>7. CASE s = 64 BY <1>7, SMT
<1>8. QED
  BY <1>1, <1>2, <1>3, <1>4, <1>5, <1>6, <1>7 DEF Spc

\* Two tables that are d sectors larger leave at most 2d clusters less.
LEMMA ClustersShrink ==
  ASSUME NEW p \in Int, NEW s \in Spc, NEW f \in Nat, NEW h \in Nat, f < h
  PROVE  /\ clusterCount(p, s, f) \in Int /\ clusterCount(p, s, h) \in Int
         /\ clusterCount(p, s, h) <= clusterCount(p, s, f)
         /\ clusterCount(p, s, f) <= clusterCount(p, s, h) + 2 * (h - f)
<1> USE DEF clusterCount, metadataSectors, reservedSectors, fatCount
<1>1. CASE s = 1 BY <1>1, SMT
<1>2. CASE s = 2 BY <1>2, SMT
<1>3. CASE s = 4 BY <1>3, SMT
<1>4. CASE s = 8 BY <1>4, SMT
<1>5. CASE s = 16 BY <1>5, SMT
<1>6. CASE s = 32 BY <1>6, SMT
<1>7. CASE s = 64 BY <1>7, SMT
<1>8. QED
  BY <1>1, <1>2, <1>3, <1>4, <1>5, <1>6, <1>7 DEF Spc

\* The table that the clusters behind tables of f sectors need.
Needed(p, s, f) == requiredFatSectors(clusterCount(p, s, f))

\* It shrinks as f grows, by a sector for every 64.
LEMMA NeededShrinks ==
  ASSUME NEW p \in Int, NEW s \in Spc, NEW f \in Nat, NEW h \in Nat, f < h
  PROVE  /\ Needed(p, s, f) \in Int /\ Needed(p, s, h) \in Int
         /\ Needed(p, s, h) <= Needed(p, s, f)
         /\ Needed(p, s, f) <= Needed(p, s, h) + (2 * (h - f) + 127) \div 128
<1> DEFINE c == clusterCount(p, s, f)
           k == clusterCount(p, s, h)
<1>1. c \in Int /\ k \in Int /\ k <= c /\ c <= k + 2 * (h - f)
  BY ClustersShrink
<1> HIDE DEF c, k
<1>2. /\ requiredFatSectors(c) \in Int /\ requiredFatSectors(k) \in Int
      /\ requiredFatSectors(k) <= requiredFatSectors(c)
      /\ requiredFatSectors(c) <= requiredFatSectors(k) + (2 * (h - f) + 127) \div 128
  BY <1>1, SMT DEF requiredFatSectors, EntriesPerSector
<1>3. QED
  BY <1>2 DEF Needed, c, k

Distance(f, e) == IF f <= e THEN e - f ELSE f - e

\* An iteration brings the table closer to an exact size e, and to its other side.
LEMMA Closer ==
  ASSUME NEW p \in Int, NEW s \in Spc, NEW e \in Nat, NEW f \in Nat, e = Needed(p, s, e)
  PROVE  /\ Needed(p, s, f) \in Int
         /\ f = e => Needed(p, s, f) = e
         /\ f < e => Needed(p, s, f) >= e
         /\ f > e => Needed(p, s, f) <= e
         /\ Distance(Needed(p, s, f), e) <= (2 * Distance(f, e) + 127) \div 128
<1> DEFINE n == Needed(p, s, f)
<1>1. CASE f = e
  <2>1. n = e
    BY <1>1
  <2>2. QED
    BY <1>1, <2>1, SMT DEF Distance
<1>2. CASE f < e
  <2>1. n \in Int /\ e <= n /\ n <= e + (2 * (e - f) + 127) \div 128
    BY <1>2, NeededShrinks
  <2> HIDE DEF n
  <2>2. Distance(n, e) <= (2 * Distance(f, e) + 127) \div 128
    BY <1>2, <2>1, SMT DEF Distance
  <2>3. QED
    BY <1>2, <2>1, <2>2 DEF n
<1>3. CASE f > e
  <2>1. n \in Int /\ n <= e /\ e <= n + (2 * (f - e) + 127) \div 128
    BY <1>3, NeededShrinks
  <2> HIDE DEF n
  <2>2. Distance(n, e) <= (2 * Distance(f, e) + 127) \div 128
    BY <1>3, <2>1, SMT DEF Distance
  <2>3. QED
    BY <1>3, <2>1, <2>2 DEF n
<1>4. QED
  BY <1>1, <1>2, <1>3, SMT

\* Next to an exact size, the second iteration from here is at it: the two
\* neighbours do not lead to each other.
LEMMA Settles ==
  ASSUME NEW p \in Int, NEW s \in Spc, NEW e \in Nat \ {0}, NEW f \in Nat,
         e = Needed(p, s, e), Distance(f, e) <= 1
  PROVE  Needed(p, s, Needed(p, s, f)) = e
<1> DEFINE n == Needed(p, s, f)
<1>1. /\ n \in Int
      /\ f = e => n = e
      /\ f < e => n >= e
      /\ f > e => n <= e
      /\ Distance(n, e) <= (2 * Distance(f, e) + 127) \div 128
  BY Closer
<1>2. CASE n = e
  BY <1>2
<1>3. CASE n # e
  <2> HIDE DEF n
  <2>1. \/ f = e + 1 /\ n = e - 1
        \/ f = e - 1 /\ n = e + 1
    BY <1>1, <1>3, SMT DEF Distance
  <2>2. n \in Nat
    BY <2>1, SMT
  <2>3. /\ Needed(p, s, n) \in Int
        /\ n < e => Needed(p, s, n) >= e
        /\ n > e => Needed(p, s, n) <= e
    BY <2>2, Closer
  <2>4. CASE f = e + 1 /\ n = e - 1
    <3>1. Needed(p, s, n) <= Needed(p, s, f) + (2 * (f - n) + 127) \div 128
      BY <2>2, <2>4, NeededShrinks
    <3>2. Needed(p, s, n) <= n + (2 * (f - n) + 127) \div 128
      BY <3>1 DEF n
    <3>3. (2 * (f - n) + 127) \div 128 = 1
      BY <2>4, SMT
    <3>4. Needed(p, s, n) = e
      BY <2>3, <2>4, <3>2, <3>3, SMT
    <3>5. QED
      BY <3>4 DEF n
  <2>5. CASE f = e - 1 /\ n = e + 1
    <3>1. Needed(p, s, f) <= Needed(p, s, n) + (2 * (n - f) + 127) \div 128
      BY <2>2, <2>5, NeededShrinks
    <3>2. n <= Needed(p, s, n) + (2 * (n - f) + 127) \div 128
      BY <3>1 DEF n
    <3>3. (2 * (n - f) + 127) \div 128 = 1
      BY <2>5, SMT
    <3>4. Needed(p, s, n) = e
      BY <2>3, <2>5, <3>2, <3>3, SMT
    <3>5. QED
      BY <3>4 DEF n
  <2>6. QED
    BY <2>1, <2>4, <2>5
<1>4. QED
  BY <1>2, <1>3

\* How far from an exact size e iteration k may be.
Reach(k) ==
  IF k = 0 THEN 33554432
  ELSE IF k = 1 THEN 524288
  ELSE IF k = 2 THEN 8192
  ELSE IF k = 3 THEN 128
  ELSE IF k = 4 THEN 2
  ELSE 1

\* Iteration k of the search is on its way to e.
OnTheWay(p, s, k, f, e) ==
  /\ k <= 7
  /\ Distance(f, e) <= e /\ Distance(f, e) <= Reach(k)
  /\ k = 6 => Needed(p, s, f) = e
  /\ k > 6 => f = e

\* A table of e sectors is what its own clusters need, and they are enough.
ExactSize(p, s, e) ==
  /\ metadataSectors(e) < p
  /\ clusterCount(p, s, e) >= minFat32Clusters
  /\ e = Needed(p, s, e)

\* What an exact size is bounded by.
LEMMA ExactBounds ==
  ASSUME NEW p \in Nat, p \div 65536 < 65536, NEW s \in Spc, NEW e \in Nat, ExactSize(p, s, e)
  PROVE  e > 511 /\ e <= 33554433 /\ 4 * e + 32 < p
<1> DEFINE c == clusterCount(p, s, e)
<1>1. c \in Int /\ c >= 65525 /\ e = (c + 2 + 128 - 1) \div 128
  BY SpcDivision DEF ExactSize, Needed, minFat32Clusters, requiredFatSectors,
     EntriesPerSector, clusterCount, metadataSectors, reservedSectors, fatCount
<1>2. c * s <= p - (32 + 2 * e)
  BY SpcDivision DEF clusterCount, metadataSectors, reservedSectors, fatCount
<1> HIDE DEF c
<1>3. c <= c * s
  BY <1>1, SMT DEF Spc
<1>4. e > 511 /\ 128 * (e - 1) <= c + 1
  BY <1>1, SMT
<1>5. c <= p - 32 - 2 * e
  <2>1. c * s \in Int
    BY <1>1, SMT DEF Spc
  <2>2. QED
    BY <1>1, <1>2, <1>3, <2>1, SMT
<1>6. p < 4294967296
  BY SMT
<1>7. QED
  BY <1>1, <1>4, <1>5, <1>6, SMT

\* The search begins on its way,
LEMMA SearchBegins ==
  ASSUME NEW p \in Nat, p \div 65536 < 65536, NEW s \in Spc, NEW e \in Nat, ExactSize(p, s, e)
  PROVE  OnTheWay(p, s, 0, 1, e)
<1>1. e > 511 /\ e <= 33554433
  BY ExactBounds
<1>2. QED
  BY <1>1, SMT DEF OnTheWay, Distance, Reach

\* and every iteration keeps it there.
LEMMA SearchGoesOn ==
  ASSUME NEW p \in Nat, p \div 65536 < 65536, NEW s \in Spc, NEW e \in Nat,
         ExactSize(p, s, e), NEW k \in 0 .. 6, NEW f \in Nat, OnTheWay(p, s, k, f, e)
  PROVE  OnTheWay(p, s, k + 1, Needed(p, s, f), e)
<1> DEFINE n == Needed(p, s, f)
<1>1. e = Needed(p, s, e) /\ e > 511
  BY ExactBounds DEF ExactSize
<1>2. /\ n \in Int
      /\ f = e => n = e
      /\ Distance(n, e) <= (2 * Distance(f, e) + 127) \div 128
  BY <1>1, Closer
<1>3. CASE k > 5
  <2>1. n = e
    BY <1>2, <1>3, SMT DEF OnTheWay
  <2>2. Needed(p, s, n) = e
    BY <1>1, <2>1
  <2> HIDE DEF n
  <2>3. QED
    BY <1>1, <1>3, <2>1, <2>2, SMT DEF OnTheWay, Distance, Reach, n
<1>4. CASE k <= 5
  <2>1. Distance(f, e) \in Nat /\ Distance(f, e) <= e /\ Distance(f, e) <= Reach(k)
    BY SMT DEF OnTheWay, Distance
  <2>2. Distance(n, e) <= e /\ Distance(n, e) <= Reach(k + 1)
    <3> HIDE DEF n
    <3> DEFINE d == Distance(f, e)
    <3>1. (2 * d + 127) \div 128 <= d \/ d = 0
      BY <2>1, SMT
    <3>2. (2 * d + 127) \div 128 <= Reach(k + 1)
      BY <1>4, <2>1, SMT DEF Reach
    <3>3. Distance(n, e) \in Nat
      BY <1>2, SMT DEF Distance
    <3>4. Distance(n, e) <= (2 * d + 127) \div 128 /\ d \in Nat /\ d <= e
      BY <1>2, <2>1
    <3>5. Distance(n, e) <= e
      BY <1>1, <3>1, <3>3, <3>4, SMT
    <3>6. Reach(k + 1) \in Nat
      BY SMT DEF Reach
    <3> HIDE DEF d
    <3>7. QED
      BY <3>2, <3>3, <3>4, <3>5, <3>6, SMT
  <2>3. k = 5 => Needed(p, s, n) = e
    <3>1. SUFFICES ASSUME k = 5 PROVE Needed(p, s, n) = e
      OBVIOUS
    <3>2. Distance(f, e) <= 1
      BY <2>1, <3>1, SMT DEF Reach
    <3>3. QED
      BY <1>1, <3>2, Settles
  <2>4. QED
    BY <1>4, <2>2, <2>3, SMT DEF OnTheWay
<1>5. QED
  BY <1>3, <1>4, SMT

------------------------------------------------------------------------------
(* The invariant *)

NoneExact(s) == \A f \in Nat : ~Exact(s, f)

ChosenFat ==
  /\ device > partitionStart
  /\ Converged
  /\ Enough(clusterCount(partitionSectors, spc, fatSectors))
  /\ volume = FatVolume(partitionSectors, spc, fatSectors)
  /\ \A s \in Spc : s < spc => NoneExact(s)

\* The blocks of an ext4 volume are on the disk.
OnDisk == blocks \in Nat /\ blocks >= 64 /\ blocks * SectorsPerBlock(BlockSize) <= device

ChosenExt4 ==
  /\ OnDisk
  /\ ~TrailingTooSmall(blocks, BlockSize)
  /\ blocks - firstDataBlock(BlockSize) >= prefix(blocks, BlockSize, 0) + 2
  /\ volume = Ext4Volume(blocks, BlockSize)

\* The search is on its way to every exact size, and has passed over no cluster
\* size that has one; what was written was chosen; what a mount found is what
\* the volume says.
FormatInv ==
  /\ TypeOK
  /\ stage = "choose" =>
       /\ device > partitionStart
       /\ \A e \in Nat : ExactSize(partitionSectors, spc, e) =>
            OnTheWay(partitionSectors, spc, iteration, fatSectors, e)
       /\ \A s \in Spc : s < spc => NoneExact(s)
  /\ stage \in {"diskTooSmall", "unsupportedCapacity"} => \A s \in Spc : NoneExact(s)
  /\ stage = "groups" => OnDisk
  /\ stage \in {"written", "mounted"} => ChosenFat \/ ChosenExt4
  /\ stage # "notMounted"
  /\ stage = "mounted" =>
       found = IF volume.type = "fat32" THEN FatFound(volume) ELSE Ext4Found(volume)

\* A disk of a legal size is a number below 2^32.
LEMMA DeviceSize == TypeOK => device \in Nat /\ device < 4294967296
<1>1. ASSUME TypeOK PROVE device \in Nat /\ device \div 65536 < 65536
  BY <1>1, SizesAssumption DEF TypeOK
<1>2. ASSUME device \in Nat, device \div 65536 < 65536 PROVE device < 4294967296
  BY <1>2, SMT
<1>3. QED
  BY <1>1, <1>2

\* The partition's size is as legal as the disk's.
LEMMA PartitionSize ==
  ASSUME TypeOK, device > partitionStart
  PROVE  partitionSectors \in Nat /\ partitionSectors \div 65536 < 65536
<1>1. device \in Nat /\ device < 4294967296
  BY DeviceSize
<1>2. QED
  BY <1>1, SMT DEF partitionSectors, partitionStart

\* A cluster size is passed over only when it has no exact size of the table.
LEMMA PassedOverRight ==
  ASSUME FormatInv, NextClusterSize
  PROVE  NoneExact(spc)
<1> DEFINE p == partitionSectors
<1>1. p \in Nat /\ p \div 65536 < 65536 /\ spc \in Spc /\ fatSectors \in Nat
      /\ iteration \in Nat
  BY PartitionSize DEF FormatInv, NextClusterSize, TypeOK
<1>2. SUFFICES ASSUME NEW e \in Nat, Exact(spc, e) PROVE FALSE
  BY DEF NoneExact
<1> DEFINE c == clusterCount(p, spc, e)
<1>3. ExactSize(p, spc, e) /\ c <= maxFat32Clusters
  BY <1>2 DEF Exact, ExactSize, Needed
<1>4. OnTheWay(p, spc, iteration, fatSectors, e)
  BY <1>3 DEF FormatInv, NextClusterSize
<1>5. e > 511 /\ 4 * e + 32 < p
  BY <1>1, <1>3, ExactBounds
<1>6. iteration <= 7 /\ fatSectors <= 2 * e
  BY <1>1, <1>4, SMT DEF OnTheWay, Distance
<1>7. iteration # MaxIterations
  BY <1>1, <1>6, SMT DEF MaxIterations
<1>8. ~(metadataSectors(fatSectors) >= p)
  <2> HIDE DEF p
  <2>1. QED
    BY <1>1, <1>5, <1>6, SMT DEF metadataSectors, reservedSectors, fatCount
<1>9. Converged /\ LET k == clusterCount(p, spc, fatSectors)
                   IN  ~Enough(k) \/ k > maxFat32Clusters
  BY <1>7, <1>8 DEF NextClusterSize
<1>10. fatSectors = Needed(p, spc, fatSectors)
  BY <1>9 DEF Converged, Needed
<1>11. fatSectors = e
  <2>1. /\ fatSectors < e => Needed(p, spc, fatSectors) >= e
        /\ fatSectors > e => Needed(p, spc, fatSectors) <= e
    BY <1>1, <1>3, Closer DEF ExactSize
  <2> HIDE DEF p
  <2>2. QED
    BY <1>1, <1>10, <2>1, SMT
<1>12. c \in Int /\ ~(c > maxFat32Clusters) /\ Enough(c)
  <2>1. c \in Int
    BY <1>1, SpcDivision, SMT DEF clusterCount, metadataSectors, reservedSectors, fatCount
  <2> HIDE DEF c
  <2>2. c <= maxFat32Clusters /\ c >= minFat32Clusters
    BY <1>3 DEF ExactSize, c
  <2>3. QED
    BY <2>1, <2>2, SMT DEF Enough, maxFat32Clusters, minFat32Clusters
<1>13. QED
  BY <1>9, <1>11, <1>12

\* The numbers of a chosen FAT32 geometry, for the one division in it.
LEMMA ChosenFatNumbers ==
  ASSUME TypeOK, ChosenFat
  PROVE  LET p == partitionSectors
             c == clusterCount(p, spc, fatSectors)
         IN  /\ p \in Nat /\ device = p + 2048
             /\ c \in Int /\ c >= 65525
             /\ c * spc \in Int
             /\ c * spc <= p - (32 + 2 * fatSectors)
             /\ p - (32 + 2 * fatSectors) < c * spc + spc
             /\ fatSectors = (c + 129) \div 128
             /\ fatSectors \in Nat /\ spc \in Int
<1> DEFINE p == partitionSectors
           c == clusterCount(p, spc, fatSectors)
<1>1. p \in Nat /\ device = p + 2048
  BY PartitionSize, DeviceSize, SMT DEF ChosenFat, partitionSectors, partitionStart
<1>2. spc \in Spc /\ fatSectors \in Nat
  BY DEF TypeOK
<1>3. /\ c \in Int /\ c * spc <= p - (32 + 2 * fatSectors)
      /\ p - (32 + 2 * fatSectors) < c * spc + spc
  <2> HIDE DEF p
  <2>1. QED
    BY <1>1, <1>2, SpcDivision DEF clusterCount, metadataSectors, reservedSectors, fatCount
<1>4. c >= 65525 /\ fatSectors = (c + 2 + 128 - 1) \div 128
  BY DEF ChosenFat, Enough, Converged, minFat32Clusters, requiredFatSectors, EntriesPerSector
<1>5. spc \in Int /\ c * spc \in Int
  BY <1>2, <1>3, SMT DEF Spc
<1> HIDE DEF c, p
<1>6. fatSectors = (c + 129) \div 128
  BY <1>3, <1>4, SMT
<1>7. QED
  BY <1>1, <1>2, <1>3, <1>4, <1>5, <1>6 DEF c, p

\* What FAT32::findVolumeGeometry computes from a chosen geometry.
LEMMA FatFoundIs ==
  ASSUME TypeOK, ChosenFat
  PROVE  LET v == volume
             c == clusterCount(partitionSectors, spc, fatSectors)
         IN  /\ v.type = "fat32" /\ v.start = 2048 /\ v.partition = partitionSectors
             /\ v.total = partitionSectors /\ v.spc = spc /\ v.reserved = 32 /\ v.fats = 2
             /\ v.fatSectors = fatSectors /\ v.root = 2
             /\ FatFound(v).clusters = c /\ FatFound(v).spc = spc
             /\ FatFound(v).firstData = 2048 + 32 + 2 * fatSectors
<1> DEFINE v == volume
           p == partitionSectors
<1>1. /\ v.type = "fat32" /\ v.start = 2048 /\ v.partition = p
      /\ v.total = p /\ v.spc = spc /\ v.reserved = 32 /\ v.fats = 2
      /\ v.fatSectors = fatSectors /\ v.root = 2
  BY DEF ChosenFat, FatVolume, partitionStart, reservedSectors, fatCount, rootCluster
<1>2. FatFound(v).clusters = (p - 32 - 2 * fatSectors) \div spc
  BY <1>1 DEF FatFound
<1>3. p - 32 - 2 * fatSectors = p - (32 + 2 * fatSectors)
  BY ChosenFatNumbers, SMT
<1>4. FatFound(v).spc = spc /\ FatFound(v).firstData = 2048 + 32 + 2 * fatSectors
  BY <1>1 DEF FatFound
<1>5. clusterCount(p, spc, fatSectors) = (p - (32 + 2 * fatSectors)) \div spc
  BY DEF clusterCount, metadataSectors, reservedSectors, fatCount
<1>6. QED
  BY <1>1, <1>2, <1>3, <1>4, <1>5

\* Such a volume fits the disk,
LEMMA ChosenFatFits ==
  ASSUME TypeOK, ChosenFat
  PROVE  FatFits(volume)
<1> DEFINE c == clusterCount(partitionSectors, spc, fatSectors)
           end == 2048 + 32 + 2 * fatSectors + c * spc
<1>1. /\ partitionSectors \in Nat /\ device = partitionSectors + 2048
      /\ c \in Int /\ c >= 65525 /\ c * spc \in Int
      /\ c * spc <= partitionSectors - (32 + 2 * fatSectors)
      /\ partitionSectors - (32 + 2 * fatSectors) < c * spc + spc
      /\ fatSectors = (c + 129) \div 128 /\ fatSectors \in Nat /\ spc \in Int
  BY ChosenFatNumbers
<1>2. FatClusters(volume) = c /\ FatFound(volume).firstData + c * volume.spc = end
      /\ volume.spc = spc /\ volume.fatSectors = fatSectors
      /\ volume.start = 2048 /\ volume.total = partitionSectors
  BY FatFoundIs DEF FatClusters
<1> HIDE DEF c
<1>3. c + 2 <= fatSectors * 128 /\ c + 2 > (fatSectors - 1) * 128
  BY <1>1, SMT
<1>4. end <= device /\ device - end < spc
  BY <1>1, SMT
<1>5. 2048 + partitionSectors = device
  BY <1>1, SMT
<1> HIDE DEF end
<1>6. QED
  BY <1>2, <1>3, <1>4, <1>5 DEF FatFits, EntriesPerSector

\* and mountSata takes it.
LEMMA ChosenFatMounts ==
  ASSUME TypeOK, ChosenFat
  PROVE  FatReadable(volume)
<1> DEFINE c == clusterCount(partitionSectors, spc, fatSectors)
           p == partitionSectors
<1>1. /\ p \in Nat /\ device = p + 2048
      /\ c \in Int /\ c >= 65525 /\ c * spc \in Int
      /\ c * spc <= p - (32 + 2 * fatSectors)
      /\ fatSectors = (c + 129) \div 128 /\ fatSectors \in Nat /\ spc \in Int
  BY ChosenFatNumbers
<1>2. /\ volume.start = 2048 /\ volume.partition = p
      /\ volume.total = p /\ volume.spc = spc /\ volume.reserved = 32 /\ volume.fats = 2
      /\ volume.fatSectors = fatSectors /\ volume.root = 2
  BY FatFoundIs
<1>3. (volume.total - (volume.reserved + volume.fats * volume.fatSectors)) \div volume.spc = c
  BY <1>2 DEF clusterCount, metadataSectors, reservedSectors, fatCount
<1>4. spc \in Spc
  BY DEF TypeOK
<1> HIDE DEF c, p
<1>5. 32 + 2 * fatSectors < p
  <2>1. c <= c * spc
    BY <1>1, <1>4, SMT DEF Spc
  <2>2. QED
    BY <1>1, <2>1, SMT
<1>6. 2048 < device /\ p <= device - 2048 /\ p # 0 /\ p <= p /\ fatSectors # 0
      /\ c # 0 /\ c + 2 <= fatSectors * 128 /\ 2 < c + 2
  BY <1>1, <1>5, SMT
<1>7. QED
  BY <1>2, <1>3, <1>4, <1>5, <1>6, SMT DEF FatReadable, EntriesPerSector

------------------------------------------------------------------------------
(* The ext4 layout *)

\* wanted, rounded up to sixteens.
LEMMA Sixteens ==
  ASSUME NEW w \in Int, w <= 8192
  PROVE  \E q \in 2 .. 512 :
           (GreaterOf(w, 32) + 15) \div 16 = q /\ (w <= 512 => q <= 32)
<1>1. /\ (GreaterOf(w, 32) + 15) \div 16 \in 2 .. 512
      /\ w <= 512 => (GreaterOf(w, 32) + 15) \div 16 <= 32
  BY SMT DEF GreaterOf
<1>2. QED
  BY <1>1

\* The inodes of a group fill whole blocks of its table, of either size.
LEMMA InodeTable ==
  ASSUME NEW b \in Nat, b >= 1, NEW bs \in {1024, 4096}
  PROVE  /\ inodesPerGroup(b, bs) \in Nat
         /\ inodesPerGroup(b, bs) >= 32 /\ inodesPerGroup(b, bs) <= 8192
         /\ tableBlocks(b, bs) \in Nat
         /\ tableBlocks(b, bs) >= 1 /\ tableBlocks(b, bs) <= 512
         /\ bs = 1024 => tableBlocks(b, bs) = (inodesPerGroup(b, bs) * 256) \div 1024
         /\ bs = 4096 => tableBlocks(b, bs) = (inodesPerGroup(b, bs) * 256) \div 4096
<1> USE DEF inodesPerGroup, tableBlocks, blocksPerGroup, firstDataBlock, InodeSize
<1>1. CASE bs = 1024
  <2> DEFINE w == (LesserOf(b - 1, 1024 * 8) * 1024) \div 16384
  <2>1. w \in Int /\ w <= 512
    BY SMT DEF LesserOf
  <2> HIDE DEF w
  <2>2. PICK q \in 2 .. 32 : (GreaterOf(w, 32) + 15) \div 16 = q
    BY <2>1, Sixteens, SMT
  <2>3. inodesPerGroup(b, 1024) = LesserOf(q * 16, 1024 * 8)
    BY <2>2 DEF w
  <2>4. LesserOf(q * 16, 1024 * 8) = q * 16
    BY SMT DEF LesserOf
  <2>5. inodesPerGroup(b, 1024) = q * 16
    BY <2>3, <2>4
  <2>6. tableBlocks(b, 1024) = (q * 16 * 256 + 1024 - 1) \div 1024
    BY <2>5
  <2>7. /\ q * 16 \in Nat /\ q * 16 >= 32 /\ q * 16 <= 8192
        /\ (q * 16 * 256 + 1024 - 1) \div 1024 = (q * 16 * 256) \div 1024
        /\ (q * 16 * 256) \div 1024 \in Nat
        /\ (q * 16 * 256) \div 1024 >= 1 /\ (q * 16 * 256) \div 1024 <= 512
    BY SMT
  <2>8. bs # 4096
    BY <1>1, SMT
  <2> HIDE DEF inodesPerGroup, tableBlocks
  <2>9. QED
    BY <1>1, <2>5, <2>6, <2>7, <2>8
<1>2. CASE bs = 4096
  <2> DEFINE w == (LesserOf(b - 0, 4096 * 8) * 4096) \div 16384
  <2>1. w \in Int /\ w <= 8192
    BY SMT DEF LesserOf
  <2> HIDE DEF w
  <2>2. PICK q \in 2 .. 512 : (GreaterOf(w, 32) + 15) \div 16 = q
    BY <2>1, Sixteens, SMT
  <2>3. inodesPerGroup(b, 4096) = LesserOf(q * 16, 4096 * 8)
    BY <2>2, SMT DEF w
  <2>4. LesserOf(q * 16, 4096 * 8) = q * 16
    BY SMT DEF LesserOf
  <2>5. inodesPerGroup(b, 4096) = q * 16
    BY <2>3, <2>4
  <2>6. tableBlocks(b, 4096) = (q * 16 * 256 + 4096 - 1) \div 4096
    BY <2>5
  <2>7. /\ q * 16 \in Nat /\ q * 16 >= 32 /\ q * 16 <= 8192
        /\ (q * 16 * 256 + 4096 - 1) \div 4096 = (q * 16 * 256) \div 4096
        /\ (q * 16 * 256) \div 4096 \in Nat
        /\ (q * 16 * 256) \div 4096 >= 1 /\ (q * 16 * 256) \div 4096 <= 512
    BY SMT
  <2> HIDE DEF inodesPerGroup, tableBlocks
  <2>8. bs # 1024
    BY <1>2
  <2>9. QED
    BY <1>2, <2>5, <2>6, <2>7, <2>8
<1> HIDE DEF inodesPerGroup, tableBlocks
<1>3. QED
  BY <1>1, <1>2

\* The groups of a volume that is on the disk, and the blocks of their descriptors.
LEMMA GroupsAndDescriptors ==
  ASSUME TypeOK, OnDisk
  PROVE  LET bs == BlockSize
             n  == groupCount(blocks, bs)
         IN  /\ n \in Nat /\ n >= 1
             /\ blocks - firstDataBlock(bs) > (n - 1) * blocksPerGroup(bs)
             /\ blocks - firstDataBlock(bs) <= n * blocksPerGroup(bs)
             /\ gdtBlocks(blocks, bs) \in Nat
             /\ gdtBlocks(blocks, bs) >= 1 /\ gdtBlocks(blocks, bs) <= 128
             /\ n * 32 <= gdtBlocks(blocks, bs) * bs
<1> USE DEF OnDisk, firstDataBlock, blocksPerGroup, gdtBlocks, groupCount, SectorsPerBlock, DescSize
<1>1. device \in Nat /\ device < 4294967296
  BY DeviceSize
<1>2. CASE device < 131072
  <2>1. BlockSize = 1024
    BY <1>1, <1>2, SMT DEF BlockSize
  <2>2. blocks \in Nat /\ blocks >= 64 /\ blocks <= 65536
    BY <1>1, <1>2, <2>1, SMT
  <2> DEFINE n == (blocks - 1 + 8192 - 1) \div 8192
  <2>3. /\ n \in 1 .. 8 /\ blocks - 1 > (n - 1) * 8192 /\ blocks - 1 <= n * 8192
    BY <2>2, SMT
  <2> HIDE DEF n
  <2>4. (n * 32 + 1024 - 1) \div 1024 = 1 /\ n * 32 <= 1024
    BY <2>3, SMT
  <2>5. groupCount(blocks, 1024) = n
    BY <2>2, SMT DEF n
  <2>6. gdtBlocks(blocks, 1024) = 1
    BY <2>4, <2>5 DEF gdtBlocks
  <2>7. firstDataBlock(1024) = 1 /\ blocksPerGroup(1024) = 8192
    OBVIOUS
  <2> HIDE DEF groupCount, gdtBlocks, firstDataBlock, blocksPerGroup
  <2>8. /\ groupCount(blocks, 1024) \in Nat /\ groupCount(blocks, 1024) >= 1
        /\ blocks - firstDataBlock(1024) > (groupCount(blocks, 1024) - 1) * blocksPerGroup(1024)
        /\ blocks - firstDataBlock(1024) <= groupCount(blocks, 1024) * blocksPerGroup(1024)
    BY <2>2, <2>3, <2>4, <2>5, <2>7, SMT
  <2>9. /\ gdtBlocks(blocks, 1024) \in Nat
        /\ gdtBlocks(blocks, 1024) >= 1 /\ gdtBlocks(blocks, 1024) <= 128
        /\ groupCount(blocks, 1024) * 32 <= gdtBlocks(blocks, 1024) * 1024
    BY <2>3, <2>4, <2>5, <2>6, SMT
  <2>10. QED
    BY <2>1, <2>8, <2>9
<1>3. CASE device >= 131072
  <2>1. BlockSize = 4096
    BY <1>1, <1>3, SMT DEF BlockSize
  <2>2. blocks \in Nat /\ blocks >= 64 /\ blocks <= 536870912
    BY <1>1, <1>3, <2>1, SMT
  <2> DEFINE n == (blocks - 0 + 32768 - 1) \div 32768
             t == (n * 32 + 4096 - 1) \div 4096
  <2>3. /\ n \in 1 .. 16384 /\ blocks > (n - 1) * 32768 /\ blocks <= n * 32768
    BY <2>2, SMT
  <2>4. groupCount(blocks, 4096) = n
    BY <2>2, SMT
  <2> HIDE DEF n
  <2>5. t \in 1 .. 128 /\ n * 32 <= t * 4096
    BY <2>3, SMT
  <2>6. gdtBlocks(blocks, 4096) = t
    BY <2>4 DEF gdtBlocks
  <2>7. firstDataBlock(4096) = 0 /\ blocksPerGroup(4096) = 32768
    OBVIOUS
  <2> HIDE DEF groupCount, gdtBlocks, firstDataBlock, blocksPerGroup, t
  <2>8. /\ groupCount(blocks, 4096) \in Nat /\ groupCount(blocks, 4096) >= 1
        /\ blocks - firstDataBlock(4096) > (groupCount(blocks, 4096) - 1) * blocksPerGroup(4096)
        /\ blocks - firstDataBlock(4096) <= groupCount(blocks, 4096) * blocksPerGroup(4096)
    BY <2>2, <2>3, <2>4, <2>5, <2>7, SMT
  <2>9. /\ gdtBlocks(blocks, 4096) \in Nat
        /\ gdtBlocks(blocks, 4096) >= 1 /\ gdtBlocks(blocks, 4096) <= 128
        /\ groupCount(blocks, 4096) * 32 <= gdtBlocks(blocks, 4096) * 4096
    BY <2>3, <2>4, <2>5, <2>6, SMT
  <2>10. QED
    BY <2>1, <2>8, <2>9
<1>4. QED
  BY <1>1, <1>2, <1>3, SMT

\* The first blocks of a group, and some more, fit into it.
LEMMA GroupHasRoom ==
  ASSUME TypeOK, OnDisk, ~TrailingTooSmall(blocks, BlockSize),
         blocks - firstDataBlock(BlockSize) >= prefix(blocks, BlockSize, 0) + 2,
         NEW g \in 0 .. groupCount(blocks, BlockSize) - 1
  PROVE  LET size == GroupBlocks(blocks, BlockSize, g)
             used == prefix(blocks, BlockSize, g)
         IN  size \in Nat /\ size <= 32768 /\ used \in Nat /\ used < size
<1> DEFINE bs   == BlockSize
           fdb  == firstDataBlock(bs)
           bpg  == blocksPerGroup(bs)
           n    == groupCount(blocks, bs)
           k    == gdtBlocks(blocks, bs)
           t    == tableBlocks(blocks, bs)
           used == prefix(blocks, bs, g)
           rest == blocks - (fdb + g * bpg)
<1>1. /\ n \in Nat /\ n >= 1 /\ k \in Nat /\ k >= 1 /\ k <= 128
      /\ blocks - fdb > (n - 1) * bpg /\ blocks - fdb <= n * bpg
  BY GroupsAndDescriptors
<1>2. bs \in {1024, 4096}
  BY DEF BlockSize
<1>3. t \in Nat /\ t >= 1 /\ t <= 512
  <2>1. blocks \in Nat /\ blocks >= 1
    BY SMT DEF OnDisk
  <2>2. QED
    BY <1>2, <2>1, InodeTable
<1>4. fdb \in {0, 1} /\ bpg \in {8192, 32768}
  BY <1>2, SMT DEF firstDataBlock, blocksPerGroup
<1>5. used = 2 + t + IF g = 0 THEN 1 + k + 2 ELSE 0
  BY DEF prefix
<1>6. GroupBlocks(blocks, bs, g) = LesserOf(bpg, rest)
  BY DEF GroupBlocks, GroupStart
<1>7. n > 1 => blocks - fdb - (n - 1) * bpg >= 2 + t + 16
  <2>1. SUFFICES ASSUME n > 1 PROVE blocks - fdb - (n - 1) * bpg >= 2 + t + 16
    OBVIOUS
  <2>2. lastMeta(blocks, bs) = 2 + t + 0
    BY <1>1, <2>1, SMT DEF lastMeta
  <2>3. ~(blocks - fdb - (n - 1) * bpg < 2 + t + 0 + 16)
    BY <2>1, <2>2 DEF TrailingTooSmall, lastBlocks
  <2> HIDE DEF fdb, bpg, n, t
  <2>4. (n - 1) * bpg \in Int
    BY <1>1, <1>4, SMT
  <2>5. QED
    BY <1>3, <1>4, <2>3, <2>4, SMT DEF OnDisk
<1>8. g = 0 => blocks - fdb >= used + 2
  OBVIOUS
<1>9. g \in 0 .. n - 1 /\ blocks \in Nat
  BY DEF OnDisk
<1> HIDE DEF bs, fdb, bpg, n, k, t, used
<1>10. used \in Nat /\ used <= 645
  BY <1>1, <1>3, <1>5, <1>9, SMT
<1>11. CASE bpg = 8192
  <2>1. rest \in Int /\ rest > used
    <3>1. CASE g < n - 1
      BY <1>1, <1>4, <1>9, <1>10, <1>11, <3>1, SMT
    <3>2. CASE g = n - 1 /\ g = 0
      BY <1>1, <1>4, <1>8, <1>9, <1>10, <1>11, <3>2, SMT
    <3>3. CASE g = n - 1 /\ g # 0
      BY <1>1, <1>3, <1>4, <1>5, <1>7, <1>9, <1>11, <3>3, SMT
    <3>4. QED
      BY <1>1, <1>9, <3>1, <3>2, <3>3, SMT
  <2> HIDE DEF rest
  <2>2. QED
    BY <1>6, <1>10, <1>11, <2>1, SMT DEF LesserOf, bs, used
<1>12. CASE bpg = 32768
  <2>1. rest \in Int /\ rest > used
    <3>1. CASE g < n - 1
      BY <1>1, <1>4, <1>9, <1>10, <1>12, <3>1, SMT
    <3>2. CASE g = n - 1 /\ g = 0
      BY <1>1, <1>4, <1>8, <1>9, <1>10, <1>12, <3>2, SMT
    <3>3. CASE g = n - 1 /\ g # 0
      BY <1>1, <1>3, <1>4, <1>5, <1>7, <1>9, <1>12, <3>3, SMT
    <3>4. QED
      BY <1>1, <1>9, <3>1, <3>2, <3>3, SMT
  <2> HIDE DEF rest
  <2>2. QED
    BY <1>6, <1>10, <1>12, <2>1, SMT DEF LesserOf, bs, used
<1>13. QED
  BY <1>4, <1>11, <1>12

\* Where format puts the descriptor of a group: before the block bitmap of group 0,
\* and at the place descriptorOffset looks for it.
LEMMA DescriptorPlace ==
  ASSUME TypeOK, OnDisk, NEW g \in 0 .. groupCount(blocks, BlockSize) - 1
  PROVE  LET bs == BlockSize
         IN  /\ (g * 32) \div bs \in Nat /\ (g * 32) \div bs < gdtBlocks(blocks, bs)
             /\ ((g * 32) % bs) + 32 <= bs
             /\ (g * 32) \div bs = g \div (bs \div 32)
             /\ (g * 32) % bs = (g % (bs \div 32)) * 32
<1> DEFINE n == groupCount(blocks, BlockSize)
           k == gdtBlocks(blocks, BlockSize)
<1>1. n \in Nat /\ k \in Nat /\ n * 32 <= k * BlockSize
  BY GroupsAndDescriptors
<1>2. g \in 0 .. n - 1
  OBVIOUS
<1>3. BlockSize = 1024 \/ BlockSize = 4096
  BY DEF BlockSize
<1> HIDE DEF n, k
<1>4. CASE BlockSize = 1024
  <2>1. /\ (g * 32) \div 1024 \in Nat /\ (g * 32) \div 1024 < k
        /\ ((g * 32) % 1024) + 32 <= 1024
        /\ (g * 32) \div 1024 = g \div 32
        /\ (g * 32) % 1024 = (g % 32) * 32
    BY <1>1, <1>2, <1>4, SMT
  <2>2. 1024 \div 32 = 32
    BY SMT
  <2>3. QED
    BY <1>4, <2>1, <2>2 DEF k
<1>5. CASE BlockSize = 4096
  <2>1. /\ (g * 32) \div 4096 \in Nat /\ (g * 32) \div 4096 < k
        /\ ((g * 32) % 4096) + 32 <= 4096
        /\ (g * 32) \div 4096 = g \div 128
        /\ (g * 32) % 4096 = (g % 128) * 32
    BY <1>1, <1>2, <1>5, SMT
  <2>2. 4096 \div 32 = 128
    BY SMT
  <2>3. QED
    BY <1>5, <2>1, <2>2 DEF k
<1>6. QED
  BY <1>3, <1>4, <1>5

\* A chosen ext4 layout fits in every group.
LEMMA ChosenExt4Fits ==
  ASSUME TypeOK, ChosenExt4, NEW g \in DOMAIN volume.groups
  PROVE  GroupFits(volume, g)
<1> DEFINE bs   == BlockSize
           fdb  == firstDataBlock(bs)
           bpg  == blocksPerGroup(bs)
           k    == gdtBlocks(blocks, bs)
           t    == tableBlocks(blocks, bs)
           ipg  == inodesPerGroup(blocks, bs)
           used == prefix(blocks, bs, g)
           size == GroupBlocks(blocks, bs, g)
           d    == volume.groups[g]
           start == fdb + g * bpg
<1>1. /\ volume.blockSize = bs /\ volume.blocks = blocks /\ volume.firstData = fdb
      /\ volume.blocksPerGroup = bpg /\ volume.inodesPerGroup = ipg
      /\ volume.groups = [h \in 0 .. groupCount(blocks, bs) - 1 |-> Descriptor(blocks, bs, h)]
  BY DEF ChosenExt4, Ext4Volume
<1>2. g \in 0 .. groupCount(blocks, bs) - 1 /\ d = Descriptor(blocks, bs, g)
  BY <1>1
<1>3. /\ groupCount(blocks, bs) \in Nat /\ groupCount(blocks, bs) >= 1
      /\ k \in Nat /\ k >= 1
  BY GroupsAndDescriptors DEF ChosenExt4
<1>4. volume.groups[0] = Descriptor(blocks, bs, 0)
  <2>1. 0 \in 0 .. groupCount(blocks, bs) - 1
    BY <1>3, SMT
  <2>2. QED
    BY <1>1, <2>1
<1>5. size \in Nat /\ size <= 32768 /\ used \in Nat /\ used < size
  BY <1>2, GroupHasRoom DEF ChosenExt4
<1>6. LesserOf(bpg, blocks - start) = size
  BY DEF GroupBlocks, GroupStart
<1>7. /\ (g * 32) \div bs \in Nat /\ (g * 32) \div bs < k /\ ((g * 32) % bs) + 32 <= bs
  BY <1>2, DescriptorPlace DEF ChosenExt4
<1>8. bs = 1024 \/ bs = 4096
  BY DEF BlockSize
<1>9. /\ ipg \in Nat /\ ipg >= 32 /\ ipg <= 8192 /\ t \in Nat
      /\ t = (ipg * 256) \div bs
  <2>1. blocks \in Nat /\ blocks >= 1 /\ bs \in {1024, 4096}
    BY <1>8, SMT DEF ChosenExt4, OnDisk
  <2>2. QED
    BY <1>8, <2>1, InodeTable
<1>10. fdb \in Nat /\ g * bpg \in Nat
  BY <1>2, <1>3, <1>8, SMT DEF firstDataBlock, blocksPerGroup
<1> DEFINE first == IF g = 0 THEN fdb + 1 + k ELSE start
<1>11. /\ d.blockBitmap = first /\ d.inodeBitmap = first + 1 /\ d.table = first + 2
       /\ d.used = used
       /\ d.freeBlocks = (size - used) % 65536
       /\ d.freeInodes = (ipg - IF g = 0 THEN 11 ELSE 0) % 65536
       /\ d.block = fdb + 1 + (g * 32) \div bs
       /\ d.offset = (g * 32) % bs
  BY <1>2 DEF Descriptor, GroupStart, DescSize
<1>12. volume.groups[0].blockBitmap = fdb + 1 + k
  BY <1>4 DEF Descriptor
<1>13. used = 2 + t + IF g = 0 THEN 1 + k + 2 ELSE 0
  BY DEF prefix
<1>14. g = 0 => start = fdb
  BY <1>8, <1>10, SMT DEF blocksPerGroup
<1> HIDE DEF bs, fdb, k, t, ipg, used, size, d, start
<1>15. start \in Nat
  BY <1>10, SMT DEF start
<1>16. first \in Nat /\ first >= start
  BY <1>3, <1>10, <1>14, <1>15, SMT
<1>17. first + 2 + t + (IF g = 0 THEN 2 ELSE 0) = start + used
  BY <1>3, <1>9, <1>10, <1>13, <1>14, <1>15, SMT
<1>18. (size - used) % 65536 = size - used
  BY <1>5, SMT
<1>19. ipg = ((ipg - IF g = 0 THEN 11 ELSE 0) % 65536) + (IF g = 0 THEN 11 ELSE 0)
  BY <1>9, SMT
<1>20. fdb + 1 + (g * 32) \div bs < fdb + 1 + k
  BY <1>3, <1>7, <1>10, SMT
<1> HIDE DEF first, bpg
<1>21. first + 1 + 1 = first + 2
  BY <1>16, SMT
<1>22. /\ volume.blockSize = bs /\ volume.firstData + g * volume.blocksPerGroup = start
       /\ LesserOf(volume.blocksPerGroup, volume.blocks - start) = size
       /\ (volume.inodesPerGroup * InodeSize) \div volume.blockSize = t
       /\ volume.inodesPerGroup = ipg
  BY <1>1, <1>6, <1>9 DEF start, InodeSize
<1>23. /\ d.blockBitmap >= start /\ d.inodeBitmap = d.blockBitmap + 1
       /\ d.table = d.inodeBitmap + 1
  BY <1>11, <1>16, <1>21
<1>24. d.table + t + (IF g = 0 THEN 2 ELSE 0) = start + d.used
  BY <1>11, <1>17
<1>25. d.used + d.freeBlocks = size /\ d.freeBlocks > 0
  <2>1. d.used = used /\ d.freeBlocks = size - used
    BY <1>11, <1>18
  <2>2. used + (size - used) = size /\ size - used > 0
    BY <1>5, SMT
  <2>3. QED
    BY <2>1, <2>2
<1>26. ipg = d.freeInodes + (IF g = 0 THEN 11 ELSE 0)
  BY <1>11, <1>19
<1>27. d.block < volume.groups[0].blockBitmap /\ d.offset + DescSize <= bs
  BY <1>7, <1>11, <1>12, <1>20 DEF DescSize
<1> HIDE DEF start
<1>28. QED
  BY <1>22, <1>23, <1>24, <1>25, <1>26, <1>27 DEF GroupFits, d

\* mountAt computes the groups that format made, with their descriptors where it put
\* them.
LEMMA ChosenExt4Found ==
  ASSUME TypeOK, ChosenExt4
  PROVE  /\ DOMAIN Ext4Found(volume).groups = DOMAIN volume.groups
         /\ \A g \in DOMAIN volume.groups :
              /\ Ext4Found(volume).groups[g].block = volume.groups[g].block
              /\ Ext4Found(volume).groups[g].offset = volume.groups[g].offset
<1> DEFINE bs == BlockSize
           n  == groupCount(blocks, bs)
<1>1. /\ volume.blockSize = bs /\ volume.firstData = firstDataBlock(bs)
      /\ volume.groups = [h \in 0 .. n - 1 |-> Descriptor(blocks, bs, h)]
      /\ MountedGroups(volume) = n
  BY DEF ChosenExt4, Ext4Volume, MountedGroups, groupCount
<1>2. /\ DOMAIN Ext4Found(volume).groups = 0 .. n - 1
      /\ \A g \in 0 .. n - 1 :
           /\ Ext4Found(volume).groups[g].block = DescriptorBlock(volume, g)
           /\ Ext4Found(volume).groups[g].offset = DescriptorOffset(volume, g)
  BY <1>1 DEF Ext4Found
<1>3. ASSUME NEW g \in 0 .. n - 1
      PROVE  /\ DescriptorBlock(volume, g) = volume.groups[g].block
             /\ DescriptorOffset(volume, g) = volume.groups[g].offset
  <2> DEFINE q == (g * 32) \div bs
             r == (g * 32) % bs
  <2>1. /\ q \in Nat /\ q = g \div (bs \div 32) /\ r = (g % (bs \div 32)) * 32
    BY DescriptorPlace DEF ChosenExt4
  <2>2. volume.groups[g].block = firstDataBlock(bs) + 1 + q /\ volume.groups[g].offset = r
    BY <1>1 DEF Descriptor, DescSize
  <2>3. /\ DescriptorBlock(volume, g) = firstDataBlock(bs) + g \div (bs \div 32) + 1
        /\ DescriptorOffset(volume, g) = (g % (bs \div 32)) * 32
    BY <1>1 DEF DescriptorBlock, DescriptorOffset, DescSize
  <2> HIDE DEF q, r
  <2>4. firstDataBlock(bs) + q + 1 = firstDataBlock(bs) + 1 + q
    BY <2>1, SMT DEF firstDataBlock
  <2>5. QED
    BY <2>1, <2>2, <2>3, <2>4
<1>4. DOMAIN volume.groups = 0 .. n - 1
  BY <1>1
<1> HIDE DEF n
<1>5. QED
  BY <1>2, <1>3, <1>4

\* And it takes the volume.
LEMMA ChosenExt4Mounts ==
  ASSUME TypeOK, ChosenExt4
  PROVE  Ext4Readable(volume)
<1> DEFINE bs  == BlockSize
           n   == groupCount(blocks, bs)
           ipg == inodesPerGroup(blocks, bs)
<1>1. /\ volume.blockSize = bs /\ volume.blocks = blocks /\ volume.firstData = firstDataBlock(bs)
      /\ volume.blocksPerGroup = bs * 8 /\ volume.inodesPerGroup = ipg
      /\ volume.inodes = n * ipg /\ MountedGroups(volume) = n
  BY DEF ChosenExt4, Ext4Volume, MountedGroups, groupCount, blocksPerGroup
<1>2. bs = 1024 \/ bs = 4096
  BY DEF BlockSize
<1>3. blocks \in Nat /\ blocks >= 64 /\ blocks * SectorsPerBlock(bs) <= device
  BY DEF ChosenExt4, OnDisk
<1>4. n \in Nat /\ n >= 1
  BY GroupsAndDescriptors DEF ChosenExt4
<1>5. ipg \in Nat /\ ipg >= 32 /\ ipg <= 8192
  <2>1. bs \in {1024, 4096} /\ blocks >= 1
    BY <1>2, <1>3, SMT
  <2>2. QED
    BY <1>3, <2>1, InodeTable
<1> HIDE DEF bs, n, ipg
<1>6. n * ipg \in Nat /\ n * ipg >= 2
  <2>1. n * ipg >= ipg
    BY <1>4, <1>5, SMT
  <2>2. QED
    BY <1>4, <1>5, <2>1, SMT
<1>7. firstDataBlock(bs) < blocks /\ blocks # 0 /\ bs * 8 # 0
      /\ ipg >= 2 /\ ipg <= bs * 8 /\ n # 0 /\ n * ipg <= n * ipg
  BY <1>2, <1>3, <1>4, <1>5, <1>6, SMT DEF firstDataBlock
<1>8. QED
  BY <1>1, <1>3, <1>6, <1>7 DEF Ext4Readable

------------------------------------------------------------------------------
(* The steps *)

\* The invariant holds before any format.
LEMMA InitFormatInv == Init => FormatInv
<1> SUFFICES ASSUME Init PROVE FormatInv
  OBVIOUS
<1>1. TypeOK
  <2>1. 1 \in Spc /\ 1 \in Nat /\ 0 \in 0 .. MaxIterations /\ 0 \in Nat
    BY SMT DEF Spc, MaxIterations
  <2>2. QED
    BY <2>1 DEF Init, TypeOK, Stage
<1>2. QED
  BY <1>1 DEF Init, FormatInv

\* No cluster size lies below the first.
LEMMA SmallestSpc == \A s \in Spc : ~(s < 1)
BY SMT DEF Spc

\* A disk is taken for FAT32.
LEMMA StartFat32Preserves == FormatInv /\ StartFat32 => FormatInv'
<1> SUFFICES ASSUME FormatInv, StartFat32 PROVE FormatInv'
  OBVIOUS
<1>1. device' = device /\ device \in Nat /\ stage = "idle"
  BY DeviceSize DEF FormatInv, StartFat32
<1>2. TypeOK'
  <2>1. 1 \in Spc /\ 1 \in Nat /\ 0 \in 0 .. MaxIterations
    BY SMT DEF Spc, MaxIterations
  <2>2. QED
    BY <2>1 DEF FormatInv, StartFat32, TypeOK, Stage, Refusal
<1>3. CASE device <= partitionStart
  BY <1>2, <1>3 DEF FormatInv, StartFat32
<1>4. CASE ~(device <= partitionStart)
  <2>1. device > partitionStart
    BY <1>1, <1>4, SMT DEF partitionStart
  <2>2. stage' = "choose" /\ spc' = 1 /\ fatSectors' = 1 /\ iteration' = 0
    BY <1>4 DEF StartFat32
  <2>3. partitionSectors' = partitionSectors
    BY <1>1 DEF partitionSectors
  <2>4. partitionSectors \in Nat /\ partitionSectors \div 65536 < 65536
    BY <2>1, PartitionSize DEF FormatInv
  <2>5. ASSUME NEW e \in Nat, ExactSize(partitionSectors, 1, e)
        PROVE  OnTheWay(partitionSectors, 1, 0, 1, e)
    <3>1. 1 \in Spc
      BY DEF Spc
    <3>2. QED
      BY <2>4, <2>5, <3>1, SearchBegins
  <2>6. QED
    BY <1>1, <1>2, <2>1, <2>2, <2>3, <2>5, SmallestSpc DEF FormatInv
<1>5. QED
  BY <1>3, <1>4

\* An iteration of the search.
LEMMA IteratePreserves == FormatInv /\ Iterate => FormatInv'
<1> SUFFICES ASSUME FormatInv, Iterate PROVE FormatInv'
  OBVIOUS
<1> DEFINE p == partitionSectors
           n == Needed(p, spc, fatSectors)
<1>1. /\ device' = device /\ stage = "choose" /\ stage' = "choose" /\ spc' = spc
      /\ fatSectors' = n /\ iteration' = iteration + 1 /\ device > partitionStart
  BY DEF Iterate, FormatInv, Needed
<1>2. /\ p \in Nat /\ p \div 65536 < 65536 /\ spc \in Spc /\ fatSectors \in Nat
      /\ iteration \in Nat /\ iteration < 32
  BY <1>1, PartitionSize, SMT DEF FormatInv, TypeOK, Iterate, MaxIterations
<1>3. n \in Nat
  <2>1. clusterCount(p, spc, fatSectors) \in Int
    BY <1>2, SpcDivision, SMT DEF clusterCount, metadataSectors, reservedSectors, fatCount
  <2>2. clusterCount(p, spc, fatSectors) >= 0
    <3> DEFINE m == p - (32 + 2 * fatSectors)
    <3>1. metadataSectors(fatSectors) < p
      BY DEF Iterate
    <3>2. m \in Int /\ m >= 0
      <4> HIDE DEF p
      <4>1. QED
        BY <1>2, <3>1, SMT DEF metadataSectors, reservedSectors, fatCount
    <3> HIDE DEF m
    <3>3. m \div spc >= 0
      BY <1>2, <3>2, SMT DEF Spc
    <3>4. QED
      BY <3>3 DEF clusterCount, metadataSectors, reservedSectors, fatCount, m
  <2> DEFINE c == clusterCount(p, spc, fatSectors)
  <2> HIDE DEF c
  <2>3. (c + 2 + 128 - 1) \div 128 \in Nat
    BY <2>1, <2>2, SMT DEF c
  <2>4. QED
    BY <2>3 DEF Needed, requiredFatSectors, EntriesPerSector, c
<1>4. TypeOK'
  <2>1. iteration + 1 \in 0 .. MaxIterations
    BY <1>2, SMT DEF MaxIterations
  <2> HIDE DEF n
  <2>2. QED
    BY <1>1, <1>2, <1>3, <2>1 DEF FormatInv, TypeOK, Iterate
<1>5. ASSUME NEW e \in Nat, ExactSize(p, spc, e)
      PROVE  OnTheWay(p, spc, iteration + 1, n, e)
  <2>1. OnTheWay(p, spc, iteration, fatSectors, e)
    BY <1>1, <1>5 DEF FormatInv
  <2>2. iteration # 7
    <3>1. SUFFICES ASSUME iteration = 7 PROVE FALSE
      OBVIOUS
    <3>2. fatSectors = e
      BY <2>1, <3>1, SMT DEF OnTheWay
    <3>3. Converged
      BY <1>5, <3>2 DEF Converged, Iterate, ExactSize, Needed
    <3>4. QED
      BY <3>3 DEF Iterate
  <2>3. iteration \in 0 .. 6
    BY <1>2, <2>1, <2>2, SMT DEF OnTheWay
  <2>4. QED
    BY <1>2, <1>5, <2>1, <2>3, SearchGoesOn
<1>6. partitionSectors' = p
  BY <1>1 DEF partitionSectors
<1>7. ASSUME NEW s \in Spc, s < spc PROVE NoneExact(s)'
  BY <1>1, <1>6, <1>7 DEF FormatInv, NoneExact, Exact
<1> HIDE DEF n
<1>8. QED
  BY <1>1, <1>4, <1>5, <1>6, <1>7 DEF FormatInv

\* A cluster size is passed over.
LEMMA NextClusterSizePreserves == FormatInv /\ NextClusterSize => FormatInv'
<1> SUFFICES ASSUME FormatInv, NextClusterSize PROVE FormatInv'
  OBVIOUS
<1>1. /\ device' = device /\ stage = "choose" /\ device > partitionStart
      /\ fatSectors' = 1 /\ iteration' = 0 /\ spc \in Spc
  BY DEF FormatInv, TypeOK, NextClusterSize
<1>2. partitionSectors' = partitionSectors /\ \A s : NoneExact(s)' = NoneExact(s)
  BY <1>1 DEF partitionSectors, NoneExact, Exact
<1>3. \A s \in Spc : s < spc \/ s = spc => NoneExact(s)
  BY PassedOverRight, <1>1 DEF FormatInv
<1>4. 1 \in Nat /\ 0 \in 0 .. MaxIterations
  BY SMT DEF MaxIterations
<1>5. CASE spc < maxSectorsPerCluster
  <2>1. stage' = "choose" /\ spc' = 2 * spc
    BY <1>1, <1>5 DEF NextClusterSize
  <2>2. /\ spc' \in Spc
        /\ \A s \in Spc : s < spc' => s < spc \/ s = spc
    BY <1>1, <1>5, <2>1, SMT DEF Spc, maxSectorsPerCluster
  <2>3. TypeOK'
    BY <1>1, <1>4, <2>1, <2>2 DEF FormatInv, TypeOK, NextClusterSize
  <2>4. partitionSectors \in Nat /\ partitionSectors \div 65536 < 65536
    BY <1>1, PartitionSize DEF FormatInv
  <2>5. ASSUME NEW e \in Nat, ExactSize(partitionSectors, spc', e)
        PROVE  OnTheWay(partitionSectors, spc', 0, 1, e)
    BY <2>2, <2>4, <2>5, SearchBegins
  <2>6. QED
    BY <1>1, <1>2, <1>3, <2>1, <2>2, <2>3, <2>5 DEF FormatInv
<1>6. CASE ~(spc < maxSectorsPerCluster)
  <2>1. spc' = spc /\ stage' \in {"unsupportedCapacity", "diskTooSmall"}
    BY <1>6 DEF NextClusterSize
  <2>2. \A s \in Spc : s < spc \/ s = spc
    BY <1>1, <1>6, SMT DEF Spc, maxSectorsPerCluster
  <2>3. TypeOK'
    BY <1>1, <1>4, <2>1 DEF FormatInv, TypeOK, NextClusterSize, Stage, Refusal
  <2>4. QED
    BY <1>2, <1>3, <2>1, <2>2, <2>3 DEF FormatInv
<1>7. QED
  BY <1>5, <1>6

\* The FAT32 volume is written.
LEMMA WriteFat32Preserves == FormatInv /\ WriteFat32 => FormatInv'
<1> SUFFICES ASSUME FormatInv, WriteFat32 PROVE FormatInv'
  OBVIOUS
<1>1. /\ UNCHANGED <<device, spc, fatSectors, iteration, enough, blocks, found>>
      /\ stage' = "written" /\ stage = "choose"
  BY DEF WriteFat32
<1>2. partitionSectors' = partitionSectors
  BY <1>1 DEF partitionSectors
<1>3. Converged' /\ Enough(clusterCount(partitionSectors, spc, fatSectors))'
  BY <1>1, <1>2 DEF WriteFat32, Converged
<1>4. \A s \in Spc : s < spc => NoneExact(s)'
  BY <1>1, <1>2 DEF FormatInv, NoneExact, Exact
<1>5. ChosenFat'
  BY <1>1, <1>2, <1>3, <1>4 DEF ChosenFat, WriteFat32, FormatInv
<1>6. TypeOK'
  BY <1>1 DEF FormatInv, TypeOK, Stage
<1>7. QED
  BY <1>1, <1>5, <1>6 DEF FormatInv

\* A disk is taken for ext4.
LEMMA StartExt4Preserves == FormatInv /\ StartExt4 => FormatInv'
<1> SUFFICES ASSUME FormatInv, StartExt4 PROVE FormatInv'
  OBVIOUS
<1>1. /\ device' = device /\ BlockSize' = BlockSize /\ device \in Nat
      /\ blocks' = device \div SectorsPerBlock(BlockSize)
      /\ stage' \in {"noSpace", "groups"}
      /\ stage' = "groups" => ~(blocks' < 64)
  BY DeviceSize DEF StartExt4, BlockSize, FormatInv
<1>2. blocks' \in Nat /\ blocks' * SectorsPerBlock(BlockSize) <= device
  <2>1. CASE BlockSize = 1024
    BY <1>1, <2>1, SMT DEF SectorsPerBlock
  <2>2. CASE BlockSize = 4096
    BY <1>1, <2>2, SMT DEF SectorsPerBlock
  <2>3. QED
    BY <2>1, <2>2 DEF BlockSize
<1>3. TypeOK'
  BY <1>1, <1>2 DEF FormatInv, TypeOK, StartExt4, Stage, Refusal
<1>4. stage' = "groups" => OnDisk'
  <2>1. stage' = "groups" => blocks' >= 64
    BY <1>1, <1>2, SMT
  <2>2. QED
    BY <1>1, <1>2, <2>1 DEF OnDisk
<1>5. QED
  BY <1>1, <1>3, <1>4 DEF FormatInv

\* Fewer blocks of a size need fewer sectors.
LEMMA FewerBlocksFit ==
  \A a, b, d \in Nat : \A m \in {2, 8} : a < b /\ b * m <= d => a * m <= d
<1>1. \A a, b, d \in Nat : a < b /\ b * 2 <= d => a * 2 <= d
  BY SMT
<1>2. \A a, b, d \in Nat : a < b /\ b * 8 <= d => a * 8 <= d
  BY SMT
<1>3. QED
  BY <1>1, <1>2

\* A trailing group is dropped: what is left are whole groups.
LEMMA DropGroupPreserves == FormatInv /\ DropGroup => FormatInv'
<1> SUFFICES ASSUME FormatInv, DropGroup PROVE FormatInv'
  OBVIOUS
<1> DEFINE n   == groupCount(blocks, BlockSize)
           fdb == firstDataBlock(BlockSize)
           bpg == blocksPerGroup(BlockSize)
           spb == SectorsPerBlock(BlockSize)
<1>1. /\ UNCHANGED <<device, stage, spc, fatSectors, iteration, enough, volume, found>>
      /\ BlockSize' = BlockSize /\ stage = "groups" /\ TypeOK /\ OnDisk /\ n > 1
      /\ blocks' = fdb + (n - 1) * bpg
  BY DEF DropGroup, FormatInv, TrailingTooSmall, BlockSize
<1>2. /\ n \in Nat /\ blocks - fdb > (n - 1) * bpg
  BY <1>1, GroupsAndDescriptors
<1>3. /\ blocks \in Nat /\ blocks * spb <= device /\ device \in Nat
  BY <1>1, DeviceSize DEF OnDisk
<1>4. BlockSize = 1024 \/ BlockSize = 4096
  BY DEF BlockSize
<1>5. fdb \in {0, 1} /\ bpg \in {8192, 32768} /\ spb \in {2, 8}
  BY <1>4, SMT DEF firstDataBlock, blocksPerGroup, SectorsPerBlock
<1> HIDE DEF n, fdb, bpg, spb
<1>6. blocks' \in Nat /\ blocks' >= 64 /\ blocks' < blocks
  <2>1. CASE bpg = 8192
    BY <1>1, <1>2, <1>3, <1>5, <2>1, SMT
  <2>2. CASE bpg = 32768
    BY <1>1, <1>2, <1>3, <1>5, <2>2, SMT
  <2>3. QED
    BY <1>5, <2>1, <2>2
<1>7. blocks' * spb <= device
  <2>1. blocks' \in Nat /\ blocks' < blocks /\ blocks \in Nat /\ device \in Nat
    BY <1>3, <1>6
  <2>2. \A m \in {2, 8} : blocks' < blocks /\ blocks * m <= device => blocks' * m <= device
    BY <2>1, FewerBlocksFit, Zenon
  <2>3. spb \in {2, 8}
    BY <1>5
  <2>4. blocks' < blocks /\ blocks * spb <= device => blocks' * spb <= device
    BY <2>2, <2>3, Zenon
  <2>5. QED
    BY <1>3, <2>1, <2>4, Zenon
<1>8. OnDisk' /\ TypeOK'
  BY <1>1, <1>6, <1>7 DEF OnDisk, TypeOK, spb
<1>9. QED
  BY <1>1, <1>8 DEF FormatInv

\* The ext4 volume is written, or there is no room for its first group.
LEMMA WriteExt4Preserves == FormatInv /\ WriteExt4 => FormatInv'
<1> SUFFICES ASSUME FormatInv, WriteExt4 PROVE FormatInv'
  OBVIOUS
<1> DEFINE left == blocks - firstDataBlock(BlockSize)
           need == prefix(blocks, BlockSize, 0) + 2
<1>1. /\ UNCHANGED <<device, spc, fatSectors, iteration, enough, blocks, found>>
      /\ BlockSize' = BlockSize /\ stage = "groups" /\ TypeOK /\ OnDisk
      /\ stage' \in {"noSpace", "written"}
      /\ stage' = "written" => ~(left < need) /\ volume' = Ext4Volume(blocks, BlockSize)
  BY DEF WriteExt4, FormatInv, BlockSize
<1>2. left \in Int /\ need \in Int
  <2>1. gdtBlocks(blocks, BlockSize) \in Nat
    BY <1>1, GroupsAndDescriptors
  <2>2. BlockSize \in {1024, 4096} /\ blocks \in Nat /\ blocks >= 1
    BY <1>1, SMT DEF BlockSize, OnDisk
  <2>3. tableBlocks(blocks, BlockSize) \in Nat
    BY <2>2, InodeTable
  <2>4. QED
    BY <2>1, <2>2, <2>3, SMT DEF prefix, firstDataBlock
<1>3. TypeOK'
  BY <1>1 DEF TypeOK, Stage, Refusal
<1>4. stage' = "written" => ChosenExt4'
  <2>1. SUFFICES ASSUME stage' = "written" PROVE ChosenExt4'
    OBVIOUS
  <2>2. left >= need
    <3>1. ~(left < need)
      BY <1>1, <2>1
    <3> HIDE DEF left, need
    <3>2. QED
      BY <1>2, <3>1, SMT
  <2>3. OnDisk' /\ ~TrailingTooSmall(blocks, BlockSize)'
    BY <1>1 DEF OnDisk, WriteExt4
  <2>4. QED
    BY <1>1, <2>1, <2>2, <2>3 DEF ChosenExt4
<1>5. QED
  BY <1>1, <1>3, <1>4 DEF FormatInv

\* The volume just written is mounted.
LEMMA MountPreserves == FormatInv /\ Mount => FormatInv'
<1> SUFFICES ASSUME FormatInv, Mount PROVE FormatInv'
  OBVIOUS
<1>1. /\ UNCHANGED <<device, spc, fatSectors, iteration, enough, blocks, volume>>
      /\ stage = "written" /\ TypeOK /\ (ChosenFat \/ ChosenExt4)
  BY DEF Mount, FormatInv
<1>2. IF volume.type = "fat32" THEN FatReadable(volume) ELSE Ext4Readable(volume)
  <2>1. CASE ChosenFat
    BY <1>1, <2>1, ChosenFatMounts, FatFoundIs
  <2>2. CASE ChosenExt4
    <3>1. volume.type = "ext4"
      BY <2>2 DEF ChosenExt4, Ext4Volume
    <3>2. QED
      BY <1>1, <2>2, <3>1, ChosenExt4Mounts
  <2>3. QED
    BY <1>1, <2>1, <2>2
<1>3. /\ stage' = "mounted"
      /\ found' = IF volume.type = "fat32" THEN FatFound(volume) ELSE Ext4Found(volume)
  BY <1>2 DEF Mount
<1>4. ChosenFat' \/ ChosenExt4'
  <2>1. partitionSectors' = partitionSectors /\ BlockSize' = BlockSize
    BY <1>1 DEF partitionSectors, BlockSize
  <2>2. ChosenFat => ChosenFat'
    BY <1>1, <2>1 DEF ChosenFat, Converged, NoneExact, Exact
  <2>3. ChosenExt4 => ChosenExt4'
    BY <1>1, <2>1 DEF ChosenExt4, OnDisk
  <2>4. QED
    BY <1>1, <2>2, <2>3
<1>5. TypeOK'
  BY <1>1, <1>3 DEF TypeOK, Stage
<1>6. found' = IF volume'.type = "fat32" THEN FatFound(volume') ELSE Ext4Found(volume')
  BY <1>1, <1>3
<1>7. QED
  BY <1>3, <1>4, <1>5, <1>6 DEF FormatInv, FatFound, Ext4Found

\* The shell goes on, or nothing happens.
LEMMA ReportPreserves == FormatInv /\ Report => FormatInv'
BY DEF FormatInv, Report, TypeOK, Stage

LEMMA StutterPreserves == FormatInv /\ UNCHANGED vars => FormatInv'
<1> SUFFICES ASSUME FormatInv, UNCHANGED vars PROVE FormatInv'
  OBVIOUS
<1>1. UNCHANGED <<device, stage, spc, fatSectors, iteration, enough, blocks, volume, found>>
  BY DEF vars
<1>2. partitionSectors' = partitionSectors /\ BlockSize' = BlockSize
  BY <1>1 DEF partitionSectors, BlockSize
<1>3. TypeOK' /\ \A s : NoneExact(s)' = NoneExact(s)
  BY <1>1, <1>2 DEF FormatInv, TypeOK, NoneExact, Exact
<1>4. (ChosenFat => ChosenFat') /\ (ChosenExt4 => ChosenExt4') /\ (OnDisk => OnDisk')
  BY <1>1, <1>2, <1>3 DEF ChosenFat, ChosenExt4, OnDisk, Converged
<1>5. QED
  BY <1>1, <1>2, <1>3, <1>4 DEF FormatInv, FatFound, Ext4Found

------------------------------------------------------------------------------
(* The theorems *)

\* The inductive invariant of the formatters, for disks of any size.
THEOREM FormatInvariant == Spec => []FormatInv
<1>1. Init => FormatInv
  BY InitFormatInv
<1>2. FormatInv /\ [Next]_vars => FormatInv'
  BY StartFat32Preserves, IteratePreserves, NextClusterSizePreserves, WriteFat32Preserves,
     StartExt4Preserves, DropGroupPreserves, WriteExt4Preserves, MountPreserves,
     ReportPreserves, StutterPreserves DEF Next
<1>3. QED
  BY <1>1, <1>2, PTL DEF Spec

\* The variables of the formatters keep their types.
THEOREM FormatTypes == Spec => []TypeOK
<1>1. FormatInv => TypeOK
  BY DEF FormatInv
<1>2. QED
  BY <1>1, FormatInvariant, PTL

\* What dformat writes fits the disk, whatever the size (chooseGeometry, format).
THEOREM LayoutFitsAlways == Spec => []LayoutFits
<1>1. FormatInv => LayoutFits
  <2>1. SUFFICES ASSUME FormatInv, stage = "written"
                 PROVE  IF volume.type = "fat32" THEN FatFits(volume)
                        ELSE /\ volume.blocks * SectorsPerBlock(volume.blockSize) <= device
                             /\ \A g \in DOMAIN volume.groups : GroupFits(volume, g)
    BY DEF LayoutFits
  <2>2. TypeOK /\ (ChosenFat \/ ChosenExt4)
    BY <2>1 DEF FormatInv
  <2>3. CASE ChosenFat
    BY <2>2, <2>3, ChosenFatFits, FatFoundIs
  <2>4. CASE ChosenExt4
    <3>1. /\ volume.type = "ext4"
          /\ volume.blocks * SectorsPerBlock(volume.blockSize) <= device
      BY <2>4 DEF ChosenExt4, Ext4Volume, OnDisk
    <3>2. QED
      BY <2>2, <2>4, <3>1, ChosenExt4Fits
  <2>5. QED
    BY <2>2, <2>3, <2>4
<1>2. QED
  BY <1>1, FormatInvariant, PTL

\* The search passes over no cluster size that has an exact table, whatever the size of
\* the disk: its 32 iterations are enough (chooseGeometry).
THEOREM NoGeometryIsMissedAlways == Spec => []NoGeometryIsMissed
<1>1. FormatInv => NoGeometryIsMissed
  <2>1. SUFFICES ASSUME FormatInv, NEW s \in PassedOver,
                        NEW f \in 1 .. requiredFatSectors(partitionSectors \div s)
                 PROVE  ~Exact(s, f)
    BY DEF NoGeometryIsMissed
  <2>2. f \in Nat
    BY SMT
  <2>3. CASE stage \in {"diskTooSmall", "unsupportedCapacity"}
    BY <2>1, <2>2, <2>3 DEF FormatInv, NoneExact, PassedOver
  <2>4. CASE stage = "written"
    <3>1. s \in Spc /\ volume.type = "fat32" /\ s < volume.spc
      BY <2>4 DEF PassedOver
    <3>2. TypeOK /\ ChosenFat
      BY <2>1, <2>4, <3>1 DEF FormatInv, ChosenExt4, Ext4Volume
    <3>3. s < spc
      BY <3>1, <3>2, FatFoundIs
    <3>4. QED
      BY <2>2, <3>1, <3>2, <3>3 DEF ChosenFat, NoneExact
  <2>5. QED
    BY <2>3, <2>4 DEF PassedOver
<1>2. QED
  BY <1>1, FormatInvariant, PTL

\* mnt accepts every volume dformat wrote, and computes the geometry it was written
\* with (readVolumeGeometry, mountAt, descriptorOffset).
THEOREM MountAgreesAlways == Spec => []MountAgrees
<1>1. FormatInv => MountAgrees
  <2>1. SUFFICES ASSUME FormatInv PROVE MountAgrees
    OBVIOUS
  <2>2. TypeOK /\ stage # "notMounted" /\ (stage = "mounted" => ChosenFat \/ ChosenExt4)
    BY <2>1 DEF FormatInv
  <2>3. ASSUME stage = "mounted", volume.type = "fat32"
        PROVE  /\ found.clusters = clusterCount(partitionSectors, volume.spc, volume.fatSectors)
               /\ found.firstData = partitionStart + metadataSectors(volume.fatSectors)
               /\ found.firstData + found.clusters * found.spc <= device
    <3>1. ChosenFat /\ found = FatFound(volume)
      BY <2>1, <2>3 DEF FormatInv, ChosenExt4, Ext4Volume
    <3>2. /\ found.clusters = clusterCount(partitionSectors, spc, fatSectors)
          /\ found.firstData = 2048 + 32 + 2 * fatSectors /\ found.spc = spc
          /\ volume.spc = spc /\ volume.fatSectors = fatSectors
      BY <2>2, <3>1, FatFoundIs
    <3>3. FatFits(volume)
      BY <2>2, <3>1, ChosenFatFits
    <3>4. found.firstData + found.clusters * found.spc <= device
      BY <3>1, <3>2, <3>3 DEF FatFits, FatClusters
    <3>5. 2048 + 32 + 2 * fatSectors = 2048 + (32 + 2 * fatSectors)
      BY <2>2, SMT DEF TypeOK
    <3>6. QED
      BY <3>2, <3>4, <3>5 DEF partitionStart, metadataSectors, reservedSectors, fatCount
  <2>4. ASSUME stage = "mounted", volume.type = "ext4"
        PROVE  /\ DOMAIN found.groups = DOMAIN volume.groups
               /\ \A g \in DOMAIN found.groups :
                    /\ found.groups[g].block = volume.groups[g].block
                    /\ found.groups[g].offset = volume.groups[g].offset
    <3>1. ChosenExt4 /\ found = Ext4Found(volume)
      BY <2>1, <2>4 DEF FormatInv, ChosenFat, FatVolume
    <3>2. QED
      BY <2>2, <3>1, ChosenExt4Found
  <2>5. QED
    BY <2>2, <2>3, <2>4 DEF MountAgrees
<1>2. QED
  BY <1>1, FormatInvariant, PTL

==============================================================================
