------------------------- MODULE MCDiskFormat -------------------------
(* Sizes of disks around every boundary of the two layouts. *)
EXTENDS DiskFormat

\* Both sides of the smallest FAT32 partition, of a table that grows by a sector,
\* and of the sizes between which the search alternates; where clusters of two
\* sectors begin to do; and where clusters of one are too many.
FatSizes ==
  (2040 .. 2060) \cup (68600 .. 68660) \cup (68760 .. 68780)
    \cup (133980 .. 134240) \cup {270000000, 300000000}

\* Both sides of the smallest ext4 volume, the RAM disk, a second group that is
\* dropped or kept, the change of block size, a second group of large blocks, and
\* the descriptors' second block.
Ext4Sizes ==
  (120 .. 150) \cup {4096} \cup (16380 .. 16390) \cup (16660 .. 16690)
    \cup (131064 .. 131080) \cup {262144 + k : k \in 4224 .. 4256}
    \cup {129 * 262144 + 8 * k : k \in 525 .. 535}

AllSizes == FatSizes \cup Ext4Sizes
======================================================================
