--------------------------- MODULE Ext4BlockProofs ---------------------------
(***************************************************************************)
(* For every geometry: what the ext4 driver's allocation, its extent       *)
(* trees, its reading and writing of a file's blocks and of a directory's  *)
(* records do to a volume, as long as every write gets through.  No block  *)
(* gets a second owner or none, what a file is given is what was written,  *)
(* and a directory changes by one name.  Ext4Proofs builds on this.        *)
(***************************************************************************)
EXTENDS Ext4, FunctionTheorems, FiniteSetTheorems, SequenceTheorems, TLAPS

\* What a volume holds.
NodeType == [kind: {"none", "file", "dir"}, links: Nat, size: Nat, nblk: Nat, depth: {0, 1},
             root: Seq(Block)]
RecType  == [ino: {none} \cup Inode, name: Names \cup {".", ".."}, len: Nat]
LeafText == {s \in Seq(Block) : Fits(s, LeafEntries)}
Content  == [kind: {"junk"}] \cup [kind: {"text"}, units: Nat]
              \cup [kind: {"leaf"}, blocks: LeafText] \cup [kind: {"dir"}, recs: Seq(RecType)]
Counts   == [blocks: Nat, inodes: Nat]
Volume   == [blocks: SUBSET Block, inodes: SUBSET Inode,
             groups: [Group -> [blocks: Nat, inodes: Nat, dirs: Nat]], free: Counts, clean: BOOLEAN,
             table: [Inode -> NodeType], data: [Block -> Content]]

--------------------------------------------------------------------------------
(* Induction *)

\* A set of numbers that is not empty has a least one.
LEMMA LeastOf ==
  ASSUME NEW T \in SUBSET Nat, T # {}
  PROVE  \E x \in T : \A y \in T : x <= y
<1> DEFINE Below == {0 .. n : n \in T}
<1>1. IsWellFoundedOn(StrictSubsetOrdering(Nat), FiniteSubsetsOf(Nat))
  BY FS_StrictSubsetOrderingWellFounded
<1>2. Below \subseteq FiniteSubsetsOf(Nat)
  <2>1. \A n \in T : IsFiniteSet(0 .. n)
    BY FS_Interval
  <2> QED BY <2>1, SMT DEF FiniteSubsetsOf
<1>3. Below # {}
  OBVIOUS
<1>4. PICK s \in Below : \A t \in Below : <<t, s>> \notin StrictSubsetOrdering(Nat)
  <2> HIDE DEF Below
  <2> QED BY <1>1, <1>2, <1>3, WFMin
<1>5. PICK x \in T : s = 0 .. x
  OBVIOUS
<1>6. \A y \in T : x <= y
  <2> SUFFICES ASSUME NEW y \in T, y < x PROVE FALSE
    BY SMT
  <2>1. 0 .. y \in Below
    OBVIOUS
  <2>2. 0 .. y \subseteq s /\ 0 .. y # s
    <3>1. x \in s /\ x \notin 0 .. y
      BY <1>5, SMT
    <3>2. 0 .. y \subseteq s
      BY <1>5, SMT
    <3> QED BY <3>1, <3>2
  <2>3. s \subseteq Nat /\ 0 .. y \subseteq Nat
    BY <1>5, SMT
  <2> QED BY <2>1, <2>2, <2>3, <1>4, Zenon DEF StrictSubsetOrdering
<1> QED BY <1>6

\* What holds at 0 and is handed on holds everywhere.
LEMMA HandedOn ==
  ASSUME NEW T \in SUBSET Nat, 0 \in T, \A n \in T : n + 1 \in T
  PROVE  T = Nat
<1> SUFFICES ASSUME Nat \ T # {} PROVE FALSE
  OBVIOUS
<1>1. PICK x \in Nat \ T : \A y \in Nat \ T : x <= y
  BY LeastOf, Zenon
<1>2. x # 0 /\ x - 1 \in Nat
  BY <1>1, SMT
<1>3. x - 1 \in T
  BY <1>1, <1>2, SMT
<1>4. x - 1 + 1 = x
  BY <1>1, SMT
<1> QED BY <1>1, <1>2, <1>3, <1>4, Zenon

IsRun(g, a, n, F) == g = [k \in 0 .. n |-> IF k = 0 THEN a ELSE F[<<g[k - 1], k>>]]

\* A recursive function over 0 .. n whose step stays in a set exists.
LEMMA Iterated ==
  ASSUME NEW S, NEW a \in S, NEW n \in Nat, NEW F \in [S \X Nat -> S]
  PROVE  \E g \in [0 .. n -> S] : IsRun(g, a, n, F)
<1> DEFINE Run(g, m) == /\ g \in [0 .. m -> S]
                        /\ g[0] = a
                        /\ \A k \in 1 .. m : g[k] = F[<<g[k - 1], k>>]
           T == {m \in Nat : \E g : Run(g, m)}
<1>1. 0 \in T
  <2>1. Run([k \in 0 .. 0 |-> a], 0)
    BY SMT
  <2> QED BY <2>1
<1>2. ASSUME NEW m \in T PROVE m + 1 \in T
  <2>1. PICK g : Run(g, m)
    OBVIOUS
  <2> DEFINE h == [k \in 0 .. m + 1 |-> IF k = m + 1 THEN F[<<g[m], m + 1>>] ELSE g[k]]
  <2>2. m \in Nat
    OBVIOUS
  <2>3. g[m] \in S
    BY <2>1, <2>2, SMT
  <2>4. F[<<g[m], m + 1>>] \in S
    BY <2>3, <2>2, SMT
  <2>5. h \in [0 .. m + 1 -> S] /\ h[0] = a
    BY <2>1, <2>4, <2>2, SMT
  <2>6. ASSUME NEW k \in 1 .. m + 1 PROVE h[k] = F[<<h[k - 1], k>>]
    <3>1. CASE k = m + 1
      <4>1. h[m + 1] = F[<<g[m], m + 1>>]
        BY <2>2, SMT
      <4>2. h[m] = g[m]
        BY <2>2, SMT
      <4>3. k - 1 = m
        BY <3>1, <2>2, SMT
      <4> HIDE DEF h
      <4> QED BY <3>1, <4>1, <4>2, <4>3, Zenon
    <3>2. CASE k # m + 1
      <4>1. k \in 1 .. m /\ k - 1 \in 0 .. m
        BY <3>2, <2>2, SMT
      <4>2. h[k] = g[k] /\ h[k - 1] = g[k - 1]
        BY <4>1, <2>2, SMT
      <4> QED BY <4>1, <4>2, <2>1
    <3> QED BY <3>1, <3>2
  <2>7. Run(h, m + 1)
    <3> HIDE DEF h
    <3> QED BY <2>5, <2>6
  <2> HIDE DEF h, Run
  <2> QED BY <2>7, <2>2, SMT
<1>3. T = Nat
  <2> HIDE DEF T
  <2>1. T \in SUBSET Nat
    BY DEF T
  <2> QED BY <1>1, <1>2, <2>1, HandedOn
<1>4. PICK g : Run(g, n)
  <2> HIDE DEF Run
  <2> QED BY <1>3
<1>5. IsRun(g, a, n, F)
  <2>1. \A k \in 0 .. n : g[k] = IF k = 0 THEN a ELSE F[<<g[k - 1], k>>]
    BY <1>4, SMT
  <2> QED BY <2>1, <1>4, Zenon DEF IsRun
<1> QED BY <1>4, <1>5

--------------------------------------------------------------------------------
(* Groups, blocks and inodes *)

LEMMA Sizes ==
  /\ Groups \in Nat /\ Groups >= 1 /\ BlocksPerGroup \in Nat /\ BlocksPerGroup >= 1
  /\ InodesPerGroup \in Nat /\ InodesPerGroup >= 1 /\ Units \in Nat /\ Units >= 1
  /\ RootEntries \in Nat /\ RootEntries >= 1 /\ LeafEntries \in Nat /\ LeafEntries > RootEntries
  /\ Slots \in Nat /\ Slots >= 2
  /\ Span \in Nat /\ Span >= 2 /\ BlocksPerGroup = Span - 1
<1> DEFINE S == {Groups, BlocksPerGroup, InodesPerGroup, Units, RootEntries, LeafEntries}
<1>1. S \subseteq Nat \ {0} /\ LeafEntries > RootEntries /\ Slots \in Nat \ {0, 1}
  BY Ext4Assumption DEF Ext4Assumption
<1>2. /\ Groups \in S /\ BlocksPerGroup \in S /\ InodesPerGroup \in S
      /\ Units \in S /\ RootEntries \in S /\ LeafEntries \in S
  OBVIOUS
<1> HIDE DEF S
<1>3. \A x \in S : x \in Nat /\ x >= 1
  BY <1>1
<1> QED BY <1>1, <1>2, <1>3 DEF Span

LEMMA Times ==
  ASSUME NEW a \in Nat, NEW b \in Nat, NEW s \in Nat, s >= 1
  PROVE  /\ a * s < b * s => a < b
         /\ (a + 1) * s = a * s + s
         /\ a <= b => a * s <= b * s
         /\ a * s = s * a
         /\ a * s \in Nat
  BY SMT

\* A number and its place in a group of s.
LEMMA Divided ==
  ASSUME NEW q \in Nat, NEW s \in Nat, s >= 1, NEW r \in 0 .. s - 1
  PROVE  (q * s + r) \div s = q /\ (q * s + r) % s = r
<1> DEFINE x == q * s + r
           y == x \div s
           z == x % s
<1>1. x \in Nat /\ q * s \in Nat
  BY Times
<1>2. y \in Nat /\ z \in 0 .. s - 1 /\ x = s * y + z
  <2> HIDE DEF x
  <2> QED BY <1>1, SMT
<1> HIDE DEF y, z
<1>3. y = q
  <2>1. s * y = y * s /\ y * s \in Nat /\ x = q * s + r
    BY <1>2, Times
  <2>2. ~ (y + 1 <= q)
    <3> SUFFICES ASSUME y + 1 <= q PROVE FALSE
      OBVIOUS
    <3>1. (y + 1) * s = y * s + s /\ (y + 1) * s <= q * s
      BY <1>2, Times
    <3> HIDE DEF x
    <3> QED BY <1>1, <1>2, <2>1, <3>1
  <2>3. ~ (q + 1 <= y)
    <3> SUFFICES ASSUME q + 1 <= y PROVE FALSE
      OBVIOUS
    <3>1. (q + 1) * s = q * s + s /\ (q + 1) * s <= y * s
      BY <1>2, Times
    <3> HIDE DEF x
    <3> QED BY <1>1, <1>2, <2>1, <3>1
  <2> QED BY <1>2, <2>2, <2>3
<1>4. z = r
  <2>1. s * y = q * s /\ x = q * s + r
    BY <1>2, <1>3, Times
  <2> HIDE DEF x
  <2> QED BY <1>1, <1>2, <2>1
<1> QED BY <1>3, <1>4 DEF y, z

LEMMA BlockPlace ==
  ASSUME NEW g \in Group, NEW b \in BlocksOf(g)
  PROVE  b \in Block /\ b \in Nat /\ b # none /\ GroupOfBlock(b) = g
<1>1. PICK i \in 1 .. BlocksPerGroup : b = g * Span + i
  BY DEF BlocksOf
<1>2. g \in Nat /\ i \in 0 .. Span - 1 /\ i >= 1
  BY <1>1, Sizes DEF Group
<1>3. b \div Span = g
  BY <1>1, <1>2, Sizes, Divided
<1>4. g * Span \in Nat
  BY <1>2, Sizes, Times
<1>5. b \in Nat /\ b # 0
  <2> HIDE DEF BlocksOf
  <2> QED BY <1>1, <1>2, <1>4
<1> QED BY <1>3, <1>5 DEF Block, GroupOfBlock, none

LEMMA BlockGroup ==
  ASSUME NEW b \in Block
  PROVE  b \in Nat /\ b # none /\ GroupOfBlock(b) \in Group /\ b \in BlocksOf(GroupOfBlock(b))
<1>1. PICK g \in Group : b \in BlocksOf(g)
  BY DEF Block
<1> QED BY <1>1, BlockPlace

\* The block after the last one of a group is not a data block.
LEMMA Neighbours ==
  ASSUME NEW b \in Block, NEW c \in Block, c = b + 1
  PROVE  GroupOfBlock(c) = GroupOfBlock(b)
<1>1. PICK g \in Group, i \in 1 .. BlocksPerGroup : b = g * Span + i
  BY DEF Block, BlocksOf
<1>2. g \in Nat /\ g * Span \in Nat /\ i \in Nat
  BY Sizes, Times DEF Group
<1>3. b \in BlocksOf(g)
  BY <1>1 DEF BlocksOf
<1>4. CASE i < BlocksPerGroup
  <2>1. i + 1 \in 1 .. BlocksPerGroup /\ c = g * Span + (i + 1)
    BY <1>1, <1>2, <1>4, Sizes
  <2>2. c \in BlocksOf(g)
    BY <2>1 DEF BlocksOf
  <2> QED BY <1>3, <2>2, BlockPlace
<1>5. CASE i = BlocksPerGroup
  <2>1. c = (g + 1) * Span + 0
    <3>1. (g + 1) * Span = g * Span + Span /\ g * Span + Span \in Nat
      BY <1>2, Sizes, Times
    <3>2. c = g * Span + Span
      BY <1>1, <1>2, <1>5, Sizes
    <3> QED BY <3>1, <3>2
  <2>2. c % Span = 0
    <3>1. g + 1 \in Nat /\ 0 \in 0 .. Span - 1 /\ Span \in Nat /\ Span >= 1
      BY <1>2, Sizes
    <3> HIDE DEF Span
    <3>2. ((g + 1) * Span + 0) % Span = 0
      BY <3>1, Divided, Zenon
    <3> QED BY <2>1, <3>2, Zenon
  <2>3. PICK h \in Group, j \in 1 .. BlocksPerGroup : c = h * Span + j
    BY DEF Block, BlocksOf
  <2>4. h \in Nat /\ j \in 0 .. Span - 1 /\ j >= 1
    BY <2>3, Sizes DEF Group
  <2>5. c % Span = j
    <3>1. Span \in Nat /\ Span >= 1
      BY Sizes
    <3> QED BY <2>3, <2>4, <3>1, Divided, Zenon
  <2> QED BY <2>2, <2>4, <2>5
<1> QED BY <1>1, <1>4, <1>5, Sizes

LEMMA InodePlace ==
  ASSUME NEW g \in Group, NEW n \in InodesOf(g)
  PROVE  n \in Inode /\ GroupOfInode(n) = g
<1>1. PICK i \in 1 .. InodesPerGroup : n = g * InodesPerGroup + i
  BY DEF InodesOf
<1>2. g \in Nat /\ g + 1 <= Groups /\ i - 1 \in 0 .. InodesPerGroup - 1 /\ i \in Nat /\ i >= 1
      /\ i <= InodesPerGroup
  BY <1>1, Sizes DEF Group
<1>3. InodesPerGroup \in Nat /\ InodesPerGroup >= 1 /\ g * InodesPerGroup \in Nat
  BY <1>2, Sizes, Times
<1>4. (g * InodesPerGroup + (i - 1)) \div InodesPerGroup = g
  BY <1>2, <1>3, Divided, Zenon
<1>5. n - 1 = g * InodesPerGroup + (i - 1) /\ n \in Nat /\ n >= 1
  BY <1>1, <1>2, <1>3
<1>6. n <= Groups * InodesPerGroup
  <2>1. (g + 1) * InodesPerGroup = g * InodesPerGroup + InodesPerGroup
        /\ (g + 1) * InodesPerGroup <= Groups * InodesPerGroup
        /\ Groups * InodesPerGroup \in Nat
    BY <1>2, Sizes, Times
  <2> QED BY <1>1, <1>2, <1>3, <2>1
<1>7. Groups * InodesPerGroup \in Nat
  BY Sizes, Times
<1> QED BY <1>4, <1>5, <1>6, <1>7 DEF Inode, GroupOfInode

LEMMA InodeGroup ==
  ASSUME NEW n \in Inode
  PROVE  n \in Nat /\ n # none /\ GroupOfInode(n) \in Group /\ n \in InodesOf(GroupOfInode(n))
<1> DEFINE I == InodesPerGroup
           g == (n - 1) \div I
           r == (n - 1) % I
<1>1. I \in Nat /\ I >= 1 /\ Groups \in Nat /\ Groups * I \in Nat
  BY Sizes, Times
<1>2. n \in Nat /\ n >= 1 /\ n <= Groups * I /\ n - 1 \in Nat
  BY <1>1 DEF Inode
<1> HIDE DEF I
<1>3. g \in Nat /\ r \in 0 .. I - 1 /\ n - 1 = I * g + r
  BY <1>1, <1>2, SMT
<1> HIDE DEF g, r
<1>4. I * g = g * I /\ g * I \in Nat
  BY <1>1, <1>3, Times
<1>5. r \in Nat /\ g * I < Groups * I
  BY <1>1, <1>2, <1>3, <1>4
<1>6. g < Groups
  BY <1>1, <1>3, <1>5, Times
<1>7. g \in Group
  BY <1>1, <1>3, <1>6 DEF Group
<1>8. r + 1 \in 1 .. I /\ n = g * I + (r + 1)
  BY <1>1, <1>2, <1>3, <1>4
<1>9. n \in {g * I + i : i \in 1 .. I}
  BY <1>8
<1> QED BY <1>2, <1>7, <1>9 DEF g, I, GroupOfInode, InodesOf, none

LEMMA Finite ==
  /\ IsFiniteSet(Block) /\ IsFiniteSet(Inode)
  /\ \A g \in Group : IsFiniteSet(BlocksOf(g)) /\ IsFiniteSet(InodesOf(g))
  /\ \A g \in Group : BlocksOf(g) \subseteq Block /\ InodesOf(g) \subseteq Inode
  /\ rootInode \in Inode
<1>1. Groups * Span \in Nat /\ Groups * InodesPerGroup \in Nat /\ Groups * InodesPerGroup >= 1
  <2>1. Groups \in Nat /\ Span \in Nat /\ InodesPerGroup \in Nat /\ Groups >= 1
        /\ InodesPerGroup >= 1 /\ Span >= 1
    BY Sizes
  <2>2. Groups * Span \in Nat
    BY <2>1, Times
  <2>3. 1 * InodesPerGroup <= Groups * InodesPerGroup /\ Groups * InodesPerGroup \in Nat
    BY <2>1, Times
  <2>4. 1 * InodesPerGroup = InodesPerGroup
    BY <2>1
  <2> QED BY <2>1, <2>2, <2>3, <2>4
<1>2. IsFiniteSet(Block)
  <2>1. Block \in SUBSET Nat
    BY BlockGroup
  <2>2. \A b \in Block : b <= Groups * Span
    <3> SUFFICES ASSUME NEW b \in Block PROVE b <= Groups * Span
      OBVIOUS
    <3>1. PICK g \in Group, i \in 1 .. BlocksPerGroup : b = g * Span + i
      BY DEF Block, BlocksOf
    <3>2. g \in Nat /\ g + 1 <= Groups /\ g + 1 \in Nat /\ i \in Nat /\ i <= Span
      BY <3>1, Sizes DEF Group
    <3>3. g * Span \in Nat /\ (g + 1) * Span = g * Span + Span
      BY <3>2, Sizes, Times
    <3>4. (g + 1) * Span <= Groups * Span
      BY <3>2, Sizes, Times
    <3> QED BY <3>1, <3>2, <3>3, <3>4, <1>1, Sizes
  <2> QED BY <1>1, <2>1, <2>2, FS_BoundedSetOfNaturals
<1>3. IsFiniteSet(Inode)
  BY <1>1, FS_Interval DEF Inode
<1>4. \A g \in Group : BlocksOf(g) \subseteq Block /\ InodesOf(g) \subseteq Inode
  BY BlockPlace, InodePlace
<1>5. \A g \in Group : IsFiniteSet(BlocksOf(g)) /\ IsFiniteSet(InodesOf(g))
  BY <1>2, <1>3, <1>4, FS_Subset
<1>6. rootInode \in Inode
  BY <1>1 DEF rootInode, Inode
<1> QED BY <1>2, <1>3, <1>4, <1>5, <1>6

--------------------------------------------------------------------------------
(* The writes of a command that nothing strikes *)

Statuses == {"ok", "noSpace", "ioError", "notFound", "notDirectory", "isDirectory", "alreadyExists",
             "directoryNotEmpty", "invalidName"}
Runs == [v: Volume, kind: {"none", "cut"}, left: Int, status: Statuses \cup {"cut"}, out: Nat,
         node: NodeType, set: BOOLEAN]

Live(d) == d \in Runs /\ d.kind = "none" /\ d.left = -1

\* e is d with another volume.
Does(d, e, w) ==
  /\ Live(e) /\ e.v = w /\ e.status = d.status /\ e.out = d.out /\ e.node = d.node /\ e.set = d.set

LEMMA PutDoes ==
  ASSUME NEW d, Live(d), Ok(d), NEW w \in Volume
  PROVE  Does(d, Put(d, w), w)
<1>1. d.left = -1 /\ d \in Runs /\ d.left # 0 /\ ~(d.left > 0)
  BY DEF Live, Runs
<1>2. Put(d, w) = [d EXCEPT !.v = w, !.left = IF @ > 0 THEN @ - 1 ELSE @]
  BY <1>1 DEF Put
<1> DEFINE e == [d EXCEPT !.v = w, !.left = IF @ > 0 THEN @ - 1 ELSE @]
<1>3. e \in Runs /\ e.kind = d.kind /\ e.left = d.left /\ e.v = w
      /\ e.status = d.status /\ e.out = d.out /\ e.node = d.node /\ e.set = d.set
  BY <1>1 DEF Runs
<1> HIDE DEF e
<1>4. Does(d, e, w)
  BY <1>1, <1>3 DEF Does, Live
<1> QED BY <1>2, <1>4 DEF e

LEMMA PutSkips ==
  ASSUME NEW d, NEW w, ~Ok(d)
  PROVE  Put(d, w) = d
  BY DEF Put

LEMMA AtLeastZero ==
  ASSUME NEW x \in Int
  PROVE  Max({0, x}) \in Nat /\ (x >= 0 => Max({0, x}) = x)
<1> DEFINE m == IF x >= 0 THEN x ELSE 0
<1>1. m \in {0, x} /\ (\A y \in {0, x} : m >= y) /\ m \in Nat /\ (x >= 0 => m = x)
  BY SMT
<1> HIDE DEF m
<1>2. \A n \in {0, x} : (\A y \in {0, x} : n >= y) => n = m
  BY <1>1, SMT
<1>3. Max({0, x}) = m
  BY <1>1, <1>2, Zenon DEF Max
<1> QED BY <1>1, <1>3

\* The counters of w are those of v, adjusted in one group.
Adjusts(v, w, g, blocks, inodes, dirs) ==
  /\ w.groups = [v.groups EXCEPT ![g] = Adjusted(v.groups[g], blocks, inodes, dirs)]
  /\ w.free = [blocks |-> Max({0, v.free.blocks + blocks}), inodes |-> Max({0, v.free.inodes + inodes})]

\* What allocation leaves alone.
Keeps(v, w) == w \in Volume /\ w.table = v.table /\ w.clean = v.clean

\* d is as before but for its volume.
Steps(d, e) == Live(e) /\ Ok(e) /\ e.out = d.out /\ e.node = d.node /\ e.set = d.set

LEMMA AdjustSpec ==
  ASSUME NEW d, Live(d), Ok(d), NEW g \in Group, NEW blocks \in Int, NEW inodes \in Int, NEW dirs \in Int,
         NEW e, e = adjustSuper(adjustGroup(d, g, blocks, inodes, dirs), blocks, inodes)
  PROVE  /\ Steps(d, e) /\ Keeps(d.v, e.v) /\ Adjusts(d.v, e.v, g, blocks, inodes, dirs)
         /\ e.v.blocks = d.v.blocks /\ e.v.inodes = d.v.inodes /\ e.v.data = d.v.data
<1> DEFINE desc == Adjusted(d.v.groups[g], blocks, inodes, dirs)
           v1 == [d.v EXCEPT !.groups[g] = desc]
           e1 == adjustGroup(d, g, blocks, inodes, dirs)
<1>1. d.v \in Volume /\ d.status = "ok"
  BY DEF Live, Runs, Ok
<1>2. d.v.groups[g] \in [blocks: Nat, inodes: Nat, dirs: Nat]
  BY <1>1 DEF Volume
<1>3. desc \in [blocks: Nat, inodes: Nat, dirs: Nat]
  <2>1. d.v.groups[g].blocks + blocks \in Int /\ d.v.groups[g].inodes + inodes \in Int
        /\ d.v.groups[g].dirs + dirs \in Int
    BY <1>2
  <2> QED BY <2>1, AtLeastZero DEF Adjusted
<1> HIDE DEF desc
<1>4. v1 \in Volume /\ v1.groups = [d.v.groups EXCEPT ![g] = desc] /\ v1.free = d.v.free
      /\ v1.blocks = d.v.blocks /\ v1.inodes = d.v.inodes /\ v1.data = d.v.data /\ v1.table = d.v.table
      /\ v1.clean = d.v.clean
  BY <1>1, <1>3 DEF Volume
<1>5. Does(d, e1, v1)
  <2> HIDE DEF v1
  <2>1. Does(d, Put(d, v1), v1)
    BY <1>4, PutDoes
  <2> QED BY <2>1 DEF e1, adjustGroup, writeGroupDesc, desc, v1
<1> HIDE DEF v1, e1
<1>6. Live(e1) /\ Ok(e1) /\ e1.v = v1
  BY <1>1, <1>5 DEF Does, Ok
<1> DEFINE free == [blocks |-> Max({0, v1.free.blocks + blocks}), inodes |-> Max({0, v1.free.inodes + inodes})]
           v2 == [v1 EXCEPT !.free = free]
<1>7. free \in Counts
  <2>1. v1.free \in Counts
    BY <1>4 DEF Volume
  <2>2. v1.free.blocks + blocks \in Int /\ v1.free.inodes + inodes \in Int
    BY <2>1 DEF Counts
  <2> QED BY <2>2, AtLeastZero DEF Counts
<1>8. e = Put(e1, v2)
  BY <1>6 DEF adjustSuper, e1
<1>9. v2 \in Volume /\ v2.free = free /\ v2.groups = v1.groups
      /\ v2.blocks = v1.blocks /\ v2.inodes = v1.inodes /\ v2.data = v1.data /\ v2.table = v1.table
      /\ v2.clean = v1.clean
  <2> HIDE DEF free
  <2> QED BY <1>4, <1>7 DEF Volume
<1> HIDE DEF v2
<1>10. Does(e1, e, v2)
  BY <1>6, <1>8, <1>9, PutDoes
<1>11. Steps(d, e)
  BY <1>5, <1>10, <1>1 DEF Does, Steps, Ok
<1>12. e.v = v2
  BY <1>10 DEF Does
<1>13. Keeps(d.v, e.v) /\ e.v.blocks = d.v.blocks /\ e.v.inodes = d.v.inodes /\ e.v.data = d.v.data
  BY <1>4, <1>9, <1>12 DEF Keeps
<1>14. Adjusts(d.v, e.v, g, blocks, inodes, dirs)
  <2>1. e.v.groups = [d.v.groups EXCEPT ![g] = desc]
    BY <1>4, <1>9, <1>12
  <2>2. e.v.free = free /\ v1.free = d.v.free
    BY <1>4, <1>9, <1>12
  <2> QED BY <2>1, <2>2 DEF Adjusts, desc
<1> QED BY <1>11, <1>13, <1>14

\* The counters are those of the bitmaps; K are the directories they count.
Counted(v, K) ==
  /\ \A g \in Group :
       /\ v.groups[g].blocks = Cardinality(BlocksOf(g) \ v.blocks)
       /\ v.groups[g].inodes = Cardinality(InodesOf(g) \ v.inodes)
       /\ v.groups[g].dirs   = Cardinality(InodesOf(g) \cap K)
  /\ v.free.blocks = Cardinality(Block \ v.blocks)
  /\ v.free.inodes = Cardinality(Inode \ v.inodes)

LEMMA Numbers ==
  ASSUME NEW v \in Volume, NEW K
  PROVE  /\ \A g \in Group : /\ Cardinality(BlocksOf(g) \ v.blocks) \in Nat
                             /\ Cardinality(InodesOf(g) \ v.inodes) \in Nat
                             /\ Cardinality(InodesOf(g) \cap K) \in Nat
         /\ Cardinality(Block \ v.blocks) \in Nat /\ Cardinality(Inode \ v.inodes) \in Nat
<1>1. \A S, T : IsFiniteSet(S) => Cardinality(S \ T) \in Nat /\ Cardinality(S \cap T) \in Nat
  <2> SUFFICES ASSUME NEW S, NEW T, IsFiniteSet(S)
               PROVE  Cardinality(S \ T) \in Nat /\ Cardinality(S \cap T) \in Nat
    OBVIOUS
  <2>1. S \ T \in SUBSET S /\ S \cap T \in SUBSET S
    OBVIOUS
  <2>2. IsFiniteSet(S \ T) /\ IsFiniteSet(S \cap T)
    BY <2>1, FS_Subset
  <2> QED BY <2>2, FS_CardinalityType
<1> QED BY <1>1, Finite

\* The bitmaps of w have other numbers of free blocks and inodes, and of
\* directories, in one group.
Shifts(v, w, K, K2, g, blocks, inodes, dirs) ==
  /\ \A h \in Group : h # g => /\ BlocksOf(h) \ w.blocks = BlocksOf(h) \ v.blocks
                              /\ InodesOf(h) \ w.inodes = InodesOf(h) \ v.inodes
                              /\ InodesOf(h) \cap K2 = InodesOf(h) \cap K
  /\ Cardinality(BlocksOf(g) \ w.blocks) = Cardinality(BlocksOf(g) \ v.blocks) + blocks
  /\ Cardinality(InodesOf(g) \ w.inodes) = Cardinality(InodesOf(g) \ v.inodes) + inodes
  /\ Cardinality(InodesOf(g) \cap K2) = Cardinality(InodesOf(g) \cap K) + dirs
  /\ Cardinality(Block \ w.blocks) = Cardinality(Block \ v.blocks) + blocks
  /\ Cardinality(Inode \ w.inodes) = Cardinality(Inode \ v.inodes) + inodes

LEMMA ExactSum ==
  ASSUME NEW m \in Nat, NEW x \in Nat, NEW k \in Int, x = m + k
  PROVE  Max({0, m + k}) = x
  BY AtLeastZero

LEMMA Recounted ==
  ASSUME NEW v \in Volume, NEW w \in Volume, NEW K, NEW K2, NEW g \in Group,
         NEW blocks \in Int, NEW inodes \in Int, NEW dirs \in Int,
         Counted(v, K), Adjusts(v, w, g, blocks, inodes, dirs),
         Shifts(v, w, K, K2, g, blocks, inodes, dirs)
  PROVE  Counted(w, K2)
<1>1. w.groups[g] = Adjusted(v.groups[g], blocks, inodes, dirs)
  BY DEF Adjusts, Volume
<1>2. \A h \in Group : h # g => w.groups[h] = v.groups[h]
  BY DEF Adjusts, Volume
<1>3. w.groups[g].blocks = Cardinality(BlocksOf(g) \ w.blocks)
  <2>1. w.groups[g].blocks = Max({0, v.groups[g].blocks + blocks})
    BY <1>1 DEF Adjusted
  <2>2. v.groups[g].blocks = Cardinality(BlocksOf(g) \ v.blocks)
    BY DEF Counted
  <2>3. Cardinality(BlocksOf(g) \ v.blocks) \in Nat /\ Cardinality(BlocksOf(g) \ w.blocks) \in Nat
    BY Numbers, Zenon
  <2>4. Cardinality(BlocksOf(g) \ w.blocks) = Cardinality(BlocksOf(g) \ v.blocks) + blocks
    BY DEF Shifts
  <2>5. Max({0, Cardinality(BlocksOf(g) \ v.blocks) + blocks}) = Cardinality(BlocksOf(g) \ w.blocks)
    BY <2>3, <2>4, ExactSum, Zenon
  <2> QED BY <2>1, <2>2, <2>5, Zenon
<1>4. w.groups[g].inodes = Cardinality(InodesOf(g) \ w.inodes)
  <2>1. w.groups[g].inodes = Max({0, v.groups[g].inodes + inodes})
    BY <1>1 DEF Adjusted
  <2>2. v.groups[g].inodes = Cardinality(InodesOf(g) \ v.inodes)
    BY DEF Counted
  <2>3. Cardinality(InodesOf(g) \ v.inodes) \in Nat /\ Cardinality(InodesOf(g) \ w.inodes) \in Nat
    BY Numbers, Zenon
  <2>4. Cardinality(InodesOf(g) \ w.inodes) = Cardinality(InodesOf(g) \ v.inodes) + inodes
    BY DEF Shifts
  <2>5. Max({0, Cardinality(InodesOf(g) \ v.inodes) + inodes}) = Cardinality(InodesOf(g) \ w.inodes)
    BY <2>3, <2>4, ExactSum, Zenon
  <2> QED BY <2>1, <2>2, <2>5, Zenon
<1>5. w.groups[g].dirs = Cardinality(InodesOf(g) \cap K2)
  <2>1. w.groups[g].dirs = Max({0, v.groups[g].dirs + dirs})
    BY <1>1 DEF Adjusted
  <2>2. v.groups[g].dirs = Cardinality(InodesOf(g) \cap K)
    BY DEF Counted
  <2>3. Cardinality(InodesOf(g) \cap K) \in Nat /\ Cardinality(InodesOf(g) \cap K2) \in Nat
    BY Numbers, Zenon
  <2>4. Cardinality(InodesOf(g) \cap K2) = Cardinality(InodesOf(g) \cap K) + dirs
    BY DEF Shifts
  <2>5. Max({0, Cardinality(InodesOf(g) \cap K) + dirs}) = Cardinality(InodesOf(g) \cap K2)
    BY <2>3, <2>4, ExactSum, Zenon
  <2> QED BY <2>1, <2>2, <2>5, Zenon
<1>6. w.free.blocks = Cardinality(Block \ w.blocks)
  <2>1. w.free.blocks = Max({0, v.free.blocks + blocks})
    BY DEF Adjusts
  <2>2. v.free.blocks = Cardinality(Block \ v.blocks)
    BY DEF Counted
  <2>3. Cardinality(Block \ v.blocks) \in Nat /\ Cardinality(Block \ w.blocks) \in Nat
    BY Numbers, Zenon
  <2>4. Cardinality(Block \ w.blocks) = Cardinality(Block \ v.blocks) + blocks
    BY DEF Shifts
  <2>5. Max({0, Cardinality(Block \ v.blocks) + blocks}) = Cardinality(Block \ w.blocks)
    BY <2>3, <2>4, ExactSum, Zenon
  <2> QED BY <2>1, <2>2, <2>5, Zenon
<1>7. w.free.inodes = Cardinality(Inode \ w.inodes)
  <2>1. w.free.inodes = Max({0, v.free.inodes + inodes})
    BY DEF Adjusts
  <2>2. v.free.inodes = Cardinality(Inode \ v.inodes)
    BY DEF Counted
  <2>3. Cardinality(Inode \ v.inodes) \in Nat /\ Cardinality(Inode \ w.inodes) \in Nat
    BY Numbers, Zenon
  <2>4. Cardinality(Inode \ w.inodes) = Cardinality(Inode \ v.inodes) + inodes
    BY DEF Shifts
  <2>5. Max({0, Cardinality(Inode \ v.inodes) + inodes}) = Cardinality(Inode \ w.inodes)
    BY <2>3, <2>4, ExactSum, Zenon
  <2> QED BY <2>1, <2>2, <2>5, Zenon
<1>8. ASSUME NEW h \in Group, h # g
      PROVE  /\ w.groups[h].blocks = Cardinality(BlocksOf(h) \ w.blocks)
             /\ w.groups[h].inodes = Cardinality(InodesOf(h) \ w.inodes)
             /\ w.groups[h].dirs = Cardinality(InodesOf(h) \cap K2)
  BY <1>2, <1>8 DEF Counted, Shifts
<1> QED BY <1>3, <1>4, <1>5, <1>6, <1>7, <1>8 DEF Counted

--------------------------------------------------------------------------------
(* Allocation *)

LEMMA MinOf ==
  ASSUME NEW T \in SUBSET Nat, T # {}
  PROVE  Min(T) \in T /\ \A y \in T : Min(T) <= y
<1>1. PICK x \in T : \A y \in T : x <= y
  BY LeastOf, Zenon
<1>2. \E x0 \in T : \A y \in T : x0 =< y
  BY <1>1
<1> QED BY <1>2, Zenon DEF Min

LEMMA FirstGroupIn ==
  ASSUME NEW from \in Group, NEW open \in SUBSET Group, open # {}
  PROVE  FirstGroup(from, open) \in open
<1> DEFINE T == {i \in 0 .. Groups - 1 : (from + i) % Groups \in open}
<1>1. Groups \in Nat /\ Groups >= 1 /\ from \in Nat /\ from < Groups
  BY Sizes DEF Group
<1>2. T # {}
  <2>1. PICK g \in open : TRUE
    OBVIOUS
  <2>2. g \in Nat /\ g < Groups
    BY <1>1 DEF Group
  <2>3. CASE g >= from
    <3>1. g - from \in 0 .. Groups - 1 /\ from + (g - from) = 0 * Groups + g /\ g \in 0 .. Groups - 1
      BY <1>1, <2>2, <2>3
    <3>2. (0 * Groups + g) % Groups = g
      BY <1>1, <3>1, Divided
    <3>3. g - from \in T
      BY <2>1, <3>1, <3>2
    <3> QED BY <3>3
  <2>4. CASE g < from
    <3>1. (g - from) + Groups \in 0 .. Groups - 1 /\ from + ((g - from) + Groups) = 1 * Groups + g
          /\ g \in 0 .. Groups - 1
      BY <1>1, <2>2, <2>4
    <3>2. (1 * Groups + g) % Groups = g
      BY <1>1, <3>1, Divided
    <3>3. (g - from) + Groups \in T
      BY <2>1, <3>1, <3>2
    <3> QED BY <3>3
  <2> QED BY <1>1, <2>2, <2>3, <2>4
<1>3. T \in SUBSET Nat
  OBVIOUS
<1>4. Min(T) \in T
  <2> HIDE DEF T
  <2> QED BY <1>2, <1>3, MinOf
<1>5. FirstGroup(from, open) = (from + Min(T)) % Groups
  BY DEF FirstGroup
<1> HIDE DEF FirstGroup
<1> QED BY <1>4, <1>5

LEMMA GoalGroup ==
  ASSUME NEW goal \in Nat
  PROVE  (IF OnDisk(goal) THEN GroupOfBlock(goal) ELSE 0) \in Group
<1>1. 0 \in Group
  BY Sizes DEF Group
<1>2. ASSUME goal < Groups * Span PROVE goal \div Span \in Group
  <2> DEFINE q == goal \div Span
             r == goal % Span
  <2>1. Span \in Nat /\ Span >= 1 /\ Groups \in Nat
    BY Sizes
  <2>2. q \in Nat /\ r \in 0 .. Span - 1 /\ goal = Span * q + r
    BY <2>1, SMT
  <2> HIDE DEF q, r
  <2>3. Span * q = q * Span /\ q * Span \in Nat /\ Groups * Span \in Nat
    BY <2>1, <2>2, Times
  <2>4. q * Span < Groups * Span
    BY <1>2, <2>1, <2>2, <2>3
  <2>5. q < Groups
    BY <2>1, <2>2, <2>4, Times
  <2> QED BY <2>1, <2>2, <2>5 DEF q, Group
<1> QED BY <1>1, <1>2 DEF OnDisk, GroupOfBlock

\* The counters are those of the bitmaps of w if they are those of v.
Recounts(v, w) == \A K : Counted(v, K) => Counted(w, K)

\* allocBlock: a free block of the disk, or no space and nothing done.
Grants(d, e) ==
  /\ Live(e) /\ e.node = d.node /\ e.set = d.set
  /\ \/ e.status = "noSpace" /\ e.v = d.v
     \/ /\ Ok(e) /\ e.out \in Block \ d.v.blocks /\ Keeps(d.v, e.v)
        /\ e.v.blocks = d.v.blocks \cup {e.out}
        /\ e.v.inodes = d.v.inodes /\ e.v.data = d.v.data /\ Recounts(d.v, e.v)

LEMMA FailDoes ==
  ASSUME NEW d, Live(d), Ok(d), NEW s \in Statuses
  PROVE  Live(Fail(d, s)) /\ Fail(d, s) = [d EXCEPT !.status = s]
         /\ Fail(d, s).status = s /\ Fail(d, s).v = d.v /\ Fail(d, s).node = d.node
         /\ Fail(d, s).set = d.set /\ Fail(d, s).out = d.out
<1>1. Fail(d, s) = [d EXCEPT !.status = s]
  BY DEF Fail
<1>2. d \in Runs /\ d.kind = "none" /\ d.left = -1
  BY DEF Live
<1> DEFINE e == [d EXCEPT !.status = s]
<1>3. e \in Runs /\ e.kind = d.kind /\ e.left = d.left /\ e.status = s /\ e.v = d.v /\ e.node = d.node
      /\ e.set = d.set /\ e.out = d.out
  BY <1>2 DEF Runs
<1> HIDE DEF e
<1>4. Live(e)
  BY <1>2, <1>3 DEF Live
<1> QED BY <1>1, <1>3, <1>4 DEF e

LEMMA TakesOne ==
  ASSUME NEW v \in Volume, NEW w \in Volume, NEW b \in Block \ v.blocks, w.blocks = v.blocks \cup {b},
         w.inodes = v.inodes, NEW K
  PROVE  Shifts(v, w, K, K, GroupOfBlock(b), -1, 0, 0)
<1> DEFINE g == GroupOfBlock(b)
<1>1. g \in Group /\ b \in BlocksOf(g) /\ \A h \in Group : h # g => b \notin BlocksOf(h)
  BY BlockGroup, BlockPlace
<1>2. \A h \in Group : h # g => BlocksOf(h) \ w.blocks = BlocksOf(h) \ v.blocks
  BY <1>1
<1>3. \A S : IsFiniteSet(S) /\ b \in S => Cardinality(S \ w.blocks) = Cardinality(S \ v.blocks) + (-1)
  <2> SUFFICES ASSUME NEW S, IsFiniteSet(S), b \in S
               PROVE  Cardinality(S \ w.blocks) = Cardinality(S \ v.blocks) + (-1)
    OBVIOUS
  <2>1. S \ w.blocks = (S \ v.blocks) \ {b} /\ S \ v.blocks \in SUBSET S /\ b \in S \ v.blocks
    OBVIOUS
  <2>2. IsFiniteSet(S \ v.blocks)
    BY <2>1, FS_Subset
  <2>3. Cardinality((S \ v.blocks) \ {b}) = Cardinality(S \ v.blocks) - 1 /\ Cardinality(S \ v.blocks) \in Nat
    BY <2>1, <2>2, FS_RemoveElement, FS_CardinalityType
  <2>4. Cardinality(S \ v.blocks) - 1 = Cardinality(S \ v.blocks) + (-1)
    BY <2>3
  <2> QED BY <2>1, <2>3, <2>4
<1>4. Cardinality(BlocksOf(g) \ w.blocks) = Cardinality(BlocksOf(g) \ v.blocks) + (-1)
  BY <1>1, <1>3, Finite
<1>5. Cardinality(Block \ w.blocks) = Cardinality(Block \ v.blocks) + (-1)
  BY <1>3, Finite
<1>6. \A x \in Nat : x = x + 0
  OBVIOUS
<1>7. /\ Cardinality(InodesOf(g) \ w.inodes) = Cardinality(InodesOf(g) \ v.inodes) + 0
      /\ Cardinality(InodesOf(g) \cap K) = Cardinality(InodesOf(g) \cap K) + 0
      /\ Cardinality(Inode \ w.inodes) = Cardinality(Inode \ v.inodes) + 0
  <2>1. /\ Cardinality(InodesOf(g) \ v.inodes) \in Nat /\ Cardinality(InodesOf(g) \cap K) \in Nat
        /\ Cardinality(Inode \ v.inodes) \in Nat
    BY <1>1, Numbers, Zenon
  <2> QED BY <1>6, <2>1
<1> QED BY <1>1, <1>2, <1>4, <1>5, <1>7 DEF Shifts

LEMMA TakeBlockSpec ==
  ASSUME NEW d, Live(d), Ok(d), NEW b \in Block \ d.v.blocks
  PROVE  Grants(d, TakeBlock(d, b))
<1> DEFINE v1 == [d.v EXCEPT !.blocks = @ \cup {b}]
           e1 == Put(d, v1)
           g == GroupOfBlock(b)
           e2 == adjustSuper(adjustGroup(e1, g, -1, 0, 0), -1, 0)
<1>1. d.v \in Volume
  BY DEF Live, Runs
<1>2. v1 \in Volume /\ v1.blocks = d.v.blocks \cup {b} /\ v1.inodes = d.v.inodes /\ v1.data = d.v.data
      /\ v1.table = d.v.table /\ v1.clean = d.v.clean /\ v1.groups = d.v.groups /\ v1.free = d.v.free
  BY <1>1 DEF Volume
<1> HIDE DEF v1
<1>3. Does(d, e1, v1)
  BY <1>2, PutDoes
<1> HIDE DEF e1
<1>4. Live(e1) /\ Ok(e1) /\ e1.v = v1 /\ e1.node = d.node /\ e1.set = d.set
  BY <1>3 DEF Does, Ok
<1>5. g \in Group /\ b \in Nat
  BY BlockGroup
<1>6. /\ Steps(e1, e2) /\ Keeps(e1.v, e2.v) /\ Adjusts(e1.v, e2.v, g, -1, 0, 0)
      /\ e2.v.blocks = e1.v.blocks /\ e2.v.inodes = e1.v.inodes /\ e2.v.data = e1.v.data
  <2>1. -1 \in Int /\ 0 \in Int
    OBVIOUS
  <2> HIDE DEF g
  <2> QED BY <1>4, <1>5, <2>1, AdjustSpec
<1> DEFINE e3 == [e2 EXCEPT !.out = b]
<1>7. TakeBlock(d, b) = e3
  BY DEF TakeBlock, e1, v1
<1> HIDE DEF e2
<1>8. e2 \in Runs /\ e2.kind = "none" /\ e2.left = -1 /\ e2.status = "ok" /\ e2.v \in Volume
      /\ e2.node = d.node /\ e2.set = d.set
  BY <1>4, <1>6 DEF Steps, Live, Ok, Keeps
<1>9. e3 \in Runs /\ e3.kind = "none" /\ e3.left = -1 /\ e3.status = "ok" /\ e3.v = e2.v /\ e3.out = b
      /\ e3.node = d.node /\ e3.set = d.set
  BY <1>5, <1>8 DEF Runs
<1>10. Adjusts(d.v, e2.v, g, -1, 0, 0)
  BY <1>2, <1>4, <1>6 DEF Adjusts
<1>11. e2.v.blocks = d.v.blocks \cup {b} /\ e2.v.inodes = d.v.inodes /\ e2.v.data = d.v.data
       /\ Keeps(d.v, e2.v)
  BY <1>2, <1>4, <1>6 DEF Keeps
<1>12. ASSUME NEW K, Counted(d.v, K) PROVE Counted(e2.v, K)
  <2>1. Shifts(d.v, e2.v, K, K, g, -1, 0, 0)
    BY <1>1, <1>8, <1>11, TakesOne
  <2>2. -1 \in Int /\ 0 \in Int
    OBVIOUS
  <2> HIDE DEF g
  <2> QED BY <1>1, <1>5, <1>8, <1>10, <1>12, <2>1, <2>2, Recounted
<1> HIDE DEF e3
<1>13. Recounts(d.v, e2.v)
  BY <1>12, Zenon DEF Recounts
<1> QED BY <1>7, <1>9, <1>11, <1>13 DEF Grants, Live, Ok

LEMMA AllocBlockSpec ==
  ASSUME NEW d, Live(d), Ok(d), NEW goal \in Nat
  PROVE  Grants(d, allocBlock(d, goal))
<1> DEFINE open == WithBlocks(d.v)
           from == IF OnDisk(goal) THEN GroupOfBlock(goal) ELSE 0
           g == FirstGroup(from, open)
           b == NearestBlock(d.v, goal, g)
<1>1. CASE open = {}
  <2>1. allocBlock(d, goal) = Fail(d, "noSpace")
    BY <1>1 DEF allocBlock
  <2>2. LET e == Fail(d, "noSpace")
        IN  Live(e) /\ e.status = "noSpace" /\ e.v = d.v /\ e.node = d.node /\ e.set = d.set
    <3>1. "noSpace" \in Statuses
      BY DEF Statuses
    <3> QED BY <3>1, FailDoes
  <2> QED BY <2>1, <2>2, Zenon DEF Grants
<1>2. CASE open # {}
  <2>1. from \in Group
    BY GoalGroup
  <2>2. open \in SUBSET Group
    BY DEF WithBlocks
  <2>3. g \in open
    <3> HIDE DEF open, from
    <3> QED BY <1>2, <2>1, <2>2, FirstGroupIn
  <2> HIDE DEF g
  <2>4. g \in Group /\ FreeBlocks(d.v, g) # {}
    BY <2>3 DEF WithBlocks
  <2>5. FreeBlocks(d.v, g) \subseteq Block \ d.v.blocks /\ FreeBlocks(d.v, g) \in SUBSET Nat
    BY <2>4, BlockPlace DEF FreeBlocks
  <2>6. b \in FreeBlocks(d.v, g)
    <3> DEFINE above == {x \in FreeBlocks(d.v, g) : OnDisk(goal) /\ GroupOfBlock(goal) = g => x >= goal}
               T == IF above # {} THEN above ELSE FreeBlocks(d.v, g)
    <3>1. b = Min(T)
      BY DEF NearestBlock
    <3>2. T \subseteq FreeBlocks(d.v, g) /\ T # {}
      BY <2>4
    <3> HIDE DEF T
    <3>3. T \in SUBSET Nat
      BY <2>5, <3>2
    <3> QED BY <3>1, <3>2, <3>3, MinOf
  <2>7. allocBlock(d, goal) = TakeBlock(d, b)
    BY <1>2 DEF allocBlock, g
  <2> HIDE DEF b
  <2> QED BY <2>5, <2>6, <2>7, TakeBlockSpec
<1> QED BY <1>1, <1>2

\* freeRun: the run is free again, and its content lost.
Frees(d, e, run) ==
  /\ Steps(d, e) /\ Keeps(d.v, e.v)
  /\ e.v.blocks = d.v.blocks \ run /\ e.v.inodes = d.v.inodes
  /\ e.v.data = [b \in Block |-> IF b \in run THEN Junk ELSE d.v.data[b]]
  /\ Recounts(d.v, e.v)

\* A run of used blocks of one group.
IsRunOf(v, run) == run # {} /\ run \subseteq v.blocks /\ \E g \in Group : run \subseteq BlocksOf(g)

LEMMA GivesRun ==
  ASSUME NEW v \in Volume, NEW w \in Volume, NEW run, NEW g \in Group, run \subseteq v.blocks,
         run \subseteq BlocksOf(g), w.blocks = v.blocks \ run, w.inodes = v.inodes, NEW K
  PROVE  Shifts(v, w, K, K, g, Cardinality(run), 0, 0) /\ Cardinality(run) \in Nat
<1>1. IsFiniteSet(run) /\ Cardinality(run) \in Nat /\ run \subseteq Block
  BY Finite, FS_Subset, FS_CardinalityType
<1>2. \A h \in Group : h # g => BlocksOf(h) \ w.blocks = BlocksOf(h) \ v.blocks
  <2>1. \A h \in Group : h # g => \A b \in run : b \notin BlocksOf(h)
    BY BlockPlace
  <2> QED BY <2>1
<1>3. \A S : IsFiniteSet(S) /\ run \subseteq S => Cardinality(S \ w.blocks) = Cardinality(S \ v.blocks) + Cardinality(run)
  <2> SUFFICES ASSUME NEW S, IsFiniteSet(S), run \subseteq S
               PROVE  Cardinality(S \ w.blocks) = Cardinality(S \ v.blocks) + Cardinality(run)
    OBVIOUS
  <2> DEFINE P == S \ v.blocks
  <2>1. S \ w.blocks = P \cup run /\ P \in SUBSET S /\ P \cap run = {}
    OBVIOUS
  <2>2. IsFiniteSet(P)
    BY <2>1, FS_Subset
  <2> HIDE DEF P
  <2>3. Cardinality(P \cup run) = Cardinality(P) + Cardinality(run) - Cardinality(P \cap run)
    BY <1>1, <2>2, FS_Union
  <2>4. Cardinality(P \cap run) = 0 /\ Cardinality(P) \in Nat
    BY <2>1, <2>2, FS_EmptySet, FS_CardinalityType
  <2>5. Cardinality(P) + Cardinality(run) - Cardinality(P \cap run) = Cardinality(P) + Cardinality(run)
    BY <1>1, <2>4
  <2> QED BY <2>1, <2>3, <2>5 DEF P
<1>4. Cardinality(BlocksOf(g) \ w.blocks) = Cardinality(BlocksOf(g) \ v.blocks) + Cardinality(run)
  BY <1>3, Finite
<1>5. Cardinality(Block \ w.blocks) = Cardinality(Block \ v.blocks) + Cardinality(run)
  BY <1>1, <1>3, Finite
<1>6. \A x \in Nat : x = x + 0
  OBVIOUS
<1>7. /\ Cardinality(InodesOf(g) \ w.inodes) = Cardinality(InodesOf(g) \ v.inodes) + 0
      /\ Cardinality(InodesOf(g) \cap K) = Cardinality(InodesOf(g) \cap K) + 0
      /\ Cardinality(Inode \ w.inodes) = Cardinality(Inode \ v.inodes) + 0
  <2>1. /\ Cardinality(InodesOf(g) \ v.inodes) \in Nat /\ Cardinality(InodesOf(g) \cap K) \in Nat
        /\ Cardinality(Inode \ v.inodes) \in Nat
    BY Numbers, Zenon
  <2> QED BY <1>6, <2>1
<1> QED BY <1>1, <1>2, <1>4, <1>5, <1>7 DEF Shifts

LEMMA FreeRunSpec ==
  ASSUME NEW d, Live(d), Ok(d), NEW run, IsRunOf(d.v, run)
  PROVE  Frees(d, freeRun(d, run), run)
<1> DEFINE v1 == [d.v EXCEPT !.blocks = @ \ run, !.data = [b \in Block |-> IF b \in run THEN Junk ELSE @[b]]]
           e1 == ClearRun(d, run)
<1>1. d.v \in Volume
  BY DEF Live, Runs
<1>2. PICK g \in Group : run \subseteq BlocksOf(g)
  BY DEF IsRunOf
<1>3. GroupOfBlock(Min(run)) = g
  <2>1. run \in SUBSET Nat /\ run # {}
    BY <1>2, BlockPlace DEF IsRunOf
  <2>2. Min(run) \in run
    BY <2>1, MinOf
  <2> QED BY <1>2, <2>2, BlockPlace
<1> DEFINE data == [b \in Block |-> IF b \in run THEN Junk ELSE d.v.data[b]]
<1>4. data \in [Block -> Content]
  <2>1. Junk \in Content /\ d.v.data \in [Block -> Content]
    BY <1>1 DEF Junk, Content, Volume
  <2> QED BY <2>1
<1>5. v1 = [[d.v EXCEPT !.blocks = d.v.blocks \ run] EXCEPT !.data = data]
  BY <1>1 DEF Volume
<1> HIDE DEF data, v1
<1>6. v1 \in Volume /\ v1.blocks = d.v.blocks \ run /\ v1.inodes = d.v.inodes /\ v1.data = data
      /\ v1.table = d.v.table /\ v1.clean = d.v.clean /\ v1.groups = d.v.groups /\ v1.free = d.v.free
  BY <1>1, <1>4, <1>5 DEF Volume
<1>7. Does(d, e1, v1)
  BY <1>6, PutDoes DEF ClearRun, v1
<1> HIDE DEF e1
<1>8. Live(e1) /\ Ok(e1) /\ e1.v = v1 /\ e1.node = d.node /\ e1.set = d.set /\ e1.out = d.out
  BY <1>7 DEF Does, Ok
<1> DEFINE n == Cardinality(run)
           e2 == adjustSuper(adjustGroup(e1, g, n, 0, 0), n, 0)
<1>9. freeRun(d, run) = e2
  BY <1>3 DEF freeRun, e1
<1>10. n \in Nat /\ \A K : Shifts(d.v, v1, K, K, g, n, 0, 0)
  BY <1>1, <1>2, <1>6, GivesRun DEF IsRunOf
<1> HIDE DEF n
<1>11. /\ Steps(e1, e2) /\ Keeps(e1.v, e2.v) /\ Adjusts(e1.v, e2.v, g, n, 0, 0)
       /\ e2.v.blocks = e1.v.blocks /\ e2.v.inodes = e1.v.inodes /\ e2.v.data = e1.v.data
  <2>1. n \in Int /\ 0 \in Int
    BY <1>10
  <2> QED BY <1>8, <2>1, AdjustSpec
<1> HIDE DEF e2
<1>12. Adjusts(d.v, e2.v, g, n, 0, 0)
  BY <1>6, <1>8, <1>11 DEF Adjusts
<1>13. e2.v \in Volume
  BY <1>8, <1>11 DEF Keeps
<1>14. Recounts(d.v, e2.v)
  <2> SUFFICES ASSUME NEW K, Counted(d.v, K) PROVE Counted(e2.v, K)
    BY DEF Recounts
  <2>1. n \in Int /\ 0 \in Int
    BY <1>10
  <2>2. Shifts(d.v, v1, K, K, g, n, 0, 0)
    BY <1>10
  <2>3. Shifts(d.v, e2.v, K, K, g, n, 0, 0)
    BY <1>8, <1>11, <2>2 DEF Shifts
  <2> QED BY <1>1, <1>12, <1>13, <2>1, <2>3, Recounted
<1>15. e2.v.blocks = d.v.blocks \ run /\ e2.v.inodes = d.v.inodes /\ e2.v.data = data /\ Keeps(d.v, e2.v)
       /\ Steps(d, e2)
  BY <1>6, <1>8, <1>11 DEF Keeps, Steps
<1> QED BY <1>9, <1>14, <1>15 DEF Frees, data

\* After an error a run is freed all the same, and the error stays.
Undoes(d, e, run) ==
  /\ Live(e) /\ e.status = d.status /\ e.node = d.node /\ e.set = d.set /\ Keeps(d.v, e.v)
  /\ e.v.blocks = d.v.blocks \ run /\ e.v.inodes = d.v.inodes
  /\ e.v.data = [b \in Block |-> IF b \in run THEN Junk ELSE d.v.data[b]]
  /\ Recounts(d.v, e.v)

LEMMA FreeAgainSpec ==
  ASSUME NEW d, Live(d), NEW run, IsRunOf(d.v, run)
  PROVE  Undoes(d, FreeAgain(d, run), run)
<1> DEFINE c == [d EXCEPT !.status = "ok"]
           e == freeRun(c, run)
           f == [e EXCEPT !.status = d.status]
<1>1. d \in Runs /\ d.kind = "none" /\ d.left = -1
  BY DEF Live
<1>2. c \in Runs /\ c.kind = "none" /\ c.left = -1 /\ c.status = "ok" /\ c.v = d.v /\ c.node = d.node
      /\ c.set = d.set
  BY <1>1 DEF Runs, Statuses
<1> HIDE DEF c
<1>3. Frees(c, e, run)
  BY <1>2, FreeRunSpec DEF Live, Ok
<1> HIDE DEF e
<1>4. e \in Runs /\ e.kind = "none" /\ e.left = -1 /\ e.node = d.node /\ e.set = d.set
  BY <1>2, <1>3 DEF Frees, Steps, Live
<1>5. f \in Runs /\ f.kind = "none" /\ f.left = -1 /\ f.status = d.status /\ f.v = e.v /\ f.node = d.node
      /\ f.set = d.set
  BY <1>1, <1>4 DEF Runs
<1> HIDE DEF f
<1>6. Undoes(d, f, run)
  BY <1>2, <1>3, <1>5 DEF Undoes, Frees, Live
<1> QED BY <1>6 DEF FreeAgain, f, e, c

--------------------------------------------------------------------------------
(* Inodes *)

\* allocInode: an inode nobody uses, or no space and nothing done.
Reserves(d, e, dirs) ==
  /\ Live(e) /\ e.node = d.node /\ e.set = d.set
  /\ \/ e.status = "noSpace" /\ e.v = d.v
     \/ /\ Ok(e) /\ e.out \in Inode \ d.v.inodes /\ e.out # rootInode /\ Keeps(d.v, e.v)
        /\ e.v.inodes = d.v.inodes \cup {e.out}
        /\ e.v.blocks = d.v.blocks /\ e.v.data = d.v.data
        /\ \A K : K \subseteq d.v.inodes /\ Counted(d.v, K) =>
                    Counted(e.v, IF dirs THEN K \cup {e.out} ELSE K)

LEMMA TakesInode ==
  ASSUME NEW v \in Volume, NEW w \in Volume, NEW n \in Inode \ v.inodes, w.inodes = v.inodes \cup {n},
         w.blocks = v.blocks, NEW K, n \notin K, NEW dir \in BOOLEAN
  PROVE  Shifts(v, w, K, IF dir THEN K \cup {n} ELSE K, GroupOfInode(n), 0, -1, IF dir THEN 1 ELSE 0)
<1> DEFINE g == GroupOfInode(n)
           K2 == IF dir THEN K \cup {n} ELSE K
           r == IF dir THEN 1 ELSE 0
<1>1. g \in Group /\ n \in InodesOf(g) /\ \A h \in Group : h # g => n \notin InodesOf(h)
  BY InodeGroup, InodePlace
<1>2. \A h \in Group : h # g => /\ InodesOf(h) \ w.inodes = InodesOf(h) \ v.inodes
                                /\ InodesOf(h) \cap K2 = InodesOf(h) \cap K
  BY <1>1
<1>3. \A S : IsFiniteSet(S) /\ n \in S => Cardinality(S \ w.inodes) = Cardinality(S \ v.inodes) + (-1)
  <2> SUFFICES ASSUME NEW S, IsFiniteSet(S), n \in S
               PROVE  Cardinality(S \ w.inodes) = Cardinality(S \ v.inodes) + (-1)
    OBVIOUS
  <2>1. S \ w.inodes = (S \ v.inodes) \ {n} /\ S \ v.inodes \in SUBSET S /\ n \in S \ v.inodes
    OBVIOUS
  <2>2. IsFiniteSet(S \ v.inodes)
    BY <2>1, FS_Subset
  <2>3. Cardinality((S \ v.inodes) \ {n}) = Cardinality(S \ v.inodes) - 1 /\ Cardinality(S \ v.inodes) \in Nat
    BY <2>1, <2>2, FS_RemoveElement, FS_CardinalityType
  <2>4. Cardinality(S \ v.inodes) - 1 = Cardinality(S \ v.inodes) + (-1)
    BY <2>3
  <2> QED BY <2>1, <2>3, <2>4
<1>4. Cardinality(InodesOf(g) \ w.inodes) = Cardinality(InodesOf(g) \ v.inodes) + (-1)
      /\ Cardinality(Inode \ w.inodes) = Cardinality(Inode \ v.inodes) + (-1)
  BY <1>1, <1>3, Finite
<1>5. Cardinality(InodesOf(g) \cap K2) = Cardinality(InodesOf(g) \cap K) + r
  <2> DEFINE P == InodesOf(g) \cap K
  <2>1. IsFiniteSet(P) /\ Cardinality(P) \in Nat /\ n \notin P
    BY <1>1, Finite, FS_Subset, FS_CardinalityType
  <2>2. CASE dir
    <3>1. InodesOf(g) \cap K2 = P \cup {n} /\ r = 1
      BY <1>1, <2>2
    <3> HIDE DEF P
    <3>2. Cardinality(P \cup {n}) = Cardinality(P) + 1
      BY <2>1, FS_AddElement
    <3> QED BY <3>1, <3>2, Zenon DEF P
  <2>3. CASE ~dir
    <3>1. InodesOf(g) \cap K2 = P /\ r = 0
      BY <2>3
    <3> HIDE DEF P, K2, r
    <3>2. Cardinality(P) = Cardinality(P) + 0
      BY <2>1
    <3> QED BY <3>1, <3>2, Zenon DEF P
  <2> QED BY <2>2, <2>3
<1>6. \A x \in Nat : x = x + 0
  OBVIOUS
<1>7. /\ Cardinality(BlocksOf(g) \ w.blocks) = Cardinality(BlocksOf(g) \ v.blocks) + 0
      /\ Cardinality(Block \ w.blocks) = Cardinality(Block \ v.blocks) + 0
  <2>1. Cardinality(BlocksOf(g) \ v.blocks) \in Nat /\ Cardinality(Block \ v.blocks) \in Nat
    BY <1>1, Numbers, Zenon
  <2> QED BY <1>6, <2>1
<1> QED BY <1>1, <1>2, <1>4, <1>5, <1>7 DEF Shifts

LEMMA TakeInodeSpec ==
  ASSUME NEW d, Live(d), Ok(d), NEW n \in Inode \ d.v.inodes, n # rootInode, NEW dir \in BOOLEAN
  PROVE  Reserves(d, TakeInode(d, n, IF dir THEN 1 ELSE 0), dir)
<1> DEFINE v1 == [d.v EXCEPT !.inodes = @ \cup {n}]
           e1 == Put(d, v1)
           g == GroupOfInode(n)
           r == IF dir THEN 1 ELSE 0
           e2 == adjustSuper(adjustGroup(e1, g, 0, -1, r), 0, -1)
<1>1. d.v \in Volume
  BY DEF Live, Runs
<1>2. v1 \in Volume /\ v1.inodes = d.v.inodes \cup {n} /\ v1.blocks = d.v.blocks /\ v1.data = d.v.data
      /\ v1.table = d.v.table /\ v1.clean = d.v.clean /\ v1.groups = d.v.groups /\ v1.free = d.v.free
  BY <1>1 DEF Volume
<1> HIDE DEF v1
<1>3. Does(d, e1, v1)
  BY <1>2, PutDoes
<1> HIDE DEF e1
<1>4. Live(e1) /\ Ok(e1) /\ e1.v = v1 /\ e1.node = d.node /\ e1.set = d.set
  BY <1>3 DEF Does, Ok
<1>5. g \in Group /\ n \in Nat
  BY InodeGroup
<1>6. -1 \in Int /\ 0 \in Int /\ r \in Int
  OBVIOUS
<1>7. /\ Steps(e1, e2) /\ Keeps(e1.v, e2.v) /\ Adjusts(e1.v, e2.v, g, 0, -1, r)
      /\ e2.v.blocks = e1.v.blocks /\ e2.v.inodes = e1.v.inodes /\ e2.v.data = e1.v.data
  <2> DEFINE a == 0
             b == -1
  <2>1. e2 = adjustSuper(adjustGroup(e1, g, a, b, r), a, b)
    OBVIOUS
  <2>2. a \in Int /\ b \in Int
    OBVIOUS
  <2> HIDE DEF g, r, e2, a, b
  <2>3. /\ Steps(e1, e2) /\ Keeps(e1.v, e2.v) /\ Adjusts(e1.v, e2.v, g, a, b, r)
        /\ e2.v.blocks = e1.v.blocks /\ e2.v.inodes = e1.v.inodes /\ e2.v.data = e1.v.data
    BY <1>4, <1>5, <1>6, <2>1, <2>2, AdjustSpec
  <2> QED BY <2>3 DEF a, b
<1> DEFINE e3 == [e2 EXCEPT !.out = n]
<1>8. TakeInode(d, n, r) = e3
  BY DEF TakeInode, e1, v1
<1> HIDE DEF e2
<1>9. e2 \in Runs /\ e2.kind = "none" /\ e2.left = -1 /\ e2.status = "ok" /\ e2.v \in Volume
      /\ e2.node = d.node /\ e2.set = d.set
  BY <1>4, <1>7 DEF Steps, Live, Ok, Keeps
<1>10. e3 \in Runs /\ e3.kind = "none" /\ e3.left = -1 /\ e3.status = "ok" /\ e3.v = e2.v /\ e3.out = n
      /\ e3.node = d.node /\ e3.set = d.set
  BY <1>5, <1>9 DEF Runs
<1>11. Adjusts(d.v, e2.v, g, 0, -1, r)
  BY <1>2, <1>4, <1>7 DEF Adjusts
<1>12. e2.v.inodes = d.v.inodes \cup {n} /\ e2.v.blocks = d.v.blocks /\ e2.v.data = d.v.data
       /\ Keeps(d.v, e2.v)
  BY <1>2, <1>4, <1>7 DEF Keeps
<1>13. ASSUME NEW K, K \subseteq d.v.inodes, Counted(d.v, K)
       PROVE  Counted(e2.v, IF dir THEN K \cup {n} ELSE K)
  <2> DEFINE K2 == IF dir THEN K \cup {n} ELSE K
  <2>1. Shifts(d.v, e2.v, K, K2, g, 0, -1, r)
    BY <1>1, <1>9, <1>12, <1>13, TakesInode
  <2> HIDE DEF g, r, K2
  <2>2. Counted(e2.v, K2)
    BY <1>1, <1>5, <1>6, <1>9, <1>11, <1>13, <2>1, Recounted
  <2> QED BY <2>2 DEF K2
<1> HIDE DEF e3
<1>14. Live(e3) /\ Ok(e3)
  BY <1>10 DEF Live, Ok
<1> QED BY <1>8, <1>10, <1>12, <1>13, <1>14 DEF Reserves

LEMMA AllocInodeSpec ==
  ASSUME NEW d, Live(d), Ok(d), NEW parent \in Inode, NEW dir \in BOOLEAN
  PROVE  Reserves(d, allocInode(d, parent, dir), dir)
<1> DEFINE open == WithInodes(d.v)
           g == FirstGroup(GroupOfInode(parent), open)
           n == Min(FreeInodes(d.v, g))
<1>1. CASE open = {}
  <2>1. allocInode(d, parent, dir) = Fail(d, "noSpace")
    BY <1>1 DEF allocInode
  <2>2. LET e == Fail(d, "noSpace")
        IN  Live(e) /\ e.status = "noSpace" /\ e.v = d.v /\ e.node = d.node /\ e.set = d.set
    <3>1. "noSpace" \in Statuses
      BY DEF Statuses
    <3> QED BY <3>1, FailDoes
  <2> QED BY <2>1, <2>2, Zenon DEF Reserves
<1>2. CASE open # {}
  <2>1. GroupOfInode(parent) \in Group
    BY InodeGroup
  <2>2. open \in SUBSET Group
    BY DEF WithInodes
  <2>3. g \in open
    <3> HIDE DEF open
    <3> QED BY <1>2, <2>1, <2>2, FirstGroupIn
  <2> HIDE DEF g
  <2>4. g \in Group /\ FreeInodes(d.v, g) # {}
    BY <2>3 DEF WithInodes
  <2>5. FreeInodes(d.v, g) \subseteq Inode \ d.v.inodes /\ FreeInodes(d.v, g) \in SUBSET Nat
        /\ rootInode \notin FreeInodes(d.v, g)
    BY <2>4, InodePlace, InodeGroup DEF FreeInodes, rootInode, firstIno
  <2>6. n \in FreeInodes(d.v, g)
    BY <2>4, <2>5, MinOf
  <2>7. allocInode(d, parent, dir) = TakeInode(d, n, IF dir THEN 1 ELSE 0)
    BY <1>2 DEF allocInode, g
  <2> HIDE DEF n
  <2>8. n \in Inode \ d.v.inodes /\ n # rootInode
    BY <2>5, <2>6
  <2> QED BY <2>7, <2>8, TakeInodeSpec
<1> QED BY <1>1, <1>2

--------------------------------------------------------------------------------
(* Sequences *)

\* What holds of the empty sequence and survives Append holds of all.
LEMMA AppendedOn ==
  ASSUME NEW S, NEW T \in SUBSET Seq(S), <<>> \in T, \A s \in T : \A x \in S : Append(s, x) \in T
  PROVE  T = Seq(S)
<1> DEFINE N == {n \in Nat : \A s \in Seq(S) : Len(s) = n => s \in T}
<1>1. 0 \in N
  <2>1. \A s \in Seq(S) : Len(s) = 0 => s = <<>>
    BY EmptySeq
  <2> QED BY <2>1
<1>2. ASSUME NEW n \in N PROVE n + 1 \in N
  <2>1. n \in Nat /\ n + 1 \in Nat
    OBVIOUS
  <2>2. ASSUME NEW s \in Seq(S), Len(s) = n + 1 PROVE s \in T
    <3>1. s # <<>>
      BY <2>1, <2>2, EmptySeq
    <3>2. PICK t \in Seq(S), x \in S : s = Append(t, x)
      BY <3>1, SequenceEmptyOrAppend
    <3>3. Len(s) = Len(t) + 1 /\ Len(t) \in Nat
      BY <3>2, AppendProperties, LenProperties
    <3>4. Len(t) = n
      BY <2>1, <2>2, <3>3
    <3>5. t \in T
      BY <3>4
    <3> QED BY <3>2, <3>5
  <2> QED BY <2>1, <2>2
<1>3. N = Nat
  <2>1. N \in SUBSET Nat
    OBVIOUS
  <2> HIDE DEF N
  <2> QED BY <1>1, <1>2, <2>1, HandedOn
<1>4. \A s \in Seq(S) : s \in T
  <2> SUFFICES ASSUME NEW s \in Seq(S) PROVE s \in T
    OBVIOUS
  <2>1. Len(s) \in N
    BY <1>3, LenProperties
  <2> QED BY <2>1
<1> QED BY <1>4

\* h holds the concatenations of the first sequences of seqs.
Joined(seqs, h) == h[0] = <<>> /\ \A k \in 1 .. Len(seqs) : h[k] = h[k - 1] \o seqs[k]

LEMMA JoinExists ==
  ASSUME NEW S, NEW seqs \in Seq(Seq(S))
  PROVE  \E h \in [0 .. Len(seqs) -> Seq(S)] : Joined(seqs, h)
<1> DEFINE n == Len(seqs)
           F == [x \in Seq(S) \X Nat |-> IF x[2] \in 1 .. n THEN x[1] \o seqs[x[2]] ELSE x[1]]
<1>1. n \in Nat /\ <<>> \in Seq(S) /\ \A k \in 1 .. n : seqs[k] \in Seq(S)
  BY LenProperties, EmptySeq, ElementOfSeq
<1>2. F \in [Seq(S) \X Nat -> Seq(S)]
  <2>1. ASSUME NEW x \in Seq(S) \X Nat
        PROVE  (IF x[2] \in 1 .. n THEN x[1] \o seqs[x[2]] ELSE x[1]) \in Seq(S)
    <3>1. x[1] \in Seq(S)
      OBVIOUS
    <3>2. CASE x[2] \in 1 .. n
      <4>1. seqs[x[2]] \in Seq(S)
        BY <1>1, <3>2
      <4> QED BY <3>1, <3>2, <4>1, ConcatProperties
    <3> QED BY <3>1, <3>2
  <2> QED BY <2>1
<1>3. ASSUME NEW s \in Seq(S), NEW k \in 1 .. n PROVE F[<<s, k>>] = s \o seqs[k]
  <2>1. <<s, k>> \in Seq(S) \X Nat /\ <<s, k>>[1] = s /\ <<s, k>>[2] = k
    BY <1>1
  <2> QED BY <2>1, Zenon
<1> HIDE DEF F
<1>4. PICK h \in [0 .. n -> Seq(S)] : IsRun(h, <<>>, n, F)
  BY <1>1, <1>2, Iterated
<1>5. Joined(seqs, h)
  <2>1. \A k \in 0 .. n : h[k] = IF k = 0 THEN <<>> ELSE F[<<h[k - 1], k>>]
    BY <1>4, Zenon DEF IsRun
  <2>2. 0 \in 0 .. n /\ \A k \in 1 .. n : k \in 0 .. n /\ k # 0 /\ k - 1 \in 0 .. n
    BY <1>1
  <2>3. h[0] = <<>>
    BY <2>1, <2>2, Zenon
  <2>4. ASSUME NEW k \in 1 .. n PROVE h[k] = h[k - 1] \o seqs[k]
    <3>1. h[k] = F[<<h[k - 1], k>>] /\ h[k - 1] \in Seq(S)
      BY <2>1, <2>2, Zenon
    <3> QED BY <1>3, <3>1, Zenon
  <2> QED BY <2>3, <2>4, Zenon DEF Joined
<1> QED BY <1>4, <1>5

LEMMA FlattenIs ==
  ASSUME NEW S, NEW seqs \in Seq(Seq(S)), NEW h \in [0 .. Len(seqs) -> Seq(S)], Joined(seqs, h)
  PROVE  FlattenSeq(seqs) = h[Len(seqs)]
<1> DEFINE n == Len(seqs)
<1>1. n \in Nat /\ \A k \in 1 .. n : seqs[k] \in Seq(S)
  BY LenProperties, ElementOfSeq
<1>2. CASE n = 0
  <2>1. seqs = <<>>
    BY <1>2, EmptySeq
  <2> QED BY <1>2, <2>1 DEF FlattenSeq, Joined
<1>3. CASE n # 0
  <2> DEFINE P(f) == f = [i \in 1 .. n |-> IF i = 1 THEN seqs[i] ELSE f[i - 1] \o seqs[i]]
             g == [i \in 1 .. n |-> h[i]]
             f0 == CHOOSE f : P(f)
  <2>1. P(g)
    <3>1. ASSUME NEW i \in 1 .. n PROVE h[i] = IF i = 1 THEN seqs[i] ELSE g[i - 1] \o seqs[i]
      <4>1. h[i] = h[i - 1] \o seqs[i]
        BY DEF Joined
      <4>2. CASE i = 1
        <5>1. h[i] = <<>> \o seqs[i] /\ seqs[i] \in Seq(S)
          BY <1>1, <4>1, <4>2 DEF Joined
        <5> QED BY <4>2, <5>1, ConcatEmptySeq
      <4>3. CASE i # 1
        <5>1. i - 1 \in 1 .. n
          BY <1>1, <4>3
        <5> QED BY <4>1, <4>3, <5>1
      <4> QED BY <4>2, <4>3
    <3> QED BY <3>1
  <2>2. P(f0)
    <3> HIDE DEF P, g
    <3> QED BY <2>1
  <2> DEFINE T == {i \in Nat : i \in 1 .. n => f0[i] = h[i]}
  <2>3. 0 \in T
    OBVIOUS
  <2> HIDE DEF f0
  <2>4. ASSUME NEW i \in T PROVE i + 1 \in T
    <3> SUFFICES ASSUME i + 1 \in 1 .. n PROVE f0[i + 1] = h[i + 1]
      OBVIOUS
    <3>1. i \in Nat /\ (i + 1) - 1 = i
      OBVIOUS
    <3>2. h[i + 1] = h[i] \o seqs[i + 1]
      <4>1. h[i + 1] = h[(i + 1) - 1] \o seqs[i + 1]
        BY Zenon DEF Joined
      <4> QED BY <3>1, <4>1, Zenon
    <3>3. CASE i = 0
      <4>1. f0[1] = seqs[1]
        BY <2>2, <3>3
      <4>2. 1 \in 1 .. n /\ i + 1 = 1
        BY <1>1, <3>3
      <4>3. h[1] = <<>> \o seqs[1] /\ seqs[1] \in Seq(S)
        BY <1>1, <3>2, <3>3, <4>2, Zenon DEF Joined
      <4> QED BY <4>1, <4>2, <4>3, ConcatEmptySeq, Zenon
    <3>4. CASE i # 0
      <4>1. i \in 1 .. n /\ i + 1 # 1
        BY <1>1, <3>4
      <4>2. f0[i + 1] = f0[(i + 1) - 1] \o seqs[i + 1]
        BY <2>2, <4>1, Zenon
      <4>3. f0[i] = h[i]
        BY <4>1
      <4> QED BY <3>1, <3>2, <4>2, <4>3, Zenon
    <3> QED BY <3>3, <3>4
  <2>5. T = Nat
    <3>1. T \in SUBSET Nat
      OBVIOUS
    <3> HIDE DEF T
    <3> QED BY <2>3, <2>4, <3>1, HandedOn
  <2>6. f0[n] = h[n]
    <3>1. n \in T /\ n \in 1 .. n
      BY <1>1, <1>3, <2>5
    <3> QED BY <3>1
  <2>7. FlattenSeq(seqs) = f0[n]
    BY <1>3 DEF FlattenSeq, f0
  <2> QED BY <2>6, <2>7
<1> QED BY <1>2, <1>3

\* FlattenSeq from the left.
LEMMA Flattened ==
  ASSUME NEW S
  PROVE  /\ FlattenSeq(<<>>) = <<>>
         /\ \A seqs \in Seq(Seq(S)) : FlattenSeq(seqs) \in Seq(S)
         /\ \A seqs \in Seq(Seq(S)), x \in Seq(S) : FlattenSeq(Append(seqs, x)) = FlattenSeq(seqs) \o x
<1>1. FlattenSeq(<<>>) = <<>>
  BY DEF FlattenSeq
<1>2. ASSUME NEW seqs \in Seq(Seq(S)) PROVE FlattenSeq(seqs) \in Seq(S)
  <2>1. PICK h \in [0 .. Len(seqs) -> Seq(S)] : Joined(seqs, h)
    BY JoinExists
  <2>2. Len(seqs) \in 0 .. Len(seqs)
    BY LenProperties
  <2> QED BY <2>1, <2>2, FlattenIs
<1>3. ASSUME NEW seqs \in Seq(Seq(S)), NEW x \in Seq(S)
      PROVE  FlattenSeq(Append(seqs, x)) = FlattenSeq(seqs) \o x
  <2> DEFINE more == Append(seqs, x)
             n == Len(seqs)
  <2>1. more \in Seq(Seq(S)) /\ Len(more) = n + 1 /\ n \in Nat /\ more[n + 1] = x
        /\ \A k \in 1 .. n : more[k] = seqs[k]
    BY AppendProperties, LenProperties
  <2> HIDE DEF more
  <2>2. PICK h \in [0 .. Len(more) -> Seq(S)] : Joined(more, h)
    BY <2>1, JoinExists
  <2> DEFINE g == [k \in 0 .. n |-> h[k]]
  <2>3. g \in [0 .. n -> Seq(S)]
    BY <2>1
  <2>4. Joined(seqs, g)
    <3>0. \A k \in 1 .. n : k \in 1 .. Len(more)
      BY <2>1
    <3>1. h[0] = <<>> /\ \A k \in 1 .. n : h[k] = h[k - 1] \o more[k]
      BY <2>2, <3>0, Zenon DEF Joined
    <3>2. g[0] = <<>> /\ \A k \in 1 .. n : g[k] = h[k] /\ g[k - 1] = h[k - 1]
      BY <2>1, <3>1
    <3> HIDE DEF g
    <3> QED BY <2>1, <3>1, <3>2, Zenon DEF Joined
  <2>5. g[n] = h[n]
    BY <2>1
  <2> HIDE DEF g
  <2>6. FlattenSeq(seqs) = h[n]
    BY <2>3, <2>4, <2>5, FlattenIs
  <2>7. FlattenSeq(more) = h[n + 1]
    BY <2>1, <2>2, FlattenIs
  <2>8. h[n + 1] = h[n] \o x
    <3>1. n + 1 \in 1 .. Len(more) /\ (n + 1) - 1 = n
      BY <2>1
    <3>2. h[n + 1] = h[(n + 1) - 1] \o more[n + 1]
      BY <2>2, <3>1, Zenon DEF Joined
    <3> QED BY <2>1, <3>1, <3>2, Zenon
  <2> QED BY <2>6, <2>7, <2>8 DEF more
<1> QED BY <1>1, <1>2, <1>3

\* What is in a sequence.
LEMMA ConcatSet ==
  ASSUME NEW S, NEW s \in Seq(S), NEW t \in Seq(S)
  PROVE  ToSet(s \o t) = ToSet(s) \cup ToSet(t)
<1> DEFINE m == Len(s)
           n == Len(t)
           u == s \o t
<1>1. m \in Nat /\ n \in Nat /\ u \in Seq(S) /\ Len(u) = m + n /\ DOMAIN u = 1 .. m + n
      /\ DOMAIN s = 1 .. m /\ DOMAIN t = 1 .. n
      /\ \A i \in 1 .. m + n : u[i] = IF i <= m THEN s[i] ELSE t[i - m]
  BY ConcatProperties, LenProperties
<1> HIDE DEF m, n, u
<1>2. \A i \in 1 .. m : i \in 1 .. m + n /\ u[i] = s[i]
  BY <1>1
<1>3. \A i \in 1 .. n : m + i \in 1 .. m + n /\ u[m + i] = t[i]
  BY <1>1
<1>4. \A i \in 1 .. m + n : (i \in 1 .. m /\ u[i] = s[i]) \/ (i - m \in 1 .. n /\ u[i] = t[i - m])
  BY <1>1
<1>5. ToSet(u) = ToSet(s) \cup ToSet(t)
  <2>1. ToSet(u) = {u[i] : i \in 1 .. m + n} /\ ToSet(s) = {s[i] : i \in 1 .. m} /\ ToSet(t) = {t[i] : i \in 1 .. n}
    BY <1>1, Zenon DEF ToSet
  <2>2. {u[i] : i \in 1 .. m + n} \subseteq {s[i] : i \in 1 .. m} \cup {t[i] : i \in 1 .. n}
    BY <1>4, Zenon
  <2>3. {s[i] : i \in 1 .. m} \subseteq {u[i] : i \in 1 .. m + n}
    BY <1>2, Zenon
  <2>4. {t[i] : i \in 1 .. n} \subseteq {u[i] : i \in 1 .. m + n}
    BY <1>3, Zenon
  <2> QED BY <2>1, <2>2, <2>3, <2>4, Zenon
<1> QED BY <1>5 DEF u

\* What is in a flattened sequence.
LEMMA FlattenedSet ==
  ASSUME NEW S, NEW seqs \in Seq(Seq(S))
  PROVE  ToSet(FlattenSeq(seqs)) = UNION {ToSet(seqs[k]) : k \in 1 .. Len(seqs)}
<1> DEFINE All(s) == UNION {ToSet(s[k]) : k \in 1 .. Len(s)}
           T == {s \in Seq(Seq(S)) : ToSet(FlattenSeq(s)) = All(s)}
<1>1. <<>> \in T
  <2>1. ToSet(<<>>) = {} /\ All(<<>>) = {} /\ <<>> \in Seq(Seq(S))
    BY DEF ToSet
  <2> QED BY <2>1, Flattened
<1>2. ASSUME NEW s \in T, NEW x \in Seq(S) PROVE Append(s, x) \in T
  <2> DEFINE t == Append(s, x)
  <2>1. t \in Seq(Seq(S)) /\ Len(t) = Len(s) + 1 /\ Len(s) \in Nat /\ t[Len(s) + 1] = x
        /\ \A k \in 1 .. Len(s) : t[k] = s[k]
    BY AppendProperties, LenProperties
  <2> HIDE DEF t
  <2>2. 1 .. Len(t) = (1 .. Len(s)) \cup {Len(s) + 1}
    BY <2>1, SMTT(40)
  <2>3. All(t) = All(s) \cup ToSet(x)
    BY <2>1, <2>2, SMTT(40)
  <2>4. FlattenSeq(t) = FlattenSeq(s) \o x /\ FlattenSeq(s) \in Seq(S)
    BY Flattened DEF t
  <2>5. ToSet(FlattenSeq(s) \o x) = ToSet(FlattenSeq(s)) \cup ToSet(x)
    BY <2>4, ConcatSet
  <2>6. ToSet(FlattenSeq(s)) = All(s)
    OBVIOUS
  <2> HIDE DEF All
  <2>7. ToSet(FlattenSeq(t)) = All(t)
    BY <2>3, <2>4, <2>5, <2>6, Zenon
  <2> QED BY <2>1, <2>7, Zenon DEF t
<1>3. T = Seq(Seq(S))
  <2>1. T \in SUBSET Seq(Seq(S))
    OBVIOUS
  <2> HIDE DEF T
  <2> QED BY <1>1, <1>2, <2>1, AppendedOn
<1> QED BY <1>3

--------------------------------------------------------------------------------
(* The lengths of a directory's records *)

\* h holds the lengths of the first records.
Summed(recs, h) == h[0] = 0 /\ \A k \in 1 .. Len(recs) : h[k] = h[k - 1] + recs[k].len

LEMMA SumExists ==
  ASSUME NEW recs \in Seq(RecType)
  PROVE  \E h \in [0 .. Len(recs) -> Nat] : Summed(recs, h)
<1> DEFINE n == Len(recs)
           F == [x \in Nat \X Nat |-> IF x[2] \in 1 .. n THEN x[1] + recs[x[2]].len ELSE x[1]]
<1>1. n \in Nat /\ 0 \in Nat /\ \A k \in 1 .. n : recs[k].len \in Nat
  <2>1. \A k \in 1 .. n : recs[k] \in RecType
    BY ElementOfSeq
  <2>2. \A r \in RecType : r.len \in Nat
    BY DEF RecType
  <2> QED BY <2>1, <2>2, LenProperties
<1>2. F \in [Nat \X Nat -> Nat]
  <2>1. ASSUME NEW x \in Nat \X Nat
        PROVE  (IF x[2] \in 1 .. n THEN x[1] + recs[x[2]].len ELSE x[1]) \in Nat
    <3>1. x[1] \in Nat
      OBVIOUS
    <3>2. CASE x[2] \in 1 .. n
      <4>1. recs[x[2]].len \in Nat
        BY <1>1, <3>2
      <4> QED BY <3>1, <3>2, <4>1
    <3> QED BY <3>1, <3>2
  <2> QED BY <2>1
<1>3. ASSUME NEW s \in Nat, NEW k \in 1 .. n PROVE F[<<s, k>>] = s + recs[k].len
  <2>1. <<s, k>> \in Nat \X Nat /\ <<s, k>>[1] = s /\ <<s, k>>[2] = k
    BY <1>1
  <2> QED BY <2>1, Zenon
<1> HIDE DEF F
<1>4. PICK h \in [0 .. n -> Nat] : IsRun(h, 0, n, F)
  BY <1>1, <1>2, Iterated
<1>5. Summed(recs, h)
  <2>1. \A k \in 0 .. n : h[k] = IF k = 0 THEN 0 ELSE F[<<h[k - 1], k>>]
    BY <1>4, Zenon DEF IsRun
  <2>2. 0 \in 0 .. n /\ \A k \in 1 .. n : k \in 0 .. n /\ k # 0 /\ k - 1 \in 0 .. n
    BY <1>1
  <2>3. h[0] = 0
    BY <2>1, <2>2, Zenon
  <2>4. ASSUME NEW k \in 1 .. n PROVE h[k] = h[k - 1] + recs[k].len
    <3>1. h[k] = F[<<h[k - 1], k>>] /\ h[k - 1] \in Nat
      BY <2>1, <2>2, Zenon
    <3> QED BY <1>3, <3>1, Zenon
  <2> QED BY <2>3, <2>4, Zenon DEF Summed
<1> QED BY <1>4, <1>5

LEMMA SumIs ==
  ASSUME NEW recs \in Seq(RecType), NEW h \in [0 .. Len(recs) -> Nat], Summed(recs, h)
  PROVE  LengthOf(recs) = h[Len(recs)]
<1> DEFINE n == Len(recs)
           P(f) == f = [i \in 0 .. n |-> IF i = 0 THEN 0 ELSE f[i - 1] + recs[i].len]
           f0 == CHOOSE f : P(f)
<1>1. n \in Nat
  BY LenProperties
<1>2. P(h)
  <2>1. ASSUME NEW i \in 0 .. n PROVE h[i] = IF i = 0 THEN 0 ELSE h[i - 1] + recs[i].len
    <3>1. i = 0 \/ i \in 1 .. n
      BY <1>1
    <3>2. i \in 1 .. n => i # 0
      BY <1>1
    <3> QED BY <3>1, <3>2, Zenon DEF Summed
  <2>2. h = [i \in 0 .. n |-> h[i]]
    OBVIOUS
  <2> QED BY <2>1, <2>2, Zenon
<1>3. P(f0)
  <2> HIDE DEF P
  <2> QED BY <1>2
<1> HIDE DEF f0
<1> DEFINE T == {i \in Nat : i \in 0 .. n => f0[i] = h[i]}
<1>4. 0 \in T
  <2>1. f0[0] = 0
    BY <1>1, <1>3
  <2> QED BY <2>1 DEF Summed
<1>5. ASSUME NEW i \in T PROVE i + 1 \in T
  <2> SUFFICES ASSUME i + 1 \in 0 .. n PROVE f0[i + 1] = h[i + 1]
    OBVIOUS
  <2>1. i \in 0 .. n /\ i + 1 \in 1 .. n /\ i + 1 # 0 /\ (i + 1) - 1 = i
    BY <1>1
  <2>2. f0[i + 1] = f0[(i + 1) - 1] + recs[i + 1].len
    BY <1>3, <2>1, Zenon
  <2>3. h[i + 1] = h[(i + 1) - 1] + recs[i + 1].len
    BY <2>1, Zenon DEF Summed
  <2>4. f0[i] = h[i]
    BY <2>1
  <2> QED BY <2>1, <2>2, <2>3, <2>4, Zenon
<1>6. T = Nat
  <2>1. T \in SUBSET Nat
    OBVIOUS
  <2> HIDE DEF T
  <2> QED BY <1>4, <1>5, <2>1, HandedOn
<1>7. f0[n] = h[n]
  <2>1. n \in T /\ n \in 0 .. n
    BY <1>1, <1>6
  <2> QED BY <2>1
<1>8. LengthOf(recs) = f0[n]
  BY Zenon DEF LengthOf, f0
<1> QED BY <1>7, <1>8

\* LengthOf from the left.
LEMMA LengthSteps ==
  /\ LengthOf(<<>>) = 0
  /\ \A recs \in Seq(RecType) : LengthOf(recs) \in Nat
  /\ \A recs \in Seq(RecType), r \in RecType : LengthOf(Append(recs, r)) = LengthOf(recs) + r.len
<1>1. LengthOf(<<>>) = 0
  <2>1. <<>> \in Seq(RecType) /\ Len(<<>>) = 0
    BY EmptySeq
  <2>2. PICK h \in [0 .. Len(<<>>) -> Nat] : Summed(<<>>, h)
    BY <2>1, SumExists, Zenon
  <2>3. LengthOf(<<>>) = h[Len(<<>>)]
    BY <2>1, <2>2, SumIs, Zenon
  <2> QED BY <2>1, <2>2, <2>3, Zenon DEF Summed
<1>2. ASSUME NEW recs \in Seq(RecType) PROVE LengthOf(recs) \in Nat
  <2>1. PICK h \in [0 .. Len(recs) -> Nat] : Summed(recs, h)
    BY SumExists
  <2>2. Len(recs) \in 0 .. Len(recs)
    BY LenProperties
  <2> QED BY <2>1, <2>2, SumIs
<1>3. ASSUME NEW recs \in Seq(RecType), NEW r \in RecType
      PROVE  LengthOf(Append(recs, r)) = LengthOf(recs) + r.len
  <2> DEFINE more == Append(recs, r)
             n == Len(recs)
  <2>1. more \in Seq(RecType) /\ Len(more) = n + 1 /\ n \in Nat /\ more[n + 1] = r
        /\ \A k \in 1 .. n : more[k] = recs[k]
    BY AppendProperties, LenProperties
  <2> HIDE DEF more
  <2>2. PICK h \in [0 .. Len(more) -> Nat] : Summed(more, h)
    BY <2>1, SumExists
  <2> DEFINE g == [k \in 0 .. n |-> h[k]]
  <2>3. g \in [0 .. n -> Nat]
    BY <2>1
  <2>4. Summed(recs, g)
    <3>0. \A k \in 1 .. n : k \in 1 .. Len(more)
      BY <2>1
    <3>1. h[0] = 0 /\ \A k \in 1 .. n : h[k] = h[k - 1] + more[k].len
      BY <2>2, <3>0, Zenon DEF Summed
    <3>2. g[0] = 0 /\ \A k \in 1 .. n : g[k] = h[k] /\ g[k - 1] = h[k - 1]
      BY <2>1, <3>1
    <3> HIDE DEF g
    <3> QED BY <2>1, <3>1, <3>2, Zenon DEF Summed
  <2>5. g[n] = h[n]
    BY <2>1
  <2> HIDE DEF g
  <2>6. LengthOf(recs) = h[n]
    BY <2>3, <2>4, <2>5, SumIs
  <2>7. LengthOf(more) = h[n + 1]
    BY <2>1, <2>2, SumIs
  <2>8. h[n + 1] = h[n] + r.len
    <3>1. n + 1 \in 1 .. Len(more) /\ (n + 1) - 1 = n
      BY <2>1
    <3>2. h[n + 1] = h[(n + 1) - 1] + more[n + 1].len
      BY <2>2, <3>1, Zenon DEF Summed
    <3> QED BY <2>1, <3>1, <3>2, Zenon
  <2> QED BY <2>6, <2>7, <2>8 DEF more
<1> QED BY <1>1, <1>2, <1>3

LEMMA LengthConcat ==
  ASSUME NEW s \in Seq(RecType), NEW t \in Seq(RecType)
  PROVE  LengthOf(s \o t) = LengthOf(s) + LengthOf(t)
<1> DEFINE T == {u \in Seq(RecType) : LengthOf(s \o u) = LengthOf(s) + LengthOf(u)}
<1>1. <<>> \in T
  <2>1. s \o <<>> = s /\ <<>> \in Seq(RecType)
    BY ConcatEmptySeq, EmptySeq
  <2>2. LengthOf(s) \in Nat /\ LengthOf(<<>>) = 0
    BY LengthSteps
  <2>3. LengthOf(s) = LengthOf(s) + LengthOf(<<>>)
    BY <2>2
  <2> QED BY <2>1, <2>3
<1>2. ASSUME NEW u \in T, NEW r \in RecType PROVE Append(u, r) \in T
  <2>1. u \in Seq(RecType) /\ LengthOf(s \o u) = LengthOf(s) + LengthOf(u)
    OBVIOUS
  <2>2. Append(u, r) \in Seq(RecType) /\ s \o u \in Seq(RecType)
    BY <2>1, AppendProperties, ConcatProperties
  <2>3. s \o Append(u, r) = Append(s \o u, r)
    <3>1. Append(u, r) = u \o <<r>> /\ Append(s \o u, r) = (s \o u) \o <<r>> /\ <<r>> \in Seq(RecType)
      BY <2>1, <2>2, AppendIsConcat
    <3>2. (s \o u) \o <<r>> = s \o (u \o <<r>>)
      BY <2>1, <3>1, ConcatAssociative, SMTT(40)
    <3> QED BY <3>1, <3>2, Zenon
  <2>4. LengthOf(s \o Append(u, r)) = LengthOf(s \o u) + r.len
    BY <2>2, <2>3, LengthSteps, Zenon
  <2>5. LengthOf(Append(u, r)) = LengthOf(u) + r.len
    BY <2>1, LengthSteps, Zenon
  <2>6. LengthOf(s) \in Nat /\ LengthOf(u) \in Nat /\ r.len \in Nat
    BY <2>1, LengthSteps DEF RecType
  <2>7. LengthOf(s \o Append(u, r)) = LengthOf(s) + LengthOf(Append(u, r))
    <3> DEFINE x == LengthOf(s \o Append(u, r))
               y == LengthOf(Append(u, r))
               a == LengthOf(s)
               b == LengthOf(u)
               c == LengthOf(s \o u)
    <3>1. x = c + r.len /\ y = b + r.len /\ c = a + b /\ a \in Nat /\ b \in Nat /\ r.len \in Nat
      BY <2>1, <2>4, <2>5, <2>6
    <3> HIDE DEF x, y, a, b, c
    <3>2. x = a + y
      BY <3>1
    <3> QED BY <3>2 DEF x, y, a
  <2> QED BY <2>2, <2>7
<1>3. T = Seq(RecType)
  <2>1. T \in SUBSET Seq(RecType)
    OBVIOUS
  <2> HIDE DEF T
  <2> QED BY <1>1, <1>2, <2>1, AppendedOn
<1> QED BY <1>3

LEMMA LengthOfOne ==
  ASSUME NEW r \in RecType
  PROVE  <<r>> \in Seq(RecType) /\ LengthOf(<<r>>) = r.len
<1>1. <<>> \in Seq(RecType) /\ Append(<<>>, r) = <<r>> /\ <<r>> \in Seq(RecType)
  BY EmptySeq
<1>2. LengthOf(Append(<<>>, r)) = LengthOf(<<>>) + r.len /\ LengthOf(<<>>) = 0
  BY <1>1, LengthSteps, Zenon
<1>3. 0 + r.len = r.len
  BY DEF RecType
<1> QED BY <1>1, <1>2, <1>3, Zenon

\* a and b are what is before and behind the i-th record.
Splits(recs, i, a, b) ==
  /\ a \in Seq(RecType) /\ b \in Seq(RecType) /\ recs[i] \in RecType
  /\ Len(a) = i - 1 /\ Len(b) = Len(recs) - i
  /\ \A j \in 1 .. i - 1 : a[j] = recs[j]
  /\ \A j \in 1 .. Len(recs) - i : b[j] = recs[i + j]
  /\ LengthOf(recs) = LengthOf(a) + (recs[i].len + LengthOf(b))

LEMMA LengthSplit ==
  ASSUME NEW recs \in Seq(RecType), NEW i \in 1 .. Len(recs)
  PROVE  Splits(recs, i, SubSeq(recs, 1, i - 1), SubSeq(recs, i + 1, Len(recs)))
<1> DEFINE n == Len(recs)
           a == SubSeq(recs, 1, i - 1)
           b == SubSeq(recs, i + 1, n)
<1>1. n \in Nat /\ \A j \in 1 .. n : recs[j] \in RecType
  BY LenProperties, ElementOfSeq
<1>2. a \in Seq(RecType) /\ Len(a) = i - 1 /\ \A j \in 1 .. i - 1 : a[j] = recs[j]
  <2>1. 1 \in Int /\ i - 1 \in Int /\ \A j \in 1 .. i - 1 : recs[j] \in RecType
    BY <1>1
  <2>2. a \in Seq(RecType) /\ Len(a) = (IF 1 <= i - 1 THEN i - 1 - 1 + 1 ELSE 0)
        /\ \A j \in 1 .. i - 1 - 1 + 1 : a[j] = recs[1 + j - 1]
    BY <2>1, SubSeqProperties
  <2> QED BY <1>1, <2>2
<1>3. b \in Seq(RecType) /\ Len(b) = n - i /\ \A j \in 1 .. n - i : b[j] = recs[i + j]
  <2>1. i + 1 \in Int /\ n \in Int /\ \A j \in i + 1 .. n : recs[j] \in RecType
    BY <1>1
  <2>2. b \in Seq(RecType) /\ Len(b) = (IF i + 1 <= n THEN n - (i + 1) + 1 ELSE 0)
        /\ \A j \in 1 .. n - (i + 1) + 1 : b[j] = recs[i + 1 + j - 1]
    BY <2>1, SubSeqProperties
  <2> QED BY <1>1, <2>2
<1>4. recs = a \o (<<recs[i]>> \o b)
  <2>1. i \in 1 .. n + 1 /\ i - 1 \in 1 - 1 .. n /\ n \in i - 1 .. n /\ 1 \in 1 .. n + 1 /\ (i - 1) + 1 = i
    BY <1>1
  <2>2. SubSeq(recs, 1, i - 1) \o SubSeq(recs, (i - 1) + 1, n) = SubSeq(recs, 1, n)
    BY <2>1, ConcatAdjacentSubSeq
  <2>3. SubSeq(recs, 1, n) = recs
    BY SubSeqFull
  <2>4. SubSeq(recs, i, n) = <<recs[i]>> \o SubSeq(recs, i + 1, n)
    BY <1>1, SubSeqRecursiveFirst
  <2> QED BY <2>1, <2>2, <2>3, <2>4, Zenon
<1>5. recs[i] \in RecType /\ <<recs[i]>> \in Seq(RecType) /\ LengthOf(<<recs[i]>>) = recs[i].len
  BY <1>1, LengthOfOne
<1>6. <<recs[i]>> \o b \in Seq(RecType)
  BY <1>3, <1>5, ConcatProperties
<1>7. LengthOf(recs) = LengthOf(a) + LengthOf(<<recs[i]>> \o b)
  BY <1>2, <1>4, <1>6, LengthConcat, Zenon
<1>8. LengthOf(<<recs[i]>> \o b) = recs[i].len + LengthOf(b)
  BY <1>3, <1>5, LengthConcat, Zenon
<1> HIDE DEF a, b
<1>9. Splits(recs, i, a, b)
  BY <1>2, <1>3, <1>5, <1>7, <1>8 DEF Splits
<1> QED BY <1>9 DEF a, b

Replaces(recs, i, r, s) ==
  /\ s \in Seq(RecType) /\ Len(s) = Len(recs) /\ s[i] = r
  /\ \A j \in 1 .. Len(recs) : j # i => s[j] = recs[j]
  /\ LengthOf(s) + recs[i].len = LengthOf(recs) + r.len

LEMMA LengthReplaced ==
  ASSUME NEW recs \in Seq(RecType), NEW i \in 1 .. Len(recs), NEW r \in RecType
  PROVE  Replaces(recs, i, r, [recs EXCEPT ![i] = r])
<1> DEFINE n == Len(recs)
           s == [recs EXCEPT ![i] = r]
           a == SubSeq(recs, 1, i - 1)
           b == SubSeq(recs, i + 1, n)
           c == SubSeq(s, 1, i - 1)
           e == SubSeq(s, i + 1, n)
<1>1. s \in Seq(RecType) /\ Len(s) = n /\ s[i] = r /\ n \in Nat
      /\ \A j \in 1 .. n : j # i => s[j] = recs[j]
  BY ExceptSeq, LenProperties
<1> HIDE DEF s
<1>2. Splits(recs, i, a, b)
  BY LengthSplit
<1>3. Splits(s, i, c, e)
  <2>1. i \in 1 .. Len(s)
    BY <1>1
  <2>2. Splits(s, i, SubSeq(s, 1, i - 1), SubSeq(s, i + 1, Len(s)))
    BY <1>1, <2>1, LengthSplit
  <2> QED BY <1>1, <2>2
<1> HIDE DEF a, b, c, e
<1>4. c = a
  <2>1. \A j \in 1 .. i - 1 : c[j] = a[j]
    BY <1>1, <1>2, <1>3 DEF Splits
  <2>2. c \in Seq(RecType) /\ a \in Seq(RecType) /\ Len(c) = i - 1 /\ Len(a) = i - 1
    BY <1>2, <1>3 DEF Splits
  <2> QED BY <2>1, <2>2, SeqEqual
<1>5. e = b
  <2>1. \A j \in 1 .. n - i : e[j] = b[j]
    <3> SUFFICES ASSUME NEW j \in 1 .. n - i PROVE e[j] = b[j]
      OBVIOUS
    <3>1. i + j \in 1 .. n /\ i + j # i
      BY <1>1
    <3>2. j \in 1 .. Len(s) - i
      BY <1>1
    <3>3. e[j] = s[i + j] /\ b[j] = recs[i + j]
      BY <1>2, <1>3, <3>2, Zenon DEF Splits
    <3> QED BY <1>1, <3>1, <3>3, Zenon
  <2>2. e \in Seq(RecType) /\ b \in Seq(RecType) /\ Len(e) = n - i /\ Len(b) = n - i
    BY <1>1, <1>2, <1>3 DEF Splits
  <2> QED BY <2>1, <2>2, SeqEqual
<1>6. LengthOf(s) + recs[i].len = LengthOf(recs) + r.len
  <2> DEFINE x == LengthOf(a)
             y == LengthOf(b)
             p == LengthOf(s)
             q == LengthOf(recs)
             l == recs[i].len
             m == r.len
  <2>1. x \in Nat /\ y \in Nat /\ l \in Nat /\ m \in Nat /\ p = x + (m + y) /\ q = x + (l + y)
    <3>1. p = LengthOf(c) + (s[i].len + LengthOf(e)) /\ q = LengthOf(a) + (recs[i].len + LengthOf(b))
          /\ a \in Seq(RecType) /\ b \in Seq(RecType) /\ recs[i] \in RecType
      BY <1>2, <1>3 DEF Splits
    <3> QED BY <1>1, <1>4, <1>5, <3>1, LengthSteps DEF RecType
  <2> HIDE DEF x, y, p, q, l, m
  <2>2. p + l = q + m
    BY <2>1
  <2> QED BY <2>2 DEF p, l, q, m
<1> QED BY <1>1, <1>6 DEF Replaces, s

--------------------------------------------------------------------------------
(* Records put in and taken out *)

LiveAt(recs)   == {i \in 1 .. Len(recs) : recs[i].ino # none}
Pairs(recs)    == {<<recs[i].name, recs[i].ino>> : i \in LiveAt(recs)}
Distinct(recs) == \A i, j \in LiveAt(recs) : recs[i].name = recs[j].name => i = j

\* The first records are "." and "..", and there is no room between them.
Heads(recs, n, up) ==
  /\ Len(recs) >= 2
  /\ recs[1].name = "." /\ recs[1].ino = n /\ recs[1].len = 1
  /\ recs[2].name = ".." /\ recs[2].ino = up

\* s is recs with one entry more.
Gets(recs, s, name, child) ==
  /\ s \in Seq(RecType) /\ LengthOf(s) = LengthOf(recs)
  /\ Pairs(s) = Pairs(recs) \cup {<<name, child>>}
  /\ Distinct(recs) /\ (\A j \in LiveAt(recs) : recs[j].name # name) => Distinct(s)
  /\ \A n, up \in Inode : Heads(recs, n, up) => Heads(s, n, up)

LEMMA ReplacedUnused ==
  ASSUME NEW recs \in Seq(RecType), NEW i \in 1 .. Len(recs), recs[i].ino = none,
         NEW name \in Names \cup {".", ".."}, NEW child \in Inode,
         NEW s, s = Inserted(recs, i, name, child)
  PROVE  Gets(recs, s, name, child)
<1> DEFINE r == Record(child, name, recs[i].len)
           n == Len(recs)
<1>1. s = [recs EXCEPT ![i] = r]
  BY DEF Inserted
<1>2. recs[i] \in RecType /\ n \in Nat /\ child # none /\ child \in Inode
  BY ElementOfSeq, LenProperties, InodeGroup
<1>3. r \in RecType /\ r.ino = child /\ r.name = name /\ r.len = recs[i].len
  BY <1>2 DEF Record, RecType
<1> HIDE DEF r
<1>4. /\ s \in Seq(RecType) /\ Len(s) = n /\ s[i] = r
      /\ \A j \in 1 .. n : j # i => s[j] = recs[j]
      /\ LengthOf(s) + recs[i].len = LengthOf(recs) + r.len
  <2>1. Replaces(recs, i, r, [recs EXCEPT ![i] = r])
    BY <1>3, LengthReplaced
  <2> QED BY <1>1, <2>1, Zenon DEF Replaces
<1>5. LengthOf(s) = LengthOf(recs)
  <2>1. LengthOf(s) \in Nat /\ LengthOf(recs) \in Nat /\ r.len \in Nat
    BY <1>2, <1>3, <1>4, LengthSteps DEF RecType
  <2> DEFINE x == LengthOf(s)
             y == LengthOf(recs)
             z == r.len
  <2>2. x + z = y + z /\ x \in Nat /\ y \in Nat /\ z \in Nat
    BY <1>3, <1>4, <2>1
  <2> HIDE DEF x, y, z
  <2>3. x = y
    BY <2>2
  <2> QED BY <2>3 DEF x, y
<1>6. LiveAt(s) = LiveAt(recs) \cup {i} /\ i \notin LiveAt(recs)
  BY <1>2, <1>3, <1>4 DEF LiveAt
<1>7. \A j \in LiveAt(recs) : j # i /\ s[j] = recs[j]
  BY <1>4, <1>6 DEF LiveAt
<1>8. Pairs(s) = Pairs(recs) \cup {<<name, child>>}
  BY <1>3, <1>4, <1>6, <1>7 DEF Pairs
<1>9. Distinct(recs) /\ (\A j \in LiveAt(recs) : recs[j].name # name) => Distinct(s)
  BY <1>3, <1>4, <1>6, <1>7 DEF Distinct
<1>10. ASSUME NEW m \in Inode, NEW up \in Inode, Heads(recs, m, up) PROVE Heads(s, m, up)
  <2>1. m # none /\ up # none
    BY InodeGroup
  <2>2. Len(s) >= 2 /\ 1 \in 1 .. n /\ 2 \in 1 .. n /\ i # 1 /\ i # 2
    BY <1>2, <1>4, <1>10, <2>1 DEF Heads
  <2>3. s[1] = recs[1] /\ s[2] = recs[2]
    BY <1>4, <2>2
  <2> QED BY <1>10, <2>2, <2>3 DEF Heads
<1> QED BY <1>4, <1>5, <1>8, <1>9, <1>10, Zenon DEF Gets

LEMMA PutInSlack ==
  ASSUME NEW recs \in Seq(RecType), NEW i \in 1 .. Len(recs), recs[i].ino # none, recs[i].len > 1,
         NEW name \in Names \cup {".", ".."}, NEW child \in Inode,
         NEW s, s = Inserted(recs, i, name, child)
  PROVE  Gets(recs, s, name, child)
<1> DEFINE n == Len(recs)
           a == SubSeq(recs, 1, i - 1)
           b == SubSeq(recs, i + 1, n)
           x == [recs[i] EXCEPT !.len = 1]
           y == Record(child, name, recs[i].len - 1)
           f(j) == IF j <= i THEN j ELSE j - 1
           g(j) == IF j <= i THEN j ELSE j + 1
<1>1. n \in Nat /\ i \in 1 .. n /\ recs[i] \in RecType /\ child # none /\ child \in Inode
  BY LenProperties, ElementOfSeq, InodeGroup
<1>2. s = (a \o <<x, y>>) \o b
  BY DEF Inserted
<1>3. x \in RecType /\ x.ino = recs[i].ino /\ x.name = recs[i].name /\ x.len = 1
  BY <1>1 DEF RecType
<1>4. y \in RecType /\ y.ino = child /\ y.name = name /\ y.len = recs[i].len - 1
  BY <1>1 DEF RecType, Record
<1>5. Splits(recs, i, a, b)
  BY LengthSplit
<1> HIDE DEF a, b, x, y
<1>6. a \in Seq(RecType) /\ b \in Seq(RecType) /\ Len(a) = i - 1 /\ Len(b) = n - i
  BY <1>5 DEF Splits
<1>7. <<x, y>> \in Seq(RecType) /\ Len(<<x, y>>) = 2 /\ <<x, y>> = <<x>> \o <<y>>
  <2>1. <<x, y>> \in Seq(RecType) /\ Len(<<x, y>>) = 2 /\ <<x>> \in Seq(RecType) /\ Len(<<x>>) = 1
        /\ <<y>> \in Seq(RecType)
    BY <1>3, <1>4
  <2>2. Append(<<x>>, y) = <<x>> \o <<y>>
    BY <1>4, <2>1, AppendIsConcat
  <2>3. Append(<<x>>, y) = <<x, y>>
    <3> DEFINE t == Append(<<x>>, y)
               u == <<x, y>>
    <3>1. t \in Seq(RecType) /\ Len(t) = 2 /\ t[1] = <<x>>[1] /\ t[2] = y
      BY <1>4, <2>1, AppendProperties
    <3>2. u \in Seq(RecType) /\ Len(u) = 2 /\ u[1] = x /\ u[2] = y /\ <<x>>[1] = x
      BY <2>1
    <3> HIDE DEF t, u
    <3>3. \A j \in 1 .. 2 : t[j] = u[j]
      BY <3>1, <3>2
    <3>4. t = u
      BY <3>1, <3>2, <3>3, SeqEqual
    <3> QED BY <3>4 DEF t, u
  <2> QED BY <2>1, <2>2, <2>3, Zenon
<1> DEFINE c == a \o <<x, y>>
<1>8. /\ c \in Seq(RecType) /\ Len(c) = i + 1
      /\ \A j \in 1 .. i + 1 : c[j] = IF j <= i - 1 THEN a[j] ELSE <<x, y>>[j - (i - 1)]
  <2>1. /\ c \in Seq(RecType) /\ Len(c) = Len(a) + Len(<<x, y>>)
        /\ \A j \in 1 .. Len(a) + Len(<<x, y>>) : c[j] = IF j <= Len(a) THEN a[j] ELSE <<x, y>>[j - Len(a)]
    BY <1>6, <1>7, ConcatProperties
  <2>2. Len(a) + Len(<<x, y>>) = i + 1
    BY <1>1, <1>6, <1>7
  <2> QED BY <1>6, <2>1, <2>2, Zenon
<1> HIDE DEF c
<1>9. /\ s \in Seq(RecType) /\ Len(s) = n + 1
      /\ \A j \in 1 .. n + 1 : s[j] = IF j <= i + 1 THEN c[j] ELSE b[j - (i + 1)]
  <2>1. /\ c \o b \in Seq(RecType) /\ Len(c \o b) = Len(c) + Len(b)
        /\ \A j \in 1 .. Len(c) + Len(b) : (c \o b)[j] = IF j <= Len(c) THEN c[j] ELSE b[j - Len(c)]
    BY <1>6, <1>8, ConcatProperties
  <2>2. Len(c) + Len(b) = n + 1
    BY <1>1, <1>6, <1>8
  <2>3. s = c \o b
    BY <1>2 DEF c
  <2> QED BY <1>8, <2>1, <2>2, <2>3, Zenon
<1>10. \A j \in 1 .. i - 1 : s[j] = recs[j]
  <2> SUFFICES ASSUME NEW j \in 1 .. i - 1 PROVE s[j] = recs[j]
    OBVIOUS
  <2>1. j \in 1 .. n + 1 /\ j <= i + 1 /\ j \in 1 .. i + 1 /\ j <= i - 1
    BY <1>1
  <2>2. s[j] = c[j] /\ c[j] = a[j]
    BY <1>8, <1>9, <2>1, Zenon
  <2>3. a[j] = recs[j]
    BY <1>5 DEF Splits
  <2> QED BY <2>2, <2>3
<1>11. s[i] = x /\ s[i + 1] = y
  <2>1. <<x, y>>[1] = x /\ <<x, y>>[2] = y
    OBVIOUS
  <2>2. i \in 1 .. n + 1 /\ i \in 1 .. i + 1 /\ i <= i + 1 /\ ~(i <= i - 1) /\ i - (i - 1) = 1
    BY <1>1
  <2>3. i + 1 \in 1 .. n + 1 /\ i + 1 \in 1 .. i + 1 /\ i + 1 <= i + 1 /\ ~(i + 1 <= i - 1) /\ (i + 1) - (i - 1) = 2
    BY <1>1
  <2>4. c[i] = <<x, y>>[i - (i - 1)] /\ c[i + 1] = <<x, y>>[(i + 1) - (i - 1)]
    BY <1>8, <2>2, <2>3, Zenon
  <2>5. s[i] = c[i] /\ s[i + 1] = c[i + 1]
    BY <1>9, <2>2, <2>3, Zenon
  <2> QED BY <2>1, <2>2, <2>3, <2>4, <2>5, Zenon
<1>12. \A j \in i + 2 .. n + 1 : s[j] = recs[j - 1]
  <2> SUFFICES ASSUME NEW j \in i + 2 .. n + 1 PROVE s[j] = recs[j - 1]
    OBVIOUS
  <2>1. j \in 1 .. n + 1 /\ ~(j <= i + 1) /\ j - (i + 1) \in 1 .. n - i /\ i + (j - (i + 1)) = j - 1
    BY <1>1
  <2>2. s[j] = b[j - (i + 1)]
    BY <1>9, <2>1, Zenon
  <2>3. b[j - (i + 1)] = recs[i + (j - (i + 1))]
    BY <1>5, <2>1, Zenon DEF Splits
  <2> QED BY <2>1, <2>2, <2>3, Zenon
<1>13. \A j \in 1 .. n + 1 : j # i + 1 => /\ f(j) \in 1 .. n
                                          /\ s[j].name = recs[f(j)].name /\ s[j].ino = recs[f(j)].ino
  BY <1>1, <1>3, <1>10, <1>11, <1>12
<1>14. \A j \in 1 .. n : /\ g(j) \in 1 .. n + 1 /\ g(j) # i + 1 /\ f(g(j)) = j
  BY <1>1
<1>15. \A j, k \in 1 .. n + 1 : j # i + 1 /\ k # i + 1 /\ f(j) = f(k) => j = k
  BY <1>1
<1> HIDE DEF f, g
<1>16. i + 1 \in LiveAt(s) /\ \A j \in LiveAt(s) : j # i + 1 => f(j) \in LiveAt(recs)
  <2>1. i + 1 \in 1 .. n + 1
    BY <1>1
  <2> QED BY <1>1, <1>4, <1>9, <1>11, <1>13, <2>1 DEF LiveAt
<1>17. \A j \in LiveAt(recs) : g(j) \in LiveAt(s) /\ s[g(j)].name = recs[j].name /\ s[g(j)].ino = recs[j].ino
  BY <1>9, <1>13, <1>14 DEF LiveAt
<1>18. \A j \in LiveAt(s) : j \in 1 .. n + 1
  BY <1>9 DEF LiveAt
<1>19. Pairs(s) = Pairs(recs) \cup {<<name, child>>}
  <2>1. ASSUME NEW p \in Pairs(s) PROVE p \in Pairs(recs) \cup {<<name, child>>}
    <3>1. PICK j \in LiveAt(s) : p = <<s[j].name, s[j].ino>>
      BY DEF Pairs
    <3>2. CASE j = i + 1
      BY <1>4, <1>11, <3>1, <3>2
    <3>3. CASE j # i + 1
      <4>1. f(j) \in LiveAt(recs) /\ p = <<recs[f(j)].name, recs[f(j)].ino>>
        BY <1>13, <1>16, <1>18, <3>1, <3>3
      <4> QED BY <4>1 DEF Pairs
    <3> QED BY <3>2, <3>3
  <2>2. ASSUME NEW p \in Pairs(recs) PROVE p \in Pairs(s)
    <3>1. PICK j \in LiveAt(recs) : p = <<recs[j].name, recs[j].ino>>
      BY DEF Pairs
    <3>2. g(j) \in LiveAt(s) /\ p = <<s[g(j)].name, s[g(j)].ino>>
      BY <1>17, <3>1
    <3> QED BY <3>2 DEF Pairs
  <2>3. <<name, child>> \in Pairs(s)
    BY <1>4, <1>11, <1>16 DEF Pairs
  <2> QED BY <2>1, <2>2, <2>3
<1>20. ASSUME Distinct(recs), \A j \in LiveAt(recs) : recs[j].name # name PROVE Distinct(s)
  <2> SUFFICES ASSUME NEW j \in LiveAt(s), NEW k \in LiveAt(s), s[j].name = s[k].name PROVE j = k
    BY DEF Distinct
  <2>1. CASE j = i + 1 \/ k = i + 1
    BY <1>4, <1>11, <1>13, <1>16, <1>18, <1>20, <2>1
  <2>2. CASE j # i + 1 /\ k # i + 1
    <3>1. f(j) \in LiveAt(recs) /\ f(k) \in LiveAt(recs) /\ recs[f(j)].name = recs[f(k)].name
      BY <1>13, <1>16, <1>18, <2>2
    <3>2. f(j) = f(k)
      BY <1>20, <3>1, Zenon DEF Distinct
    <3> QED BY <1>15, <1>18, <2>2, <3>2
  <2> QED BY <2>1, <2>2
<1>21. ASSUME NEW m \in Inode, NEW up \in Inode, Heads(recs, m, up) PROVE Heads(s, m, up)
  <2>1. i # 1 /\ Len(s) >= 2 /\ 1 \in 1 .. i - 1
    BY <1>1, <1>9, <1>21 DEF Heads
  <2>2. s[1] = recs[1]
    BY <1>10, <2>1
  <2>3. s[2].name = recs[2].name /\ s[2].ino = recs[2].ino
    BY <1>1, <1>3, <1>10, <1>11, <2>1
  <2> QED BY <1>21, <2>1, <2>2, <2>3 DEF Heads
<1>22. LengthOf(s) = LengthOf(recs)
  <2>1. LengthOf(s) = LengthOf(c) + LengthOf(b)
    BY <1>2, <1>6, <1>8, LengthConcat DEF c
  <2>2. LengthOf(c) = LengthOf(a) + LengthOf(<<x, y>>)
    BY <1>6, <1>7, LengthConcat DEF c
  <2>3. LengthOf(<<x, y>>) = 1 + (recs[i].len - 1)
    <3>1. <<x>> \in Seq(RecType) /\ <<y>> \in Seq(RecType) /\ LengthOf(<<x>>) = 1
          /\ LengthOf(<<y>>) = recs[i].len - 1
      BY <1>3, <1>4, LengthOfOne
    <3>2. LengthOf(<<x>> \o <<y>>) = LengthOf(<<x>>) + LengthOf(<<y>>)
      BY <3>1, LengthConcat
    <3> QED BY <1>7, <3>1, <3>2, Zenon
  <2>4. LengthOf(recs) = LengthOf(a) + (recs[i].len + LengthOf(b))
    BY <1>5 DEF Splits
  <2> DEFINE p == LengthOf(s)
             q == LengthOf(c)
             r == LengthOf(a)
             t == LengthOf(b)
             u == LengthOf(<<x, y>>)
             w == LengthOf(recs)
             l == recs[i].len
  <2>5. p = q + t /\ q = r + u /\ u = 1 + (l - 1) /\ w = r + (l + t)
        /\ r \in Nat /\ t \in Nat /\ l \in Nat
    BY <1>1, <1>6, <2>1, <2>2, <2>3, <2>4, LengthSteps DEF RecType
  <2> HIDE DEF p, q, r, t, u, w, l
  <2>6. p = w
    BY <2>5
  <2> QED BY <2>6 DEF p, w
<1> QED BY <1>9, <1>19, <1>20, <1>21, <1>22, Zenon DEF Gets

LEMMA InsertedGets ==
  ASSUME NEW recs \in Seq(RecType), NEW i \in 1 .. Len(recs), recs[i].ino = none \/ recs[i].len > 1,
         NEW name \in Names \cup {".", ".."}, NEW child \in Inode
  PROVE  Gets(recs, Inserted(recs, i, name, child), name, child)
<1>1. CASE recs[i].ino = none
  BY <1>1, ReplacedUnused
<1>2. CASE recs[i].ino # none
  BY <1>2, PutInSlack
<1> QED BY <1>1, <1>2

\* What removeEntry makes of a block's records.
Removed(recs, i) ==
  IF i = 1 THEN [recs EXCEPT ![1].ino = none]
  ELSE [RemoveAt(recs, i) EXCEPT ![i - 1].len = @ + recs[i].len]

\* s is recs with one entry less.
Loses(recs, s, name, child) ==
  /\ s \in Seq(RecType) /\ LengthOf(s) = LengthOf(recs)
  /\ Distinct(recs) => Distinct(s) /\ Pairs(s) = Pairs(recs) \ {<<name, child>>}
  /\ name \notin {".", ".."} => \A n, up \in Inode : Heads(recs, n, up) => Heads(s, n, up)

LEMMA RemovedFirst ==
  ASSUME NEW recs \in Seq(RecType), 1 \in LiveAt(recs),
         NEW s, s = [recs EXCEPT ![1].ino = none]
  PROVE  Loses(recs, s, recs[1].name, recs[1].ino)
<1> DEFINE r == [recs[1] EXCEPT !.ino = none]
           n == Len(recs)
           name == recs[1].name
           child == recs[1].ino
<1>1. 1 \in 1 .. n /\ recs[1] \in RecType /\ n \in Nat /\ child # none
  BY ElementOfSeq, LenProperties DEF LiveAt
<1>2. s = [recs EXCEPT ![1] = r]
  OBVIOUS
<1>3. r \in RecType /\ r.ino = none /\ r.len = recs[1].len
  BY <1>1 DEF RecType
<1> HIDE DEF r
<1>4. Replaces(recs, 1, r, s)
  <2>1. Replaces(recs, 1, r, [recs EXCEPT ![1] = r])
    BY <1>1, <1>3, LengthReplaced, Zenon
  <2> QED BY <1>2, <2>1, Zenon
<1>5. s \in Seq(RecType) /\ Len(s) = n /\ s[1] = r /\ \A j \in 1 .. n : j # 1 => s[j] = recs[j]
  BY <1>4 DEF Replaces
<1>6. LengthOf(s) = LengthOf(recs)
  <2>1. LengthOf(s) \in Nat /\ LengthOf(recs) \in Nat /\ r.len \in Nat
    BY <1>3, <1>5, LengthSteps DEF RecType
  <2>2. LengthOf(s) + recs[1].len = LengthOf(recs) + r.len
    BY <1>4 DEF Replaces
  <2> DEFINE x == LengthOf(s)
             y == LengthOf(recs)
             z == r.len
  <2>3. x + z = y + z /\ x \in Nat /\ y \in Nat /\ z \in Nat
    BY <1>3, <2>1, <2>2
  <2> HIDE DEF x, y, z
  <2>4. x = y
    BY <2>3
  <2> QED BY <2>4 DEF x, y
<1>7. LiveAt(s) = LiveAt(recs) \ {1}
  BY <1>3, <1>5 DEF LiveAt
<1>8. \A j \in LiveAt(s) : j \in LiveAt(recs) /\ j # 1 /\ s[j] = recs[j]
  BY <1>5, <1>7 DEF LiveAt
<1>9. ASSUME Distinct(recs) PROVE Distinct(s) /\ Pairs(s) = Pairs(recs) \ {<<name, child>>}
  <2>1. Distinct(s)
    BY <1>8, <1>9 DEF Distinct
  <2>2. ASSUME NEW p \in Pairs(s) PROVE p \in Pairs(recs) \ {<<name, child>>}
    <3>1. PICK j \in LiveAt(s) : p = <<s[j].name, s[j].ino>>
      BY DEF Pairs
    <3>2. j \in LiveAt(recs) /\ j # 1 /\ s[j] = recs[j]
      BY <1>8
    <3>3. recs[j].name # name
      BY <1>9, <3>2 DEF Distinct
    <3> QED BY <3>1, <3>2, <3>3 DEF Pairs
  <2>3. ASSUME NEW p \in Pairs(recs), p # <<name, child>> PROVE p \in Pairs(s)
    <3>1. PICK j \in LiveAt(recs) : p = <<recs[j].name, recs[j].ino>>
      BY DEF Pairs
    <3>2. j \in LiveAt(s) /\ s[j] = recs[j]
      BY <1>7, <1>8, <2>3, <3>1
    <3> QED BY <3>1, <3>2 DEF Pairs
  <2> QED BY <2>1, <2>2, <2>3
<1>10. ASSUME name \notin {".", ".."}, NEW m \in Inode, NEW up \in Inode, Heads(recs, m, up) PROVE Heads(s, m, up)
  BY <1>10 DEF Heads
<1> HIDE DEF name, child
<1>11. Loses(recs, s, name, child)
  BY <1>5, <1>6, <1>9, <1>10, Zenon DEF Loses
<1> QED BY <1>11 DEF name, child

LEMMA Longer ==
  ASSUME NEW y \in RecType, NEW l \in Nat, NEW x, x = [y EXCEPT !.len = @ + l]
  PROVE  x \in RecType /\ x.ino = y.ino /\ x.name = y.name /\ x.len = y.len + l
<1>1. y \in [ino: {none} \cup Inode, name: Names \cup {".", ".."}, len: Nat]
  BY DEF RecType
<1>2. y.len + l \in Nat
  BY <1>1
<1>3. x = [y EXCEPT !.len = y.len + l]
  BY Zenon
<1>4. x \in [ino: {none} \cup Inode, name: Names \cup {".", ".."}, len: Nat]
  BY <1>1, <1>2, <1>3
<1> QED BY <1>1, <1>3, <1>4 DEF RecType

LEMMA RemovedLater ==
  ASSUME NEW recs \in Seq(RecType), NEW i \in LiveAt(recs), i # 1,
         NEW s, s = [RemoveAt(recs, i) EXCEPT ![i - 1].len = @ + recs[i].len]
  PROVE  Loses(recs, s, recs[i].name, recs[i].ino)
<1> DEFINE n == Len(recs)
           a == SubSeq(recs, 1, i - 1)
           b == SubSeq(recs, i + 1, n)
           q == a \o b
           x == [q[i - 1] EXCEPT !.len = @ + recs[i].len]
           name == recs[i].name
           child == recs[i].ino
           f(j) == IF j < i THEN j ELSE j + 1
           g(j) == IF j < i THEN j ELSE j - 1
<1>1. n \in Nat /\ i \in 1 .. n /\ i - 1 \in 1 .. n /\ recs[i] \in RecType /\ recs[i - 1] \in RecType /\ child # none
  BY LenProperties, ElementOfSeq DEF LiveAt
<1>2. Splits(recs, i, a, b)
  BY <1>1, LengthSplit
<1>3. s = [q EXCEPT ![i - 1] = x]
  BY DEF RemoveAt
<1> HIDE DEF a, b, x
<1>4. a \in Seq(RecType) /\ b \in Seq(RecType) /\ Len(a) = i - 1 /\ Len(b) = n - i
  BY <1>2 DEF Splits
<1>5. /\ q \in Seq(RecType) /\ Len(q) = n - 1
      /\ \A j \in 1 .. n - 1 : q[j] = IF j <= i - 1 THEN a[j] ELSE b[j - (i - 1)]
  <2>1. /\ q \in Seq(RecType) /\ Len(q) = Len(a) + Len(b)
        /\ \A j \in 1 .. Len(a) + Len(b) : q[j] = IF j <= Len(a) THEN a[j] ELSE b[j - Len(a)]
    BY <1>4, ConcatProperties
  <2>2. Len(a) + Len(b) = n - 1
    BY <1>1, <1>4
  <2> QED BY <1>4, <2>1, <2>2, Zenon
<1> HIDE DEF q
<1>6. \A j \in 1 .. n - 1 : q[j] = recs[f(j)] /\ f(j) \in 1 .. n /\ f(j) # i
  <2> SUFFICES ASSUME NEW j \in 1 .. n - 1 PROVE q[j] = recs[f(j)] /\ f(j) \in 1 .. n /\ f(j) # i
    OBVIOUS
  <2>1. CASE j < i
    <3>1. j <= i - 1 /\ j \in 1 .. i - 1 /\ f(j) = j /\ f(j) \in 1 .. n /\ f(j) # i
      BY <1>1, <2>1
    <3>2. q[j] = a[j]
      BY <1>5, <3>1, Zenon
    <3>3. a[j] = recs[j]
      BY <1>2, <3>1, Zenon DEF Splits
    <3> HIDE DEF f
    <3> QED BY <3>1, <3>2, <3>3, Zenon
  <2>2. CASE ~(j < i)
    <3>0. i \in Nat /\ j \in Nat /\ n \in Nat /\ j <= n - 1 /\ i >= 1 /\ j >= i
      BY <1>1, <2>2
    <3>1. ~(j <= i - 1) /\ j - (i - 1) \in 1 .. n - i /\ i + (j - (i - 1)) = j + 1 /\ f(j) = j + 1
          /\ f(j) \in 1 .. n /\ f(j) # i
      <4>1. j - (i - 1) \in 1 .. n - i
        BY <3>0
      <4>2. i + (j - (i - 1)) = j + 1 /\ ~(j <= i - 1)
        BY <3>0
      <4>3. f(j) = j + 1
        BY <3>0
      <4>4. j + 1 \in 1 .. n /\ j + 1 # i
        BY <3>0
      <4> QED BY <4>1, <4>2, <4>3, <4>4
    <3>2. q[j] = b[j - (i - 1)]
      BY <1>5, <3>1, Zenon
    <3>3. b[j - (i - 1)] = recs[i + (j - (i - 1))]
      BY <1>2, <3>1, Zenon DEF Splits
    <3> HIDE DEF f
    <3> QED BY <3>1, <3>2, <3>3, Zenon
  <2> QED BY <2>1, <2>2
<1>7. i - 1 \in 1 .. n - 1 /\ q[i - 1] = recs[i - 1]
  <2>1. i - 1 \in 1 .. n - 1 /\ f(i - 1) = i - 1
    BY <1>1
  <2> HIDE DEF f
  <2> QED BY <1>6, <2>1
<1>8. x \in RecType /\ x.ino = recs[i - 1].ino /\ x.name = recs[i - 1].name /\ x.len = recs[i - 1].len + recs[i].len
  <2> DEFINE y == recs[i - 1]
             l == recs[i].len
  <2>1. x = [y EXCEPT !.len = @ + l]
    BY <1>7 DEF x
  <2>2. y \in RecType /\ l \in Nat
    BY <1>1 DEF RecType
  <2> HIDE DEF y, l
  <2>3. x \in RecType /\ x.ino = y.ino /\ x.name = y.name /\ x.len = y.len + l
    BY <2>1, <2>2, Longer, Zenon
  <2> QED BY <2>3 DEF y, l
<1>9. Replaces(q, i - 1, x, s)
  <2>1. i - 1 \in 1 .. Len(q)
    BY <1>5, <1>7
  <2>2. Replaces(q, i - 1, x, [q EXCEPT ![i - 1] = x])
    BY <1>5, <1>8, <2>1, LengthReplaced, Zenon
  <2> QED BY <1>3, <2>2, Zenon
<1>10. s \in Seq(RecType) /\ Len(s) = n - 1 /\ s[i - 1] = x /\ \A j \in 1 .. n - 1 : j # i - 1 => s[j] = q[j]
  BY <1>5, <1>9 DEF Replaces
<1>11. \A j \in 1 .. n - 1 : /\ f(j) \in 1 .. n /\ f(j) # i
                             /\ s[j].name = recs[f(j)].name /\ s[j].ino = recs[f(j)].ino
  <2> SUFFICES ASSUME NEW j \in 1 .. n - 1
               PROVE  /\ f(j) \in 1 .. n /\ f(j) # i
                      /\ s[j].name = recs[f(j)].name /\ s[j].ino = recs[f(j)].ino
    OBVIOUS
  <2>1. f(j) \in 1 .. n /\ f(j) # i /\ q[j] = recs[f(j)]
    BY <1>6
  <2>2. CASE j = i - 1
    <3>1. f(j) = i - 1
      BY <1>1, <2>2
    <3> HIDE DEF f
    <3> QED BY <1>8, <1>10, <2>1, <2>2, <3>1
  <2>3. CASE j # i - 1
    <3> HIDE DEF f
    <3> QED BY <1>10, <2>1, <2>3
  <2> QED BY <2>2, <2>3
<1>12. \A j \in 1 .. n : j # i => g(j) \in 1 .. n - 1 /\ f(g(j)) = j
  BY <1>1
<1>13. \A j, k \in 1 .. n - 1 : f(j) = f(k) => j = k
  BY <1>1
<1> HIDE DEF f, g
<1>14. \A j \in LiveAt(s) : j \in 1 .. n - 1 /\ f(j) \in LiveAt(recs) /\ f(j) # i
  BY <1>10, <1>11 DEF LiveAt
<1>15. \A j \in LiveAt(recs) : j # i => /\ g(j) \in LiveAt(s) /\ s[g(j)].name = recs[j].name
                                        /\ s[g(j)].ino = recs[j].ino
  BY <1>10, <1>11, <1>12 DEF LiveAt
<1>16. ASSUME Distinct(recs) PROVE Distinct(s) /\ Pairs(s) = Pairs(recs) \ {<<name, child>>}
  <2>1. Distinct(s)
    <3> SUFFICES ASSUME NEW j \in LiveAt(s), NEW k \in LiveAt(s), s[j].name = s[k].name PROVE j = k
      BY DEF Distinct
    <3>1. f(j) \in LiveAt(recs) /\ f(k) \in LiveAt(recs) /\ recs[f(j)].name = recs[f(k)].name
      BY <1>11, <1>14
    <3>2. f(j) = f(k)
      BY <1>16, <3>1, Zenon DEF Distinct
    <3> QED BY <1>13, <1>14, <3>2
  <2>2. ASSUME NEW p \in Pairs(s) PROVE p \in Pairs(recs) \ {<<name, child>>}
    <3>1. PICK j \in LiveAt(s) : p = <<s[j].name, s[j].ino>>
      BY DEF Pairs
    <3>2. f(j) \in LiveAt(recs) /\ f(j) # i /\ p = <<recs[f(j)].name, recs[f(j)].ino>>
      BY <1>11, <1>14, <3>1
    <3>3. recs[f(j)].name # name
      BY <1>16, <3>2 DEF Distinct
    <3> QED BY <3>2, <3>3 DEF Pairs
  <2>3. ASSUME NEW p \in Pairs(recs), p # <<name, child>> PROVE p \in Pairs(s)
    <3>1. PICK j \in LiveAt(recs) : p = <<recs[j].name, recs[j].ino>>
      BY DEF Pairs
    <3>2. j # i
      BY <2>3, <3>1
    <3>3. g(j) \in LiveAt(s) /\ p = <<s[g(j)].name, s[g(j)].ino>>
      BY <1>15, <3>1, <3>2
    <3> QED BY <3>3 DEF Pairs
  <2> QED BY <2>1, <2>2, <2>3
<1>17. ASSUME name \notin {".", ".."}, NEW m \in Inode, NEW up \in Inode, Heads(recs, m, up)
       PROVE  Heads(s, m, up)
  <2>1. i # 2 /\ n >= 2
    BY <1>1, <1>17 DEF Heads
  <2>2. Len(s) >= 2 /\ 1 \in 1 .. n - 1 /\ 2 \in 1 .. n - 1 /\ 1 # i - 1
    BY <1>1, <1>10, <2>1
  <2>3. f(1) = 1 /\ f(2) = 2
    BY <1>1, <2>1 DEF f
  <2>4. s[1] = q[1] /\ q[1] = recs[1]
    BY <1>6, <1>10, <2>2, <2>3
  <2>5. s[2].name = recs[2].name /\ s[2].ino = recs[2].ino
    BY <1>11, <2>2, <2>3
  <2> QED BY <1>17, <2>2, <2>4, <2>5 DEF Heads
<1>18. LengthOf(s) = LengthOf(recs)
  <2>1. LengthOf(s) + recs[i - 1].len = LengthOf(q) + x.len
    BY <1>7, <1>9 DEF Replaces
  <2>2. LengthOf(q) = LengthOf(a) + LengthOf(b)
    BY <1>4, LengthConcat DEF q
  <2>3. LengthOf(recs) = LengthOf(a) + (recs[i].len + LengthOf(b))
    BY <1>2 DEF Splits
  <2> DEFINE p == LengthOf(s)
             t == LengthOf(q)
             u == LengthOf(a)
             w == LengthOf(b)
             z == LengthOf(recs)
             k == recs[i - 1].len
             l == recs[i].len
             m == x.len
  <2>4. p + k = t + m /\ t = u + w /\ z = u + (l + w) /\ m = k + l
        /\ p \in Nat /\ u \in Nat /\ w \in Nat /\ k \in Nat /\ l \in Nat
    BY <1>1, <1>4, <1>8, <1>10, <2>1, <2>2, <2>3, LengthSteps DEF RecType
  <2> HIDE DEF p, t, u, w, z, k, l, m
  <2>5. p = z
    BY <2>4
  <2> QED BY <2>5 DEF p, z
<1> HIDE DEF name, child
<1>19. Loses(recs, s, name, child)
  BY <1>10, <1>16, <1>17, <1>18, Zenon DEF Loses
<1> QED BY <1>19 DEF name, child

LEMMA RemovedLoses ==
  ASSUME NEW recs \in Seq(RecType), NEW i \in LiveAt(recs)
  PROVE  Loses(recs, Removed(recs, i), recs[i].name, recs[i].ino)
  BY RemovedFirst, RemovedLater DEF Removed

--------------------------------------------------------------------------------
(* Extents *)

Rank(s, j) == Cardinality({h \in Starts(s) : h <= j})

LEMMA StartsIn ==
  ASSUME NEW s \in Seq(Block)
  PROVE  /\ Starts(s) \subseteq 1 .. Len(s) /\ IsFiniteSet(Starts(s)) /\ Cardinality(Starts(s)) \in Nat
         /\ \A j : IsFiniteSet({h \in Starts(s) : h <= j}) /\ Rank(s, j) \in Nat
<1>1. Starts(s) \subseteq 1 .. Len(s)
  BY DEF Starts
<1>2. IsFiniteSet(1 .. Len(s))
  BY LenProperties, FS_Interval
<1>3. IsFiniteSet(Starts(s))
  BY <1>1, <1>2, FS_Subset
<1>4. ASSUME NEW j PROVE IsFiniteSet({h \in Starts(s) : h <= j}) /\ Rank(s, j) \in Nat
  <2>1. {h \in Starts(s) : h <= j} \in SUBSET Starts(s)
    OBVIOUS
  <2>2. IsFiniteSet({h \in Starts(s) : h <= j})
    BY <1>3, <2>1, FS_Subset
  <2> QED BY <2>2, FS_CardinalityType DEF Rank
<1> QED BY <1>1, <1>3, <1>4, FS_CardinalityType

\* The number of extents that begin up to a place.
LEMMA RankSteps ==
  ASSUME NEW s \in Seq(Block)
  PROVE  /\ Rank(s, 0) = 0 /\ Rank(s, Len(s)) = Cardinality(Starts(s))
         /\ \A j \in 1 .. Len(s) : Rank(s, j) = IF j \in Starts(s) THEN Rank(s, j - 1) + 1 ELSE Rank(s, j - 1)
<1> DEFINE Up(j) == {h \in Starts(s) : h <= j}
<1>1. Len(s) \in Nat
  BY LenProperties
<1>2. Up(0) = {} /\ Up(Len(s)) = Starts(s)
  BY <1>1, StartsIn
<1>3. Rank(s, 0) = 0 /\ Rank(s, Len(s)) = Cardinality(Starts(s))
  <2>1. Cardinality(Up(0)) = 0
    BY <1>2, FS_EmptySet
  <2>2. Cardinality(Up(Len(s))) = Cardinality(Starts(s))
    BY <1>2
  <2> QED BY <2>1, <2>2 DEF Rank
<1>4. ASSUME NEW j \in 1 .. Len(s)
      PROVE  Rank(s, j) = IF j \in Starts(s) THEN Rank(s, j - 1) + 1 ELSE Rank(s, j - 1)
  <2>1. Starts(s) \subseteq Nat
    BY <1>1, StartsIn
  <2>2. CASE j \in Starts(s)
    <3>1. Up(j) = Up(j - 1) \cup {j} /\ j \notin Up(j - 1)
      BY <2>1, <2>2
    <3>2. IsFiniteSet(Up(j - 1))
      BY StartsIn
    <3> HIDE DEF Up
    <3>3. Cardinality(Up(j - 1) \cup {j}) = Cardinality(Up(j - 1)) + 1
      BY <3>1, <3>2, FS_AddElement
    <3>4. Cardinality(Up(j)) = Cardinality(Up(j - 1)) + 1
      BY <3>1, <3>3
    <3> QED BY <2>2, <3>4 DEF Rank, Up
  <2>3. CASE j \notin Starts(s)
    <3>1. Up(j) = Up(j - 1)
      BY <2>1, <2>3
    <3> QED BY <2>3, <3>1 DEF Rank
  <2> QED BY <2>2, <2>3
<1> QED BY <1>3, <1>4

LEMMA StartsMore ==
  ASSUME NEW s \in Seq(Block), NEW b \in Block
  PROVE  Cardinality(Starts(Append(s, b))) <= Cardinality(Starts(s)) + 1
<1> DEFINE t == Append(s, b)
           n == Len(s)
<1>1. n \in Nat /\ t \in Seq(Block) /\ Len(t) = n + 1 /\ \A j \in 1 .. n : t[j] = s[j]
  BY LenProperties, AppendProperties
<1> HIDE DEF t
<1>2. Starts(t) \subseteq Starts(s) \cup {n + 1}
  <2> SUFFICES ASSUME NEW i \in Starts(t), i # n + 1 PROVE i \in Starts(s)
    OBVIOUS
  <2>1. i \in 1 .. n /\ (i = 1 \/ (i - 1 \in 1 .. n /\ t[i] # t[i - 1] + 1))
    BY <1>1 DEF Starts
  <2>2. i = 1 \/ s[i] # s[i - 1] + 1
    BY <1>1, <2>1
  <2> QED BY <2>1, <2>2 DEF Starts
<1>3. IsFiniteSet(Starts(s)) /\ Cardinality(Starts(s)) \in Nat /\ n + 1 \notin Starts(s)
  BY <1>1, StartsIn
<1>4. IsFiniteSet(Starts(s) \cup {n + 1}) /\ Cardinality(Starts(s) \cup {n + 1}) = Cardinality(Starts(s)) + 1
  BY <1>3, FS_AddElement
<1>5. Cardinality(Starts(t)) <= Cardinality(Starts(s) \cup {n + 1})
  BY <1>2, <1>4, FS_Subset
<1> QED BY <1>4, <1>5 DEF t

LEMMA FitsSpec ==
  ASSUME NEW s \in Seq(Block), NEW b \in Block, NEW n \in Nat
  PROVE  /\ n >= 1 => Fits(<<b>>, n)
         /\ Fits(<<>>, n)
         /\ \A m \in Nat : Fits(s, n) /\ m > n => Fits(Append(s, b), m) /\ Fits(s, m)
<1>1. Starts(<<>>) = {}
  BY DEF Starts
<1>2. Cardinality(Starts(<<>>)) = 0
  BY <1>1, FS_EmptySet
<1>3. <<>> \in Seq(Block) /\ Append(<<>>, b) = <<b>>
  BY EmptySeq
<1>4. Cardinality(Starts(<<b>>)) <= 0 + 1
  BY <1>2, <1>3, StartsMore
<1>5. <<b>> \in Seq(Block)
  OBVIOUS
<1>6. Cardinality(Starts(<<b>>)) \in Nat /\ Cardinality(Starts(s)) \in Nat /\ Cardinality(Starts(Append(s, b))) \in Nat
  BY <1>5, StartsIn, AppendProperties
<1>7. Cardinality(Starts(Append(s, b))) <= Cardinality(Starts(s)) + 1
  BY StartsMore
<1> DEFINE x == Cardinality(Starts(<<b>>))
           y == Cardinality(Starts(s))
           z == Cardinality(Starts(Append(s, b)))
<1> HIDE DEF x, y, z
<1>8. x \in Nat /\ y \in Nat /\ z \in Nat /\ x <= 1 /\ z <= y + 1
  BY <1>4, <1>6, <1>7 DEF x, y, z
<1>9. (n >= 1 => x <= n) /\ 0 <= n /\ \A m \in Nat : y <= n /\ m > n => z <= m /\ y <= m
  BY <1>8
<1> QED BY <1>2, <1>9 DEF Fits, x, y, z

\* Sequences without repetition.
Inj(s) == \A i, j \in 1 .. Len(s) : s[i] = s[j] => i = j

\* Two places of one extent.
LEMMA SameExtent ==
  ASSUME NEW s \in Seq(Block), NEW i \in 1 .. Len(s), NEW j \in 1 .. Len(s), Rank(s, i) = Rank(s, j)
  PROVE  GroupOfBlock(s[i]) = GroupOfBlock(s[j])
<1> DEFINE n == Len(s)
<1>1. n \in Nat /\ \A k \in 1 .. n : s[k] \in Block /\ Rank(s, k) \in Nat /\ Rank(s, k - 1) \in Nat
  BY LenProperties, ElementOfSeq, StartsIn
\* From a place on, the rank grows, and stays the same in one group.
<1> DEFINE T(k) == {m \in Nat : k + m \in 1 .. n =>
                      (Rank(s, k) <= Rank(s, k + m)
                       /\ (Rank(s, k) = Rank(s, k + m) => GroupOfBlock(s[k]) = GroupOfBlock(s[k + m])))}
<1>2. ASSUME NEW k \in 1 .. n PROVE T(k) = Nat
  <2>1. 0 \in T(k)
    <3>1. k + 0 = k /\ Rank(s, k) <= Rank(s, k)
      BY <1>1
    <3> QED BY <3>1
  <2>2. ASSUME NEW m \in T(k) PROVE m + 1 \in T(k)
    <3> SUFFICES ASSUME k + (m + 1) \in 1 .. n
                 PROVE  /\ Rank(s, k) <= Rank(s, k + (m + 1))
                        /\ Rank(s, k) = Rank(s, k + (m + 1)) => GroupOfBlock(s[k]) = GroupOfBlock(s[k + (m + 1)])
      OBVIOUS
    <3> DEFINE x == k + m
               y == k + (m + 1)
    <3>1. m \in Nat /\ x \in 1 .. n /\ y \in 1 .. n /\ y = x + 1 /\ y - 1 = x /\ y # 1
      BY <1>1
    <3>2. Rank(s, k) <= Rank(s, x) /\ (Rank(s, k) = Rank(s, x) => GroupOfBlock(s[k]) = GroupOfBlock(s[x]))
      <4>1. m \in T(k)
        BY <2>2
      <4>2. k + m \in 1 .. n
        BY <3>1
      <4>3. k + m \in 1 .. n =>
             (Rank(s, k) <= Rank(s, k + m)
              /\ (Rank(s, k) = Rank(s, k + m) => GroupOfBlock(s[k]) = GroupOfBlock(s[k + m])))
        BY <4>1
      <4> QED BY <4>2, <4>3
    <3> HIDE DEF x, y, T
    <3>3. Rank(s, y) = IF y \in Starts(s) THEN Rank(s, x) + 1 ELSE Rank(s, x)
      BY <3>1, RankSteps
    <3>4. Rank(s, k) \in Nat /\ Rank(s, x) \in Nat /\ Rank(s, y) \in Nat
      BY <1>1, <3>1
    <3>5. Rank(s, k) <= Rank(s, y)
      BY <3>2, <3>3, <3>4
    <3>6. ASSUME Rank(s, k) = Rank(s, y) PROVE GroupOfBlock(s[k]) = GroupOfBlock(s[y])
      <4>1. y \notin Starts(s) /\ Rank(s, k) = Rank(s, x)
        BY <3>2, <3>3, <3>4, <3>6
      <4>2. s[y] = s[x] + 1
        BY <3>1, <4>1 DEF Starts
      <4>3. s[x] \in Block /\ s[y] \in Block
        BY <1>1, <3>1
      <4>4. GroupOfBlock(s[y]) = GroupOfBlock(s[x])
        BY <4>2, <4>3, Neighbours
      <4> QED BY <3>2, <4>1, <4>4
    <3> QED BY <3>5, <3>6 DEF y
  <2>3. T(k) \in SUBSET Nat
    OBVIOUS
  <2> HIDE DEF T
  <2> QED BY <2>1, <2>2, <2>3, HandedOn
<1>3. ASSUME NEW k \in 1 .. n, NEW l \in 1 .. n, k <= l, Rank(s, k) = Rank(s, l)
      PROVE  GroupOfBlock(s[k]) = GroupOfBlock(s[l])
  <2>1. PICK m \in Nat : k + m = l
    <3>1. l - k \in Nat /\ k + (l - k) = l
      BY <1>1, <1>3
    <3> QED BY <3>1
  <2>2. T(k) = Nat
    BY <1>2
  <2>3. m \in T(k)
    <3> HIDE DEF T
    <3> QED BY <2>1, <2>2
  <2>4. k + m \in 1 .. n
    BY <2>1
  <2>5. k + m \in 1 .. n =>
         (Rank(s, k) <= Rank(s, k + m)
          /\ (Rank(s, k) = Rank(s, k + m) => GroupOfBlock(s[k]) = GroupOfBlock(s[k + m])))
    BY <2>3
  <2> HIDE DEF T, n
  <2> QED BY <1>3, <2>1, <2>4, <2>5
<1>4. i <= j \/ j <= i
  BY <1>1
<1> QED BY <1>3, <1>4

\* Every number of an extent is the rank of a place.
LEMMA RankTaken ==
  ASSUME NEW s \in Seq(Block), NEW k \in 1 .. Cardinality(Starts(s))
  PROVE  \E j \in 1 .. Len(s) : Rank(s, j) = k
<1> DEFINE n == Len(s)
           T == {j \in Nat : j <= n /\ Rank(s, j) >= k}
<1>1. n \in Nat /\ Cardinality(Starts(s)) \in Nat /\ k \in Nat /\ k >= 1 /\ k <= Cardinality(Starts(s))
  BY LenProperties, StartsIn
<1>2. n \in T
  BY <1>1, RankSteps
<1>3. PICK j \in T : \A y \in T : j <= y
  <2>1. T \in SUBSET Nat /\ T # {}
    BY <1>2
  <2> HIDE DEF T
  <2> QED BY <2>1, LeastOf
<1>4. j # 0
  BY <1>1, <1>3, RankSteps
<1>5. j \in 1 .. n /\ j - 1 \in Nat /\ ~(j - 1 >= j) /\ j - 1 <= n
  BY <1>1, <1>3, <1>4
<1>6. Rank(s, j - 1) \in Nat /\ Rank(s, j) \in Nat
  BY StartsIn
<1>7. ~(Rank(s, j - 1) >= k)
  <2>1. j - 1 \notin T
    BY <1>3, <1>5
  <2> QED BY <1>5, <2>1
<1>8. Rank(s, j) = IF j \in Starts(s) THEN Rank(s, j - 1) + 1 ELSE Rank(s, j - 1)
  BY <1>5, RankSteps
<1>9. Rank(s, j) >= k
  BY <1>3
<1>10. Rank(s, j) = k
  BY <1>1, <1>6, <1>7, <1>8, <1>9
<1> QED BY <1>5, <1>10

\* What a rank is.
LEMMA RankIn ==
  ASSUME NEW s \in Seq(Block), NEW j \in 1 .. Len(s)
  PROVE  Rank(s, j) \in 1 .. Cardinality(Starts(s))
<1>1. Rank(s, j) \in Nat /\ Cardinality(Starts(s)) \in Nat /\ IsFiniteSet(Starts(s)) /\ Len(s) \in Nat
  BY StartsIn, LenProperties
<1>2. 1 \in {h \in Starts(s) : h <= j}
  BY <1>1 DEF Starts
<1>3. Rank(s, j) # 0
  <2>1. IsFiniteSet({h \in Starts(s) : h <= j})
    BY StartsIn
  <2> QED BY <1>2, <2>1, FS_EmptySet DEF Rank
<1>4. Rank(s, j) <= Cardinality(Starts(s))
  <2>1. {h \in Starts(s) : h <= j} \subseteq Starts(s)
    OBVIOUS
  <2> QED BY <1>1, <2>1, FS_Subset DEF Rank
<1> HIDE DEF Rank
<1> QED BY <1>1, <1>3, <1>4

\* A sequence of runs: each of used blocks of one group, no two with a block in
\* common, all of S.
Cuts(runs, S) ==
  /\ runs \in Seq(SUBSET Block)
  /\ \A k \in 1 .. Len(runs) : runs[k] # {} /\ \E g \in Group : runs[k] \subseteq BlocksOf(g)
  /\ \A k, l \in 1 .. Len(runs) : k # l => runs[k] \cap runs[l] = {}
  /\ S = UNION {runs[k] : k \in 1 .. Len(runs)}

LEMMA CutsNothing == Cuts(<<>>, {})
<1>1. <<>> \in Seq(SUBSET Block) /\ Len(<<>>) = 0
  BY EmptySeq
<1>2. 1 .. Len(<<>>) = {}
  BY <1>1
<1> QED BY <1>1, <1>2 DEF Cuts

LEMMA CutsBoth ==
  ASSUME NEW r, NEW t, NEW S, NEW T, Cuts(r, S), Cuts(t, T), S \cap T = {}
  PROVE  Cuts(r \o t, S \cup T)
<1> DEFINE c == r \o t
           m == Len(r)
           n == Len(t)
<1>1. r \in Seq(SUBSET Block) /\ t \in Seq(SUBSET Block)
  BY DEF Cuts
<1>2. c \in Seq(SUBSET Block) /\ Len(c) = m + n /\ m \in Nat /\ n \in Nat
      /\ \A k \in 1 .. m + n : c[k] = IF k <= m THEN r[k] ELSE t[k - m]
  BY <1>1, ConcatProperties, LenProperties
<1> HIDE DEF c, m, n
<1>3. ASSUME NEW k \in 1 .. m + n, k <= m PROVE k \in 1 .. m /\ c[k] = r[k]
  BY <1>2, <1>3
<1>4. ASSUME NEW k \in 1 .. m + n, ~(k <= m) PROVE k - m \in 1 .. n /\ c[k] = t[k - m]
  BY <1>2, <1>4
<1>5. ASSUME NEW k \in 1 .. m PROVE r[k] # {} /\ r[k] \subseteq S /\ \E g \in Group : r[k] \subseteq BlocksOf(g)
  BY <1>5 DEF Cuts, m
<1>6. ASSUME NEW k \in 1 .. n PROVE t[k] # {} /\ t[k] \subseteq T /\ \E g \in Group : t[k] \subseteq BlocksOf(g)
  BY <1>6 DEF Cuts, n
<1>7. ASSUME NEW k \in 1 .. m + n PROVE c[k] # {} /\ \E g \in Group : c[k] \subseteq BlocksOf(g)
  BY <1>3, <1>4, <1>5, <1>6
<1>8. ASSUME NEW k \in 1 .. m + n, NEW l \in 1 .. m + n, k # l PROVE c[k] \cap c[l] = {}
  <2>1. CASE k <= m /\ l <= m
    <3>1. k \in 1 .. m /\ l \in 1 .. m /\ c[k] = r[k] /\ c[l] = r[l]
      BY <1>3, <2>1
    <3> QED BY <1>8, <3>1 DEF Cuts, m
  <2>2. CASE ~(k <= m) /\ ~(l <= m)
    <3>1. k - m \in 1 .. n /\ l - m \in 1 .. n /\ c[k] = t[k - m] /\ c[l] = t[l - m]
      BY <1>4, <2>2
    <3>2. k - m # l - m
      BY <1>2, <1>8
    <3> HIDE DEF m
    <3> DEFINE x == k - m
               y == l - m
    <3> HIDE DEF x, y
    <3>3. x \in 1 .. n /\ y \in 1 .. n /\ x # y /\ c[k] = t[x] /\ c[l] = t[y]
      BY <3>1, <3>2 DEF x, y
    <3> QED BY <3>3 DEF Cuts, n
  <2>3. CASE k <= m /\ ~(l <= m)
    BY <1>3, <1>4, <1>5, <1>6, <2>3
  <2>4. CASE ~(k <= m) /\ l <= m
    BY <1>3, <1>4, <1>5, <1>6, <2>4
  <2> QED BY <2>1, <2>2, <2>3, <2>4
<1>9. S \cup T \subseteq UNION {c[k] : k \in 1 .. m + n}
  <2>1. ASSUME NEW x \in S PROVE x \in UNION {c[k] : k \in 1 .. m + n}
    <3>1. PICK k \in 1 .. m : x \in r[k]
      BY <2>1 DEF Cuts, m
    <3>2. k \in 1 .. m + n /\ k <= m
      BY <1>2
    <3> QED BY <1>3, <3>1, <3>2
  <2>2. ASSUME NEW x \in T PROVE x \in UNION {c[k] : k \in 1 .. m + n}
    <3>1. PICK k \in 1 .. n : x \in t[k]
      BY <2>2 DEF Cuts, n
    <3>2. k + m \in 1 .. m + n /\ ~(k + m <= m) /\ (k + m) - m = k
      BY <1>2
    <3>3. c[k + m] = t[k]
      BY <1>4, <3>2
    <3> QED BY <3>1, <3>2, <3>3
  <2> QED BY <2>1, <2>2
<1>10. UNION {c[k] : k \in 1 .. m + n} \subseteq S \cup T
  BY <1>3, <1>4, <1>5, <1>6
<1> QED BY <1>2, <1>7, <1>8, <1>9, <1>10 DEF Cuts, c

LEMMA CutsOne ==
  ASSUME NEW b \in Block
  PROVE  Cuts(<<{b}>>, {b})
<1>1. <<{b}>> \in Seq(SUBSET Block) /\ Len(<<{b}>>) = 1 /\ <<{b}>>[1] = {b}
  OBVIOUS
<1>2. \E g \in Group : {b} \subseteq BlocksOf(g)
  BY BlockGroup
<1>3. 1 .. 1 = {1}
  OBVIOUS
<1> QED BY <1>1, <1>2, <1>3 DEF Cuts

\* The extents of a sequence without repetition.
LEMMA ExtentsCut ==
  ASSUME NEW s \in Seq(Block), Inj(s)
  PROVE  Cuts(Extents(s), ToSet(s))
<1> DEFINE c == Cardinality(Starts(s))
           At1(k) == {j \in 1 .. Len(s) : Rank(s, j) = k}
<1>1. c \in Nat /\ Len(s) \in Nat /\ \A j \in 1 .. Len(s) : s[j] \in Block
  BY StartsIn, LenProperties, ElementOfSeq
<1>2. Extents(s) = [k \in 1 .. c |-> {s[i] : i \in At1(k)}]
  BY DEF Extents, Rank
<1>3. \A k \in 1 .. c : {s[i] : i \in At1(k)} \in SUBSET Block
  BY <1>1
<1>4. Extents(s) \in Seq(SUBSET Block) /\ Len(Extents(s)) = c
  BY <1>1, <1>2, <1>3
<1>5. \A k \in 1 .. c : Extents(s)[k] = {s[i] : i \in At1(k)}
  BY <1>2
<1> HIDE DEF c
<1>6. ASSUME NEW k \in 1 .. c PROVE Extents(s)[k] # {} /\ \E g \in Group : Extents(s)[k] \subseteq BlocksOf(g)
  <2>1. PICK j \in 1 .. Len(s) : Rank(s, j) = k
    BY RankTaken DEF c
  <2>2. GroupOfBlock(s[j]) \in Group
    BY <1>1, BlockGroup
  <2>3. ASSUME NEW i \in At1(k) PROVE s[i] \in BlocksOf(GroupOfBlock(s[j]))
    <3>1. i \in 1 .. Len(s) /\ Rank(s, i) = Rank(s, j)
      BY <2>1, <2>3
    <3>2. GroupOfBlock(s[i]) = GroupOfBlock(s[j])
      BY <3>1, SameExtent
    <3>3. s[i] \in BlocksOf(GroupOfBlock(s[i]))
      BY <1>1, <3>1, BlockGroup
    <3> QED BY <3>2, <3>3
  <2>4. j \in At1(k)
    BY <2>1
  <2> HIDE DEF At1
  <2> QED BY <1>5, <2>2, <2>3, <2>4
<1>7. ASSUME NEW k \in 1 .. c, NEW l \in 1 .. c, k # l PROVE Extents(s)[k] \cap Extents(s)[l] = {}
  BY <1>5, <1>7 DEF Inj
<1>8. ToSet(s) = UNION {Extents(s)[k] : k \in 1 .. c}
  <2>1. ToSet(s) = {s[i] : i \in 1 .. Len(s)}
    BY LenProperties DEF ToSet
  <2>2. \A i \in 1 .. Len(s) : Rank(s, i) \in 1 .. c
    BY RankIn DEF c
  <2>3. ASSUME NEW i \in 1 .. Len(s) PROVE s[i] \in Extents(s)[Rank(s, i)]
    BY <1>5, <2>2
  <2>4. ASSUME NEW k \in 1 .. c, NEW b \in Extents(s)[k] PROVE b \in ToSet(s)
    BY <1>5, <2>1
  <2> QED BY <2>1, <2>2, <2>3, <2>4
<1> QED BY <1>4, <1>6, <1>7, <1>8 DEF Cuts

LEMMA InjConcat ==
  ASSUME NEW s \in Seq(Block), NEW t \in Seq(Block)
  PROVE  /\ Inj(s \o t) => Inj(s) /\ Inj(t) /\ ToSet(s) \cap ToSet(t) = {}
         /\ Inj(s) /\ Inj(t) /\ ToSet(s) \cap ToSet(t) = {} => Inj(s \o t)
         /\ ToSet(s \o t) = ToSet(s) \cup ToSet(t)
<1> DEFINE c == s \o t
           m == Len(s)
           n == Len(t)
<1>1. c \in Seq(Block) /\ Len(c) = m + n /\ m \in Nat /\ n \in Nat
      /\ \A k \in 1 .. m + n : c[k] = IF k <= m THEN s[k] ELSE t[k - m]
  BY ConcatProperties, LenProperties
<1>2. ToSet(s) = {s[i] : i \in 1 .. m} /\ ToSet(t) = {t[i] : i \in 1 .. n}
  BY LenProperties DEF ToSet
<1>3. \A i \in 1 .. m : i \in 1 .. m + n /\ c[i] = s[i]
  <2> HIDE DEF c, m, n
  <2> QED BY <1>1
<1>4. \A i \in 1 .. n : m + i \in 1 .. m + n /\ c[m + i] = t[i] /\ \A j \in 1 .. m : m + i # j
  <2> HIDE DEF c, m, n
  <2>1. ASSUME NEW i \in 1 .. n PROVE m + i \in 1 .. m + n /\ ~(m + i <= m) /\ (m + i) - m = i
    BY <1>1
  <2>2. \A i \in 1 .. n : \A j \in 1 .. m : m + i # j
    BY <1>1
  <2> QED BY <1>1, <2>1, <2>2
<1>5. \A k \in 1 .. m + n : k \in 1 .. m \/ \E i \in 1 .. n : k = m + i
  <2> HIDE DEF c, m, n
  <2>1. ASSUME NEW k \in 1 .. m + n, k \notin 1 .. m PROVE k - m \in 1 .. n /\ k = m + (k - m)
    BY <1>1, <2>1
  <2> QED BY <2>1
<1>6. \A i, j \in 1 .. n : m + i = m + j => i = j
  BY <1>1
<1>7. Inj(c) <=> \A i, j \in 1 .. m + n : c[i] = c[j] => i = j
  BY <1>1 DEF Inj
<1>8. Inj(s) <=> \A i, j \in 1 .. m : s[i] = s[j] => i = j
  BY DEF Inj
<1>9. Inj(t) <=> \A i, j \in 1 .. n : t[i] = t[j] => i = j
  BY DEF Inj
<1> HIDE DEF c, m, n
<1>10. ASSUME Inj(c) PROVE Inj(s) /\ Inj(t) /\ ToSet(s) \cap ToSet(t) = {}
  <2>1. Inj(s)
    BY <1>3, <1>7, <1>8, <1>10, Zenon
  <2>2. Inj(t)
    BY <1>4, <1>6, <1>7, <1>9, <1>10, Zenon
  <2>3. \A i \in 1 .. m, j \in 1 .. n : s[i] # t[j]
    BY <1>3, <1>4, <1>7, <1>10, Zenon
  <2> QED BY <1>2, <2>1, <2>2, <2>3
<1>11. ASSUME Inj(s), Inj(t), ToSet(s) \cap ToSet(t) = {} PROVE Inj(c)
  <2>1. \A i \in 1 .. m, j \in 1 .. n : s[i] # t[j]
    BY <1>2, <1>11
  <2> SUFFICES ASSUME NEW i \in 1 .. m + n, NEW j \in 1 .. m + n, c[i] = c[j] PROVE i = j
    BY <1>7
  <2>2. CASE i \in 1 .. m /\ j \in 1 .. m
    BY <1>3, <1>8, <1>11, <2>2
  <2>3. CASE i \in 1 .. m /\ j \notin 1 .. m
    <3>1. PICK y \in 1 .. n : j = m + y
      BY <1>5, <2>3
    <3> QED BY <1>3, <1>4, <2>1, <2>3, <3>1
  <2>4. CASE i \notin 1 .. m /\ j \in 1 .. m
    <3>1. PICK x \in 1 .. n : i = m + x
      BY <1>5, <2>4
    <3> QED BY <1>3, <1>4, <2>1, <2>4, <3>1
  <2>5. CASE i \notin 1 .. m /\ j \notin 1 .. m
    <3>1. PICK x \in 1 .. n : i = m + x
      BY <1>5, <2>5
    <3>2. PICK y \in 1 .. n : j = m + y
      BY <1>5, <2>5
    <3> QED BY <1>4, <1>9, <1>11, <3>1, <3>2
  <2> QED BY <2>2, <2>3, <2>4, <2>5
<1>12. ToSet(s \o t) = ToSet(s) \cup ToSet(t)
  BY ConcatSet
<1> QED BY <1>10, <1>11, <1>12 DEF c

\* A sequence without repetition has as many elements as places.
LEMMA InjSize ==
  ASSUME NEW s \in Seq(Block), Inj(s)
  PROVE  IsFiniteSet(ToSet(s)) /\ Cardinality(ToSet(s)) = Len(s)
<1>1. Len(s) \in Nat /\ ToSet(s) = {s[i] : i \in 1 .. Len(s)}
  BY LenProperties DEF ToSet
<1>2. IsFiniteSet(1 .. Len(s)) /\ Cardinality(1 .. Len(s)) = Len(s)
  BY <1>1, FS_Interval, SMTT(40)
<1> DEFINE f == [i \in 1 .. Len(s) |-> s[i]]
<1>3. f \in Bijection(1 .. Len(s), ToSet(s))
  BY <1>1 DEF Inj, Bijection, Injection, Surjection, IsInjective
<1>4. ExistsBijection(1 .. Len(s), ToSet(s))
  BY <1>3 DEF ExistsBijection
<1> QED BY <1>2, <1>4, FS_Bijection

LEMMA InjMore ==
  ASSUME NEW s \in Seq(Block), NEW b \in Block
  PROVE  /\ Append(s, b) \in Seq(Block) /\ Len(Append(s, b)) = Len(s) + 1
         /\ ToSet(Append(s, b)) = ToSet(s) \cup {b}
         /\ Inj(Append(s, b)) <=> Inj(s) /\ b \notin ToSet(s)
<1>1. <<b>> \in Seq(Block) /\ Len(<<b>>) = 1 /\ <<b>>[1] = b /\ 1 .. 1 = {1}
  OBVIOUS
<1>2. Append(s, b) \in Seq(Block) /\ Len(Append(s, b)) = Len(s) + 1
  BY AppendProperties
<1>3. Append(s, b) = s \o <<b>>
  BY <1>1, AppendIsConcat
<1>4. ToSet(<<b>>) = {b} /\ Inj(<<b>>)
  BY <1>1 DEF ToSet, Inj
<1>5. Inj(s \o <<b>>) <=> Inj(s) /\ Inj(<<b>>) /\ ToSet(s) \cap ToSet(<<b>>) = {}
  BY <1>1, InjConcat
<1>6. ToSet(s \o <<b>>) = ToSet(s) \cup ToSet(<<b>>)
  <2>1. s \in Seq(Block) /\ <<b>> \in Seq(Block)
    BY <1>1
  <2>2. ASSUME NEW t \in Seq(Block)
        PROVE  ToSet(s \o t) = ToSet(s) \cup ToSet(t)
    BY ConcatSet, ZenonT(40)
  <2> QED BY <2>1, <2>2, Zenon
<1> QED BY <1>2, <1>3, <1>4, <1>5, <1>6

--------------------------------------------------------------------------------
(* Extent trees *)

\* What the leaves of a root list.
Lists(v, r) == [k \in 1 .. Len(r) |-> v.data[r[k]].blocks]
AllLeaves(v, r) == \A k \in 1 .. Len(r) : v.data[r[k]].kind = "leaf"
Agree(v, w, S) == \A b \in S : w.data[b] = v.data[b]

\* The blocks that an inode owns.
OwnedBy(v, node) == ToSet(Mapped(v, node)) \cup Leaves(node)

\* An inode with its tree in good shape.
Shaped(v, node) ==
  /\ node \in NodeType
  /\ node.depth = 0 => Fits(node.root, RootEntries)
  /\ node.depth = 1 => /\ node.root # <<>> /\ Len(node.root) <= RootEntries
                       /\ Inj(node.root) /\ AllLeaves(v, node.root)
  /\ Inj(Mapped(v, node)) /\ ToSet(Mapped(v, node)) \cap Leaves(node) = {}

\* A block that holds a leaf.
LEMMA LeafIn ==
  ASSUME NEW v \in Volume, NEW b \in Block, v.data[b].kind = "leaf"
  PROVE  v.data[b].blocks \in LeafText /\ v.data[b].blocks \in Seq(Block) /\ Fits(v.data[b].blocks, LeafEntries)
<1>1. v.data[b] \in Content
  BY DEF Volume
<1>2. v.data[b] \in [kind: {"leaf"}, blocks: LeafText]
  BY <1>1 DEF Content
<1> QED BY <1>2 DEF LeafText

LEMMA ListsIn ==
  ASSUME NEW v \in Volume, NEW r \in Seq(Block), AllLeaves(v, r)
  PROVE  /\ Lists(v, r) \in Seq(Seq(Block)) /\ Len(Lists(v, r)) = Len(r)
         /\ \A k \in 1 .. Len(r) : Lists(v, r)[k] = v.data[r[k]].blocks /\ v.data[r[k]].blocks \in Seq(Block)
<1>1. Len(r) \in Nat /\ \A k \in 1 .. Len(r) : r[k] \in Block
  BY LenProperties, ElementOfSeq
<1>2. \A k \in 1 .. Len(r) : v.data[r[k]].blocks \in Seq(Block)
  BY <1>1, LeafIn DEF AllLeaves
<1> QED BY <1>1, <1>2 DEF Lists

\* One leaf more.
LEMMA ListsMore ==
  ASSUME NEW v \in Volume, NEW r \in Seq(Block), NEW b \in Block, AllLeaves(v, Append(r, b))
  PROVE  /\ AllLeaves(v, r) /\ v.data[b].kind = "leaf" /\ v.data[b].blocks \in Seq(Block)
         /\ Lists(v, Append(r, b)) = Append(Lists(v, r), v.data[b].blocks)
         /\ FlattenSeq(Lists(v, Append(r, b))) = FlattenSeq(Lists(v, r)) \o v.data[b].blocks
         /\ FlattenSeq(Lists(v, r)) \in Seq(Block)
<1> DEFINE t == Append(r, b)
           n == Len(r)
<1>1. t \in Seq(Block) /\ Len(t) = n + 1 /\ n \in Nat /\ t[n + 1] = b /\ \A k \in 1 .. n : t[k] = r[k]
  BY AppendProperties, LenProperties
<1> HIDE DEF t, n
<1>2. \A k \in 1 .. n : k \in 1 .. n + 1
  BY <1>1
<1>3. n + 1 \in 1 .. n + 1
  BY <1>1
<1>4. AllLeaves(v, t)
  BY DEF t
<1>5. AllLeaves(v, r) /\ v.data[b].kind = "leaf"
  BY <1>1, <1>2, <1>3, <1>4 DEF AllLeaves, n
<1>6. v.data[b].blocks \in Seq(Block)
  BY <1>5, LeafIn
<1>7. Lists(v, t) = Append(Lists(v, r), v.data[b].blocks)
  <2> DEFINE x == Lists(v, t)
             l == Lists(v, r)
             y == Append(l, v.data[b].blocks)
  <2>1. x \in Seq(Seq(Block)) /\ Len(x) = n + 1 /\ \A k \in 1 .. n + 1 : x[k] = v.data[t[k]].blocks
    BY <1>1, <1>4, ListsIn
  <2>2. l \in Seq(Seq(Block)) /\ Len(l) = n /\ \A k \in 1 .. n : l[k] = v.data[r[k]].blocks
    BY <1>5, ListsIn DEF n
  <2>3. y \in Seq(Seq(Block)) /\ Len(y) = n + 1 /\ y[n + 1] = v.data[b].blocks /\ \A k \in 1 .. n : y[k] = l[k]
    BY <1>6, <2>2, AppendProperties
  <2> HIDE DEF x, l, y
  <2>4. \A k \in 1 .. n + 1 : k \in 1 .. n \/ k = n + 1
    BY <1>1
  <2>5. ASSUME NEW k \in 1 .. n + 1 PROVE x[k] = y[k]
    <3>1. CASE k \in 1 .. n
      <4>1. x[k] = v.data[t[k]].blocks
        BY <2>1, Zenon
      <4> QED BY <1>1, <2>2, <2>3, <3>1, <4>1, Zenon
    <3>2. CASE k = n + 1
      BY <1>1, <1>3, <2>1, <2>3, <3>2, Zenon
    <3> QED BY <2>4, <3>1, <3>2
  <2>6. x = y
    BY <2>1, <2>3, <2>5, SeqEqual
  <2> QED BY <2>6 DEF x, y, l
<1>8. Lists(v, r) \in Seq(Seq(Block))
  BY <1>5, ListsIn
<1>9. FlattenSeq(Append(Lists(v, r), v.data[b].blocks)) = FlattenSeq(Lists(v, r)) \o v.data[b].blocks
  BY <1>6, <1>8, Flattened, Zenon
<1>10. FlattenSeq(Lists(v, r)) \in Seq(Block)
  BY <1>8, Flattened, Zenon
<1> QED BY <1>5, <1>6, <1>7, <1>9, <1>10 DEF t

\* The logical blocks and the leaves of a tree.
LEMMA MappedIn ==
  ASSUME NEW v \in Volume, NEW node, Shaped(v, node)
  PROVE  /\ node \in NodeType /\ node.root \in Seq(Block)
         /\ Mapped(v, node) \in Seq(Block) /\ Leaves(node) \subseteq Block /\ OwnedBy(v, node) \subseteq Block
         /\ IsFiniteSet(Leaves(node)) /\ Cardinality(Leaves(node)) = IF node.depth = 0 THEN 0 ELSE Len(node.root)
         /\ IsFiniteSet(OwnedBy(v, node))
         /\ Cardinality(OwnedBy(v, node)) = Len(Mapped(v, node)) + Cardinality(Leaves(node))
<1>1. node \in NodeType /\ node.root \in Seq(Block) /\ node.depth \in {0, 1}
  BY DEF Shaped, NodeType
<1>2. Mapped(v, node) \in Seq(Block)
  <2>1. CASE node.depth = 0
    BY <1>1, <2>1 DEF Mapped
  <2>2. CASE node.depth = 1
    <3>1. Lists(v, node.root) \in Seq(Seq(Block))
      BY <1>1, <2>2, ListsIn DEF Shaped
    <3>2. Mapped(v, node) = FlattenSeq(Lists(v, node.root))
      BY <2>2 DEF Mapped, Lists
    <3> QED BY <3>1, <3>2, Flattened, Zenon
  <2> QED BY <1>1, <2>1, <2>2
<1>3. /\ Leaves(node) \subseteq Block /\ IsFiniteSet(Leaves(node))
      /\ Cardinality(Leaves(node)) = IF node.depth = 0 THEN 0 ELSE Len(node.root)
  <2>1. CASE node.depth = 0
    BY <2>1, FS_EmptySet DEF Leaves
  <2>2. CASE node.depth = 1
    <3>1. Inj(node.root) /\ Leaves(node) = ToSet(node.root)
      BY <2>2 DEF Leaves, Shaped
    <3>2. ToSet(node.root) \subseteq Block
      BY <1>1 DEF ToSet
    <3> QED BY <1>1, <2>2, <3>1, <3>2, InjSize
  <2> QED BY <1>1, <2>1, <2>2
<1>4. ToSet(Mapped(v, node)) \subseteq Block
  BY <1>2 DEF ToSet
<1>5. IsFiniteSet(ToSet(Mapped(v, node))) /\ Cardinality(ToSet(Mapped(v, node))) = Len(Mapped(v, node))
  BY <1>2, InjSize DEF Shaped
<1>6. ToSet(Mapped(v, node)) \cap Leaves(node) = {}
  BY DEF Shaped
<1> DEFINE A == ToSet(Mapped(v, node))
           B == Leaves(node)
<1>7. IsFiniteSet(A \cup B) /\ Cardinality(A \cup B) = Cardinality(A) + Cardinality(B)
  <2> HIDE DEF A, B
  <2>1. IsFiniteSet(A) /\ IsFiniteSet(B) /\ A \cap B = {}
    BY <1>3, <1>5, <1>6 DEF A, B
  <2>2. Cardinality(A) \in Nat /\ Cardinality(B) \in Nat /\ Cardinality(A \cap B) = 0
    BY <2>1, FS_CardinalityType, FS_EmptySet
  <2>3. IsFiniteSet(A \cup B) /\ Cardinality(A \cup B) = Cardinality(A) + Cardinality(B) - Cardinality(A \cap B)
    BY <2>1, FS_Union, Zenon
  <2> QED BY <2>2, <2>3
<1> QED BY <1>1, <1>2, <1>3, <1>4, <1>5, <1>7 DEF OwnedBy

\* A tree is read through its leaves only.
LEMMA MappedSame ==
  ASSUME NEW v, NEW w, NEW node, node.root \in Seq(Block), Agree(v, w, Leaves(node))
  PROVE  /\ Mapped(w, node) = Mapped(v, node) /\ OwnedBy(w, node) = OwnedBy(v, node)
         /\ Shaped(v, node) => Shaped(w, node)
<1>1. CASE node.depth = 0
  <2>1. Mapped(w, node) = Mapped(v, node)
    BY <1>1 DEF Mapped
  <2> QED BY <1>1, <2>1 DEF OwnedBy, Shaped
<1>2. CASE node.depth # 0
  <2>1. \A k \in 1 .. Len(node.root) : node.root[k] \in Leaves(node)
    BY <1>2, LenProperties DEF Leaves, ToSet
  <2>2. \A k \in 1 .. Len(node.root) : w.data[node.root[k]] = v.data[node.root[k]]
    BY <2>1, Zenon DEF Agree
  <2>3. [k \in 1 .. Len(node.root) |-> w.data[node.root[k]].blocks]
          = [k \in 1 .. Len(node.root) |-> v.data[node.root[k]].blocks]
    BY <2>2
  <2>4. Mapped(w, node) = Mapped(v, node)
    BY <1>2, <2>3 DEF Mapped
  <2>5. AllLeaves(v, node.root) => AllLeaves(w, node.root)
    BY <2>2 DEF AllLeaves
  <2> QED BY <2>4, <2>5 DEF OwnedBy, Shaped
<1> QED BY <1>1, <1>2

\* What there is to free under a root of leaves.
RunLists(v, r) == [k \in 1 .. Len(r) |-> Append(Extents(v.data[r[k]].blocks), {r[k]})]

LEMMA ExtentsIn ==
  ASSUME NEW s \in Seq(Block)
  PROVE  Extents(s) \in Seq(SUBSET Block)
<1> DEFINE c == Cardinality(Starts(s))
           P(k) == {s[i] : i \in {j \in 1 .. Len(s) : Rank(s, j) = k}}
<1>1. c \in Nat /\ \A j \in 1 .. Len(s) : s[j] \in Block
  BY StartsIn, LenProperties, ElementOfSeq
<1>2. Extents(s) = [k \in 1 .. c |-> P(k)]
  BY DEF Extents, Rank
<1>3. \A k \in 1 .. c : P(k) \in SUBSET Block
  BY <1>1
<1> HIDE DEF c, P
<1> QED BY <1>1, <1>2, <1>3

\* The runs of a leaf: its extents, then itself.
LEMMA LeafCut ==
  ASSUME NEW v \in Volume, NEW b \in Block, v.data[b].kind = "leaf", Inj(v.data[b].blocks),
         b \notin ToSet(v.data[b].blocks)
  PROVE  Cuts(Append(Extents(v.data[b].blocks), {b}), ToSet(v.data[b].blocks) \cup {b})
<1> DEFINE s == v.data[b].blocks
           x == Extents(s)
<1>1. s \in Seq(Block)
  BY LeafIn
<1> HIDE DEF s
<1>2. Cuts(x, ToSet(s))
  BY <1>1, ExtentsCut DEF s
<1> HIDE DEF x
<1>3. Cuts(<<{b}>>, {b})
  BY CutsOne
<1>4. ToSet(s) \cap {b} = {}
  BY DEF s
<1>5. Cuts(x \o <<{b}>>, ToSet(s) \cup {b})
  BY <1>2, <1>3, <1>4, CutsBoth
<1>6. x \in Seq(SUBSET Block)
  BY <1>2 DEF Cuts
<1>7. Append(x, {b}) = x \o <<{b}>>
  <2>1. {b} \in SUBSET Block
    OBVIOUS
  <2> QED BY <1>6, <2>1, AppendIsConcat, Zenon
<1> QED BY <1>5, <1>7 DEF x, s

LEMMA RunListsIn ==
  ASSUME NEW v \in Volume, NEW r \in Seq(Block), AllLeaves(v, r)
  PROVE  /\ RunLists(v, r) \in Seq(Seq(SUBSET Block)) /\ Len(RunLists(v, r)) = Len(r)
         /\ \A k \in 1 .. Len(r) : /\ RunLists(v, r)[k] = Append(Extents(v.data[r[k]].blocks), {r[k]})
                                   /\ Append(Extents(v.data[r[k]].blocks), {r[k]}) \in Seq(SUBSET Block)
<1>1. Len(r) \in Nat /\ \A k \in 1 .. Len(r) : r[k] \in Block
  BY LenProperties, ElementOfSeq
<1>2. ASSUME NEW k \in 1 .. Len(r) PROVE Append(Extents(v.data[r[k]].blocks), {r[k]}) \in Seq(SUBSET Block)
  <2>1. v.data[r[k]].blocks \in Seq(Block)
    BY <1>1, LeafIn DEF AllLeaves
  <2>2. Extents(v.data[r[k]].blocks) \in Seq(SUBSET Block)
    BY <2>1, ExtentsIn
  <2>3. {r[k]} \in SUBSET Block
    BY <1>1
  <2> QED BY <2>2, <2>3, AppendProperties
<1> QED BY <1>1, <1>2 DEF RunLists

LEMMA RunListsMore ==
  ASSUME NEW v \in Volume, NEW r \in Seq(Block), NEW b \in Block, AllLeaves(v, Append(r, b))
  PROVE  FlattenSeq(RunLists(v, Append(r, b)))
           = FlattenSeq(RunLists(v, r)) \o Append(Extents(v.data[b].blocks), {b})
<1> DEFINE t == Append(r, b)
           n == Len(r)
           z == Append(Extents(v.data[b].blocks), {b})
<1>1. t \in Seq(Block) /\ Len(t) = n + 1 /\ n \in Nat /\ t[n + 1] = b /\ \A k \in 1 .. n : t[k] = r[k]
  BY AppendProperties, LenProperties
<1>2. AllLeaves(v, t) /\ AllLeaves(v, r)
  BY ListsMore
<1> DEFINE x == RunLists(v, t)
           l == RunLists(v, r)
           y == Append(l, z)
<1>3. x \in Seq(Seq(SUBSET Block)) /\ Len(x) = n + 1
      /\ \A k \in 1 .. n + 1 : x[k] = Append(Extents(v.data[t[k]].blocks), {t[k]}) /\ x[k] \in Seq(SUBSET Block)
  <2> HIDE DEF t, n, z
  <2>1. /\ RunLists(v, t) \in Seq(Seq(SUBSET Block)) /\ Len(RunLists(v, t)) = Len(t)
        /\ \A k \in 1 .. Len(t) : /\ RunLists(v, t)[k] = Append(Extents(v.data[t[k]].blocks), {t[k]})
                                  /\ Append(Extents(v.data[t[k]].blocks), {t[k]}) \in Seq(SUBSET Block)
    BY <1>1, <1>2, RunListsIn
  <2>2. Len(t) = n + 1
    BY <1>1
  <2> HIDE DEF x
  <2>3. /\ x \in Seq(Seq(SUBSET Block)) /\ Len(x) = n + 1
        /\ \A k \in 1 .. n + 1 : /\ x[k] = Append(Extents(v.data[t[k]].blocks), {t[k]})
                                 /\ Append(Extents(v.data[t[k]].blocks), {t[k]}) \in Seq(SUBSET Block)
    BY <2>1, <2>2, Zenon DEF x
  <2> QED BY <2>3, Zenon
<1>4. l \in Seq(Seq(SUBSET Block)) /\ Len(l) = n
      /\ \A k \in 1 .. n : l[k] = Append(Extents(v.data[r[k]].blocks), {r[k]})
  BY <1>2, RunListsIn
<1> HIDE DEF t, n, x, l
<1>5. n + 1 \in 1 .. n + 1 /\ \A k \in 1 .. n + 1 : k \in 1 .. n \/ k = n + 1
  BY <1>1
<1>6. z = x[n + 1] /\ z \in Seq(SUBSET Block)
  BY <1>1, <1>3, <1>5, Zenon
<1> HIDE DEF z
<1>7. y \in Seq(Seq(SUBSET Block)) /\ Len(y) = n + 1 /\ y[n + 1] = z /\ \A k \in 1 .. n : y[k] = l[k]
  BY <1>4, <1>6, AppendProperties
<1> HIDE DEF y
<1>8. ASSUME NEW k \in 1 .. n + 1 PROVE x[k] = y[k]
  <2>1. CASE k \in 1 .. n
    BY <1>1, <1>3, <1>4, <1>7, <2>1, Zenon
  <2>2. CASE k = n + 1
    BY <1>6, <1>7, <2>2, Zenon
  <2> QED BY <1>5, <2>1, <2>2
<1>9. x = y
  BY <1>3, <1>7, <1>8, SeqEqual
<1>10. FlattenSeq(Append(l, z)) = FlattenSeq(l) \o z
  BY <1>4, <1>6, Flattened, Zenon
<1> QED BY <1>9, <1>10 DEF x, y, l, t, z

\* The runs of a tree cut what it owns.
LEMMA TreeCut ==
  ASSUME NEW v \in Volume, NEW r \in Seq(Block), AllLeaves(v, r), Inj(r), Inj(FlattenSeq(Lists(v, r))),
         ToSet(FlattenSeq(Lists(v, r))) \cap ToSet(r) = {}
  PROVE  Cuts(FlattenSeq(RunLists(v, r)), ToSet(FlattenSeq(Lists(v, r))) \cup ToSet(r))
<1> DEFINE Good(q) == /\ AllLeaves(v, q) /\ Inj(q) /\ Inj(FlattenSeq(Lists(v, q)))
                      /\ ToSet(FlattenSeq(Lists(v, q))) \cap ToSet(q) = {}
           Fine(q) == Cuts(FlattenSeq(RunLists(v, q)), ToSet(FlattenSeq(Lists(v, q))) \cup ToSet(q))
           T == {q \in Seq(Block) : Good(q) => Fine(q)}
<1>1. <<>> \in T
  <2>1. <<>> \in Seq(Block) /\ Lists(v, <<>>) = <<>> /\ RunLists(v, <<>>) = <<>>
    BY EmptySeq DEF Lists, RunLists
  <2>2. FlattenSeq(<<>>) = <<>> /\ ToSet(<<>>) = {}
    BY Flattened, EmptySeq DEF ToSet
  <2> QED BY <2>1, <2>2, CutsNothing
<1>2. ASSUME NEW q \in T, NEW b \in Block PROVE Append(q, b) \in T
  <2>1. q \in Seq(Block) /\ (Good(q) => Fine(q)) /\ Append(q, b) \in Seq(Block)
    BY <1>2, AppendProperties
  <2> SUFFICES ASSUME Good(Append(q, b)) PROVE Fine(Append(q, b))
    BY <2>1
  <2> HIDE DEF T, Fine
  <2> DEFINE s == v.data[b].blocks
             f == FlattenSeq(Lists(v, q))
             g == FlattenSeq(RunLists(v, q))
             z == Append(Extents(s), {b})
  <2>2. AllLeaves(v, q) /\ v.data[b].kind = "leaf" /\ s \in Seq(Block) /\ f \in Seq(Block)
        /\ FlattenSeq(Lists(v, Append(q, b))) = f \o s
    BY <2>1, ListsMore
  <2>3. FlattenSeq(RunLists(v, Append(q, b))) = g \o z
    BY <2>1, RunListsMore
  <2>4. Inj(q) /\ b \notin ToSet(q) /\ ToSet(Append(q, b)) = ToSet(q) \cup {b}
    BY <2>1, InjMore
  <2>5. Inj(f \o s) /\ ToSet(f \o s) \cap (ToSet(q) \cup {b}) = {}
    BY <2>2, <2>4
  <2> HIDE DEF f, g, s
  <2>6. Inj(f) /\ Inj(s) /\ ToSet(f) \cap ToSet(s) = {} /\ ToSet(f \o s) = ToSet(f) \cup ToSet(s)
    <3>0. f \in Seq(Block) /\ s \in Seq(Block) /\ Inj(f \o s)
      BY <2>2, <2>5, Zenon
    <3> QED BY <3>0, InjConcat, Zenon
  <2>7. Good(q)
    BY <2>2, <2>4, <2>5, <2>6 DEF f
  <2>8. Cuts(g, ToSet(f) \cup ToSet(q))
    BY <2>1, <2>7 DEF f, g, Fine
  <2>9. Cuts(z, ToSet(s) \cup {b})
    <3>1. b \notin ToSet(s)
      BY <2>5, <2>6
    <3> QED BY <2>2, <2>6, <3>1, LeafCut DEF s
  <2>10. (ToSet(f) \cup ToSet(q)) \cap (ToSet(s) \cup {b}) = {}
    BY <2>4, <2>5, <2>6
  <2> HIDE DEF z
  <2>11. Cuts(g \o z, (ToSet(f) \cup ToSet(q)) \cup (ToSet(s) \cup {b}))
    BY <2>8, <2>9, <2>10, CutsBoth
  <2>12. (ToSet(f) \cup ToSet(q)) \cup (ToSet(s) \cup {b}) = ToSet(f \o s) \cup ToSet(Append(q, b))
    BY <2>4, <2>6
  <2>13. Cuts(g \o z, ToSet(f \o s) \cup ToSet(Append(q, b)))
    BY <2>11, <2>12
  <2> QED BY <2>2, <2>3, <2>13 DEF Fine
<1>3. T \in SUBSET Seq(Block)
  OBVIOUS
<1>4. T = Seq(Block)
  <2> HIDE DEF T
  <2> QED BY <1>1, <1>2, <1>3, AppendedOn
<1>5. r \in T
  BY <1>4
<1> QED BY <1>5

\* RunsOf: each extent before the leaf that lists it.
LEMMA RunsCut ==
  ASSUME NEW v \in Volume, NEW node, Shaped(v, node)
  PROVE  Cuts(RunsOf(v, node), OwnedBy(v, node))
<1>1. node.root \in Seq(Block) /\ node.depth \in {0, 1}
  BY DEF Shaped, NodeType
<1>2. CASE node.depth = 0
  <2>1. RunsOf(v, node) = Extents(node.root) /\ Mapped(v, node) = node.root /\ Leaves(node) = {}
    BY <1>2 DEF RunsOf, Mapped, Leaves
  <2>2. Inj(node.root)
    BY <2>1 DEF Shaped
  <2> QED BY <1>1, <2>1, <2>2, ExtentsCut DEF OwnedBy
<1>3. CASE node.depth = 1
  <2>1. /\ RunsOf(v, node) = FlattenSeq(RunLists(v, node.root))
        /\ Mapped(v, node) = FlattenSeq(Lists(v, node.root)) /\ Leaves(node) = ToSet(node.root)
    BY <1>3 DEF RunsOf, Mapped, Leaves, RunLists, Lists
  <2>2. /\ AllLeaves(v, node.root) /\ Inj(node.root)
        /\ Inj(Mapped(v, node)) /\ ToSet(Mapped(v, node)) \cap Leaves(node) = {}
    BY <1>3 DEF Shaped
  <2>3. Cuts(FlattenSeq(RunLists(v, node.root)), ToSet(FlattenSeq(Lists(v, node.root))) \cup ToSet(node.root))
    BY <1>1, <2>1, <2>2, TreeCut
  <2> QED BY <2>1, <2>3 DEF OwnedBy
<1> QED BY <1>1, <1>2, <1>3

LEMMA FreesNothing ==
  ASSUME NEW d, Live(d), Ok(d)
  PROVE  Frees(d, d, {})
<1>1. d.v \in Volume
  BY DEF Live, Runs
<1>2. d.v.data = [b \in Block |-> IF b \in {} THEN Junk ELSE d.v.data[b]]
  BY <1>1 DEF Volume
<1> QED BY <1>1, <1>2 DEF Frees, Steps, Keeps, Recounts

LEMMA FreesMore ==
  ASSUME NEW d, NEW e, NEW f, NEW A, NEW B, Frees(d, e, A), Frees(e, f, B)
  PROVE  Frees(d, f, A \cup B)
<1>1. /\ Steps(d, f) /\ Keeps(d.v, f.v) /\ f.v.inodes = d.v.inodes
      /\ f.v.blocks = (d.v.blocks \ A) \ B
  BY DEF Frees, Steps, Keeps
<1>2. f.v.blocks = d.v.blocks \ (A \cup B)
  BY <1>1
<1>3. Recounts(d.v, f.v)
  BY DEF Frees, Recounts
<1>4. f.v.data = [b \in Block |-> IF b \in A \cup B THEN Junk ELSE d.v.data[b]]
  <2>1. /\ e.v.data = [b \in Block |-> IF b \in A THEN Junk ELSE d.v.data[b]]
        /\ f.v.data = [b \in Block |-> IF b \in B THEN Junk ELSE e.v.data[b]]
    BY DEF Frees
  <2> QED BY <2>1
<1> QED BY <1>1, <1>2, <1>3, <1>4 DEF Frees

\* Runs are freed one after the other.
LEMMA FreeRunsSpec ==
  ASSUME NEW d, Live(d), Ok(d), NEW runs, NEW S, Cuts(runs, S), S \subseteq d.v.blocks
  PROVE  Frees(d, FreeRuns(d, runs), S)
<1> DEFINE n == Len(runs)
           U(k) == UNION {runs[j] : j \in 1 .. k}
           F == [x \in Runs \X Nat |-> IF freeRun(x[1], runs[x[2]]) \in Runs THEN freeRun(x[1], runs[x[2]])
                                       ELSE x[1]]
           P(f) == f = [k \in 0 .. n |-> IF k = 0 THEN d ELSE freeRun(f[k - 1], runs[k])]
           f0 == CHOOSE f : P(f)
<1>1. n \in Nat /\ d \in Runs
  BY LenProperties DEF Cuts, Live
<1>2. F \in [Runs \X Nat -> Runs]
  OBVIOUS
<1>3. ASSUME NEW e \in Runs, NEW k \in Nat, freeRun(e, runs[k]) \in Runs PROVE F[<<e, k>>] = freeRun(e, runs[k])
  <2>1. <<e, k>> \in Runs \X Nat /\ <<e, k>>[1] = e /\ <<e, k>>[2] = k
    OBVIOUS
  <2> QED BY <1>3, <2>1, Zenon
<1>4. ASSUME NEW k \in 1 .. n PROVE /\ runs[k] # {} /\ \E g \in Group : runs[k] \subseteq BlocksOf(g)
                                    /\ runs[k] \subseteq S /\ runs[k] \cap U(k - 1) = {}
                                    /\ U(k) = U(k - 1) \cup runs[k]
  <2>1. runs[k] # {} /\ (\E g \in Group : runs[k] \subseteq BlocksOf(g)) /\ runs[k] \subseteq S
    BY DEF Cuts
  <2>2. \A j \in 1 .. k - 1 : j \in 1 .. n /\ j # k
    BY <1>1
  <2>3. \A j \in 1 .. k - 1 : runs[k] \cap runs[j] = {}
    BY <2>2 DEF Cuts
  <2>4. \A j : j \in 1 .. k <=> j \in 1 .. k - 1 \/ j = k
    BY <1>1
  <2>5. U(k) = U(k - 1) \cup runs[k]
    BY <2>4
  <2> QED BY <2>1, <2>3, <2>5
<1>5. U(0) = {} /\ U(n) = S
  <2>1. 1 .. 0 = {}
    OBVIOUS
  <2> QED BY <2>1 DEF Cuts
<1> HIDE DEF F, U
\* One more run.
<1>6. ASSUME NEW e, NEW k \in 1 .. n, Frees(d, e, U(k - 1)) PROVE Frees(d, freeRun(e, runs[k]), U(k))
  <2>1. Live(e) /\ Ok(e) /\ e.v.blocks = d.v.blocks \ U(k - 1)
    BY <1>6 DEF Frees, Steps
  <2>2. IsRunOf(e.v, runs[k])
    BY <1>4, <2>1 DEF IsRunOf
  <2>3. Frees(e, freeRun(e, runs[k]), runs[k])
    BY <2>1, <2>2, FreeRunSpec
  <2>4. Frees(d, freeRun(e, runs[k]), U(k - 1) \cup runs[k])
    BY <1>6, <2>3, FreesMore
  <2> QED BY <1>4, <2>4
<1>7. PICK h \in [0 .. n -> Runs] : IsRun(h, d, n, F)
  BY <1>1, <1>2, Iterated
<1>8. \A k \in 0 .. n : h[k] = IF k = 0 THEN d ELSE F[<<h[k - 1], k>>]
  BY <1>7, Zenon DEF IsRun
<1> DEFINE T == {k \in Nat : k \in 0 .. n => Frees(d, h[k], U(k)) /\ (k # 0 => h[k] = freeRun(h[k - 1], runs[k]))}
<1>9. 0 \in T
  <2>0. 0 \in 0 .. n
    BY <1>1
  <2>1. h[0] = d
    BY <1>8, <2>0, Zenon
  <2>2. Frees(d, h[0], U(0))
    BY <1>5, <2>1, FreesNothing
  <2> QED BY <2>2
<1>10. ASSUME NEW k \in T PROVE k + 1 \in T
  <2> DEFINE l == k + 1
             q == freeRun(h[k], runs[l])
  <2>1. k \in Nat /\ l \in Nat /\ l # 0 /\ l - 1 = k
    BY <1>10
  <2> SUFFICES ASSUME l \in 0 .. n PROVE Frees(d, h[l], U(l)) /\ h[l] = freeRun(h[l - 1], runs[l])
    BY <2>1
  <2>2. k \in 0 .. n /\ l \in 1 .. n
    BY <1>1, <2>1
  <2>3. Frees(d, h[k], U(k)) /\ h[k] \in Runs
    BY <1>10, <2>2
  <2> HIDE DEF T, l
  <2>4. h[l] = F[<<h[k], l>>]
    BY <1>8, <2>1, Zenon
  <2>5. Frees(d, q, U(l))
    BY <1>6, <2>1, <2>2, <2>3
  <2>6. q \in Runs
    BY <2>5 DEF Frees, Steps, Live
  <2>7. h[l] = q
    BY <1>3, <2>1, <2>3, <2>4, <2>6
  <2> QED BY <2>1, <2>5, <2>7
<1>11. T = Nat
  <2>1. T \in SUBSET Nat
    OBVIOUS
  <2> HIDE DEF T
  <2> QED BY <1>9, <1>10, <2>1, HandedOn
<1>12. P(h)
  <2>1. ASSUME NEW k \in 0 .. n PROVE h[k] = IF k = 0 THEN d ELSE freeRun(h[k - 1], runs[k])
    <3>1. CASE k = 0
      BY <1>8, <3>1
    <3>2. CASE k # 0
      BY <1>1, <1>11, <3>2
    <3> QED BY <3>1, <3>2
  <2>2. h = [k \in 0 .. n |-> h[k]]
    OBVIOUS
  <2> QED BY <2>1, <2>2, Zenon
<1>13. P(f0)
  <2> HIDE DEF P
  <2> QED BY <1>12
<1>14. FreeRuns(d, runs) = f0[n]
  BY Zenon DEF FreeRuns, f0
<1> HIDE DEF f0, T
<1> DEFINE V == {k \in Nat : k \in 0 .. n => f0[k] = h[k]}
<1>15. 0 \in V
  BY <1>1, <1>8, <1>13
<1>16. ASSUME NEW k \in V PROVE k + 1 \in V
  <2> SUFFICES ASSUME k + 1 \in 0 .. n PROVE f0[k + 1] = h[k + 1]
    OBVIOUS
  <2>1. k \in 0 .. n /\ k + 1 # 0 /\ (k + 1) - 1 = k
    BY <1>1, <1>16
  <2>2. f0[k + 1] = freeRun(f0[(k + 1) - 1], runs[k + 1])
    BY <1>13, <2>1, Zenon
  <2>3. h[k + 1] = freeRun(h[(k + 1) - 1], runs[k + 1])
    BY <1>12, <2>1, Zenon
  <2>4. f0[k] = h[k]
    BY <1>16, <2>1
  <2> QED BY <2>1, <2>2, <2>3, <2>4, Zenon
<1>17. V = Nat
  <2>1. V \in SUBSET Nat
    OBVIOUS
  <2> HIDE DEF V
  <2> QED BY <1>15, <1>16, <2>1, HandedOn
<1>18. f0[n] = h[n] /\ Frees(d, h[n], U(n))
  <2>1. n \in V /\ n \in 0 .. n
    BY <1>1, <1>17
  <2>2. n \in T
    BY <1>1, <1>11
  <2> QED BY <2>1, <2>2 DEF T
<1> QED BY <1>5, <1>14, <1>18

\* What a removal or an overwrite frees of an inode.
LEMMA FreeBlocksOfSpec ==
  ASSUME NEW d, Live(d), Ok(d), NEW node, Shaped(d.v, node), OwnedBy(d.v, node) \subseteq d.v.blocks,
         node.nblk = Len(Mapped(d.v, node)) + Cardinality(Leaves(node))
  PROVE  Frees(d, FreeBlocksOf(d, node), OwnedBy(d.v, node))
<1>1. d.v \in Volume
  BY DEF Live, Runs
<1>2. CASE node.size > 0 \/ node.nblk # 0
  <2>1. Cuts(RunsOf(d.v, node), OwnedBy(d.v, node))
    BY <1>1, RunsCut
  <2>2. Frees(d, FreeRuns(d, RunsOf(d.v, node)), OwnedBy(d.v, node))
    BY <2>1, FreeRunsSpec
  <2> QED BY <1>2, <2>2 DEF FreeBlocksOf, freeFileBlocks
<1>3. CASE ~(node.size > 0 \/ node.nblk # 0)
  <2>1. OwnedBy(d.v, node) = {}
    <3>1. IsFiniteSet(OwnedBy(d.v, node)) /\ Cardinality(OwnedBy(d.v, node)) = node.nblk
      BY <1>1, MappedIn
    <3> QED BY <1>3, <3>1, FS_EmptySet
  <2>2. FreeBlocksOf(d, node) = d
    BY <1>3 DEF FreeBlocksOf
  <2> QED BY <2>1, <2>2, FreesNothing
<1> QED BY <1>2, <1>3

--------------------------------------------------------------------------------
(* Inodes given back *)

LEMMA NodeIn ==
  /\ NoInode \in NodeType
  /\ \A kind \in {"file", "dir"} : NewInode(kind) \in NodeType
<1>1. <<>> \in Seq(Block)
  BY EmptySeq
<1>2. NoInode \in NodeType
  BY <1>1 DEF NoInode, NodeType
<1>3. ASSUME NEW kind \in {"file", "dir"} PROVE NewInode(kind) \in NodeType
  BY <1>1 DEF NewInode, NoInode, NodeType
<1> QED BY <1>2, <1>3

LEMMA GivesInode ==
  ASSUME NEW v \in Volume, NEW w \in Volume, NEW n \in Inode, n \in v.inodes, w.inodes = v.inodes \ {n},
         w.blocks = v.blocks, NEW K, NEW dir \in BOOLEAN, n \in K <=> dir
  PROVE  Shifts(v, w, K, K \ {n}, GroupOfInode(n), 0, 1, IF dir THEN -1 ELSE 0)
<1> DEFINE g == GroupOfInode(n)
           K2 == K \ {n}
           r == IF dir THEN -1 ELSE 0
<1>1. g \in Group /\ n \in InodesOf(g) /\ \A h \in Group : h # g => n \notin InodesOf(h)
  BY InodeGroup, InodePlace
<1>2. \A h \in Group : h # g => /\ InodesOf(h) \ w.inodes = InodesOf(h) \ v.inodes
                                /\ InodesOf(h) \cap K2 = InodesOf(h) \cap K
  BY <1>1
<1>3. \A S : IsFiniteSet(S) /\ n \in S => Cardinality(S \ w.inodes) = Cardinality(S \ v.inodes) + 1
  <2> SUFFICES ASSUME NEW S, IsFiniteSet(S), n \in S
               PROVE  Cardinality(S \ w.inodes) = Cardinality(S \ v.inodes) + 1
    OBVIOUS
  <2>1. S \ w.inodes = (S \ v.inodes) \cup {n} /\ S \ v.inodes \in SUBSET S /\ n \notin S \ v.inodes
    OBVIOUS
  <2>2. IsFiniteSet(S \ v.inodes)
    BY <2>1, FS_Subset
  <2>3. Cardinality((S \ v.inodes) \cup {n}) = Cardinality(S \ v.inodes) + 1
    BY <2>1, <2>2, FS_AddElement
  <2> QED BY <2>1, <2>3
<1>4. Cardinality(InodesOf(g) \ w.inodes) = Cardinality(InodesOf(g) \ v.inodes) + 1
      /\ Cardinality(Inode \ w.inodes) = Cardinality(Inode \ v.inodes) + 1
  BY <1>1, <1>3, Finite
<1>5. Cardinality(InodesOf(g) \cap K2) = Cardinality(InodesOf(g) \cap K) + r
  <2> DEFINE P == InodesOf(g) \cap K
  <2>1. IsFiniteSet(P) /\ Cardinality(P) \in Nat
    BY <1>1, Finite, FS_Subset, FS_CardinalityType
  <2>2. CASE dir
    <3>1. InodesOf(g) \cap K2 = P \ {n} /\ n \in P /\ r = -1
      BY <1>1, <2>2
    <3> HIDE DEF P, K2
    <3>2. Cardinality(P \ {n}) = Cardinality(P) - 1
      BY <2>1, <3>1, FS_RemoveElement
    <3>3. Cardinality(P) - 1 = Cardinality(P) + (-1)
      BY <2>1
    <3> HIDE DEF r
    <3> QED BY <3>1, <3>2, <3>3, Zenon DEF P
  <2>3. CASE ~dir
    <3>1. InodesOf(g) \cap K2 = P /\ r = 0
      BY <2>3
    <3> HIDE DEF P, K2, r
    <3>2. Cardinality(P) = Cardinality(P) + 0
      BY <2>1
    <3> QED BY <3>1, <3>2, Zenon DEF P
  <2> QED BY <2>2, <2>3
<1>6. \A x \in Nat : x = x + 0
  OBVIOUS
<1>7. /\ Cardinality(BlocksOf(g) \ w.blocks) = Cardinality(BlocksOf(g) \ v.blocks) + 0
      /\ Cardinality(Block \ w.blocks) = Cardinality(Block \ v.blocks) + 0
  <2>1. Cardinality(BlocksOf(g) \ v.blocks) \in Nat /\ Cardinality(Block \ v.blocks) \in Nat
    BY <1>1, Numbers, Zenon
  <2> QED BY <1>6, <2>1
<1> QED BY <1>1, <1>2, <1>4, <1>5, <1>7 DEF Shifts

\* freeInode: the inode is wiped, its number is free.
Wipes(d, e, n, dir) ==
  /\ Steps(d, e) /\ e.v \in Volume /\ e.v.clean = d.v.clean
  /\ e.v.table = [d.v.table EXCEPT ![n] = NoInode] /\ e.v.inodes = d.v.inodes \ {n}
  /\ e.v.blocks = d.v.blocks /\ e.v.data = d.v.data
  /\ n \in d.v.inodes => \A K : (n \in K <=> dir) /\ Counted(d.v, K) => Counted(e.v, K \ {n})

LEMMA FreeInodeSpec ==
  ASSUME NEW d, Live(d), Ok(d), NEW n \in Inode, n # rootInode, NEW dir \in BOOLEAN
  PROVE  Wipes(d, freeInode(d, n, dir), n, dir)
<1> DEFINE v1 == [d.v EXCEPT !.table[n] = NoInode]
           e1 == Put(d, v1)
           v2 == [e1.v EXCEPT !.inodes = @ \ {n}]
           e2 == Put(e1, v2)
           g == GroupOfInode(n)
           r == IF dir THEN -1 ELSE 0
           e3 == adjustSuper(adjustGroup(e2, g, 0, 1, r), 0, 1)
<1>1. d.v \in Volume
  BY DEF Live, Runs
<1>2. v1 \in Volume /\ v1.inodes = d.v.inodes /\ v1.blocks = d.v.blocks /\ v1.data = d.v.data
      /\ v1.table = [d.v.table EXCEPT ![n] = NoInode] /\ v1.clean = d.v.clean /\ v1.groups = d.v.groups
      /\ v1.free = d.v.free
  <2>1. d.v.table \in [Inode -> NodeType] /\ NoInode \in NodeType
    BY <1>1, NodeIn DEF Volume
  <2>2. [d.v.table EXCEPT ![n] = NoInode] \in [Inode -> NodeType]
    BY <2>1
  <2> HIDE DEF v1
  <2>3. v1 = [d.v EXCEPT !.table = [d.v.table EXCEPT ![n] = NoInode]]
    BY <1>1 DEF v1, Volume
  <2> QED BY <1>1, <2>2, <2>3 DEF Volume
<1> HIDE DEF v1
<1>3. Does(d, e1, v1)
  BY <1>2, PutDoes
<1> HIDE DEF e1
<1>4. Live(e1) /\ Ok(e1) /\ e1.v = v1 /\ e1.node = d.node /\ e1.set = d.set /\ e1.out = d.out
  BY <1>3 DEF Does, Ok
<1>5. v2 \in Volume /\ v2.inodes = v1.inodes \ {n} /\ v2.blocks = v1.blocks /\ v2.data = v1.data
      /\ v2.table = v1.table /\ v2.clean = v1.clean /\ v2.groups = v1.groups /\ v2.free = v1.free
  BY <1>2, <1>4 DEF Volume
<1> HIDE DEF v2
<1>6. Does(e1, e2, v2)
  BY <1>4, <1>5, PutDoes
<1> HIDE DEF e2
<1>7. Live(e2) /\ Ok(e2) /\ e2.v = v2 /\ e2.node = d.node /\ e2.set = d.set /\ e2.out = d.out
  BY <1>4, <1>6 DEF Does, Ok
<1>8. g \in Group /\ n \in Nat /\ 1 \in Int /\ 0 \in Int /\ r \in Int
  BY InodeGroup
<1>9. freeInode(d, n, dir) = e3
  <2>1. ~(n < firstIno)
    BY <1>8 DEF Inode, firstIno, rootInode
  <2> QED BY <2>1 DEF freeInode, ClearInode, zeroInodeOnDisk, e2, v2, e1, v1
<1>10. /\ Steps(e2, e3) /\ Keeps(e2.v, e3.v) /\ Adjusts(e2.v, e3.v, g, 0, 1, r)
       /\ e3.v.blocks = e2.v.blocks /\ e3.v.inodes = e2.v.inodes /\ e3.v.data = e2.v.data
  <2> DEFINE a == 0
             b == 1
  <2>1. e3 = adjustSuper(adjustGroup(e2, g, a, b, r), a, b)
    OBVIOUS
  <2>2. a \in Int /\ b \in Int
    OBVIOUS
  <2> HIDE DEF g, r, e3, a, b
  <2>3. /\ Steps(e2, e3) /\ Keeps(e2.v, e3.v) /\ Adjusts(e2.v, e3.v, g, a, b, r)
        /\ e3.v.blocks = e2.v.blocks /\ e3.v.inodes = e2.v.inodes /\ e3.v.data = e2.v.data
    BY <1>7, <1>8, <2>1, <2>2, AdjustSpec
  <2> QED BY <2>3 DEF a, b
<1> HIDE DEF e3
<1>11. Adjusts(d.v, e3.v, g, 0, 1, r)
  BY <1>2, <1>5, <1>7, <1>10 DEF Adjusts
<1>12. /\ Steps(d, e3) /\ e3.v \in Volume /\ e3.v.clean = d.v.clean
       /\ e3.v.table = [d.v.table EXCEPT ![n] = NoInode] /\ e3.v.inodes = d.v.inodes \ {n}
       /\ e3.v.blocks = d.v.blocks /\ e3.v.data = d.v.data
  BY <1>2, <1>5, <1>7, <1>10 DEF Keeps, Steps
<1>13. ASSUME n \in d.v.inodes, NEW K, n \in K <=> dir, Counted(d.v, K)
       PROVE  Counted(e3.v, K \ {n})
  <2> DEFINE K2 == K \ {n}
  <2>1. Shifts(d.v, e3.v, K, K2, g, 0, 1, r)
    BY <1>1, <1>12, <1>13, GivesInode
  <2> HIDE DEF g, r, K2
  <2>2. Counted(e3.v, K2)
    BY <1>1, <1>8, <1>11, <1>12, <1>13, <2>1, Recounted
  <2> QED BY <2>2 DEF K2
<1> QED BY <1>9, <1>12, <1>13 DEF Wipes

--------------------------------------------------------------------------------
(* Extent trees that grow *)

LEMMA ContentIn ==
  /\ Junk \in Content
  /\ \A n \in Nat : Text(n) \in Content
  /\ \A s \in LeafText : Leaf(s) \in Content
  /\ \A recs \in Seq(RecType) : Records(recs) \in Content
<1>1. Junk \in Content
  BY DEF Junk, Content
<1>2. \A n \in Nat : Text(n) \in Content
  BY DEF Text, Content
<1>3. \A s \in LeafText : Leaf(s) \in Content
  BY DEF Leaf, Content
<1>4. \A recs \in Seq(RecType) : Records(recs) \in Content
  BY DEF Records, Content
<1> QED BY <1>1, <1>2, <1>3, <1>4

\* SetBlock: another content of a block.
Sets(d, e, b, content) ==
  /\ Steps(d, e) /\ Keeps(d.v, e.v) /\ e.v.blocks = d.v.blocks /\ e.v.inodes = d.v.inodes
  /\ e.v.data = [d.v.data EXCEPT ![b] = content] /\ Recounts(d.v, e.v)

LEMMA SetBlockSpec ==
  ASSUME NEW d, Live(d), Ok(d), NEW b \in Block, NEW content \in Content
  PROVE  Sets(d, SetBlock(d, b, content), b, content)
<1> DEFINE data == [d.v.data EXCEPT ![b] = content]
           v1 == [d.v EXCEPT !.data[b] = content]
           e == Put(d, v1)
<1>1. d.v \in Volume
  BY DEF Live, Runs
<1>2. data \in [Block -> Content]
  BY <1>1 DEF Volume
<1>3. v1 = [d.v EXCEPT !.data = data]
  BY <1>1 DEF Volume
<1> HIDE DEF v1, data
<1>4. v1 \in Volume /\ v1.data = data /\ v1.blocks = d.v.blocks /\ v1.inodes = d.v.inodes
      /\ v1.table = d.v.table /\ v1.clean = d.v.clean /\ v1.groups = d.v.groups /\ v1.free = d.v.free
  BY <1>1, <1>2, <1>3 DEF Volume
<1>5. Does(d, e, v1)
  BY <1>4, PutDoes
<1>6. SetBlock(d, b, content) = e
  BY DEF SetBlock, v1
<1> HIDE DEF e
<1>7. Steps(d, e) /\ Keeps(d.v, e.v) /\ e.v = v1
  BY <1>4, <1>5 DEF Does, Steps, Keeps, Ok
<1>8. Recounts(d.v, v1)
  BY <1>4 DEF Recounts, Counted
<1> QED BY <1>4, <1>6, <1>7, <1>8 DEF Sets, data

\* A root and the leaf behind it.
LEMMA LeafPut ==
  ASSUME NEW v \in Volume, NEW w \in Volume, NEW r \in Seq(Block), NEW l \in Block, AllLeaves(v, r), Inj(r),
         l \notin ToSet(r), Agree(v, w, ToSet(r)), NEW s \in LeafText, w.data[l] = Leaf(s)
  PROVE  /\ AllLeaves(w, Append(r, l)) /\ Inj(Append(r, l)) /\ ToSet(Append(r, l)) = ToSet(r) \cup {l}
         /\ FlattenSeq(Lists(v, r)) \in Seq(Block)
         /\ FlattenSeq(Lists(w, Append(r, l))) = FlattenSeq(Lists(v, r)) \o s
<1> DEFINE t == Append(r, l)
           n == Len(r)
<1>1. t \in Seq(Block) /\ Len(t) = n + 1 /\ n \in Nat /\ t[n + 1] = l /\ \A k \in 1 .. n : t[k] = r[k]
  BY AppendProperties, LenProperties
<1>2. Inj(t) /\ ToSet(t) = ToSet(r) \cup {l}
  BY InjMore
<1>3. w.data[l].kind = "leaf" /\ w.data[l].blocks = s
  BY DEF Leaf
<1>4. \A k \in 1 .. n : w.data[r[k]] = v.data[r[k]]
  <2>1. \A k \in 1 .. n : r[k] \in ToSet(r)
    BY LenProperties DEF ToSet
  <2> HIDE DEF n
  <2> QED BY <2>1, Zenon DEF Agree
<1>5. Lists(w, r) = Lists(v, r)
  BY <1>4 DEF Lists
<1>6. AllLeaves(w, t)
  <2> HIDE DEF t
  <2>1. \A k \in 1 .. n + 1 : k \in 1 .. n \/ k = n + 1
    BY <1>1
  <2>2. \A k \in 1 .. n : v.data[r[k]].kind = "leaf"
    BY DEF AllLeaves
  <2>3. ASSUME NEW k \in 1 .. n + 1 PROVE w.data[t[k]].kind = "leaf"
    <3>1. CASE k \in 1 .. n
      BY <1>1, <1>4, <2>2, <3>1, Zenon
    <3>2. CASE k = n + 1
      BY <1>1, <1>3, <3>2, Zenon
    <3> QED BY <2>1, <3>1, <3>2
  <2> QED BY <1>1, <2>3 DEF AllLeaves
<1>7. /\ FlattenSeq(Lists(w, t)) = FlattenSeq(Lists(w, r)) \o w.data[l].blocks
      /\ FlattenSeq(Lists(w, r)) \in Seq(Block)
  BY <1>6, ListsMore
<1> QED BY <1>2, <1>3, <1>5, <1>6, <1>7 DEF t

\* AddLeaf: a new leaf is in the root, or nothing was done.
AddsLeaf(d, e, node, s) ==
  /\ Live(e) /\ e.set = d.set
  /\ \/ e.status = "noSpace" /\ e.v = d.v /\ e.node = d.node
     \/ /\ Ok(e)
        /\ \E l \in Block \ d.v.blocks :
             /\ e.node = WithLeaf(node, l) /\ Keeps(d.v, e.v)
             /\ e.v.blocks = d.v.blocks \cup {l} /\ e.v.inodes = d.v.inodes
             /\ e.v.data = [d.v.data EXCEPT ![l] = Leaf(s)] /\ Recounts(d.v, e.v)

LEMMA WithLeafIn ==
  ASSUME NEW node \in NodeType, NEW l \in Block
  PROVE  /\ WithLeaf(node, l) \in NodeType /\ WithLeaf(node, l).root = Append(node.root, l)
         /\ WithLeaf(node, l).nblk = node.nblk + 1 /\ WithLeaf(node, l).depth = node.depth
         /\ WithLeaf(node, l).kind = node.kind /\ WithLeaf(node, l).links = node.links
         /\ WithLeaf(node, l).size = node.size
<1>1. node.root \in Seq(Block) /\ node.nblk \in Nat
  BY DEF NodeType
<1>2. Append(node.root, l) \in Seq(Block) /\ node.nblk + 1 \in Nat
  BY <1>1, AppendProperties
<1>3. WithLeaf(node, l) = [[node EXCEPT !.root = Append(node.root, l)] EXCEPT !.nblk = node.nblk + 1]
  BY DEF WithLeaf, NodeType
<1> HIDE DEF WithLeaf
<1> QED BY <1>2, <1>3 DEF NodeType

LEMMA AddLeafSpec ==
  ASSUME NEW d, Live(d), Ok(d), NEW goal \in Nat, NEW node \in NodeType, NEW s \in LeafText
  PROVE  AddsLeaf(d, AddLeaf(allocBlock(d, goal), node, s), node, s)
<1> DEFINE a == allocBlock(d, goal)
<1>1. Grants(d, a)
  BY AllocBlockSpec
<1> HIDE DEF a
<1>2. CASE a.status = "noSpace" /\ a.v = d.v
  <2>1. AddLeaf(a, node, s) = a
    BY <1>2 DEF AddLeaf, Ok
  <2> QED BY <1>1, <1>2, <2>1 DEF AddsLeaf, Grants, a
<1>3. CASE Ok(a) /\ ~(a.status = "noSpace" /\ a.v = d.v)
  <2> DEFINE l == a.out
             b == SetBlock(a, l, Leaf(s))
             e == [b EXCEPT !.node = WithLeaf(node, l)]
  <2>1. /\ l \in Block \ d.v.blocks /\ Keeps(d.v, a.v) /\ a.v.blocks = d.v.blocks \cup {l}
        /\ a.v.inodes = d.v.inodes /\ a.v.data = d.v.data /\ Recounts(d.v, a.v) /\ Live(a) /\ a.set = d.set
    BY <1>1, <1>3 DEF Grants
  <2>2. Leaf(s) \in Content
    BY ContentIn
  <2>3. Sets(a, b, l, Leaf(s))
    BY <1>3, <2>1, <2>2, SetBlockSpec
  <2> HIDE DEF b
  <2>4. Ok(b) /\ Live(b) /\ b \in Runs /\ b.kind = "none" /\ b.left = -1 /\ b.set = d.set
    BY <2>1, <2>3 DEF Sets, Steps, Live
  <2>5. WithLeaf(node, l) \in NodeType
    BY <2>1, WithLeafIn
  <2>6. /\ e \in Runs /\ e.kind = "none" /\ e.left = -1 /\ e.status = b.status /\ e.v = b.v
        /\ e.node = WithLeaf(node, l) /\ e.set = d.set
    BY <2>4, <2>5 DEF Runs
  <2>7. AddLeaf(a, node, s) = e
    BY <1>3, <2>4 DEF AddLeaf, Rooted, b
  <2> HIDE DEF e, l
  <2>8. /\ Keeps(d.v, e.v) /\ e.v.blocks = d.v.blocks \cup {l} /\ e.v.inodes = d.v.inodes
        /\ e.v.data = [d.v.data EXCEPT ![l] = Leaf(s)] /\ Recounts(d.v, e.v)
    BY <2>1, <2>3, <2>6 DEF Sets, Keeps, Recounts
  <2>9. Live(e) /\ Ok(e)
    BY <2>4, <2>6 DEF Live, Ok
  <2>10. AddsLeaf(d, e, node, s)
    BY <2>1, <2>6, <2>8, <2>9 DEF AddsLeaf
  <2> QED BY <2>7, <2>10 DEF a
<1> QED BY <1>1, <1>2, <1>3 DEF Grants

\* The inode in memory gets leaves and no other blocks: the volume agrees on all
\* that is not a leaf of it.
Grown(d, e) ==
  /\ Keeps(d.v, e.v) /\ e.v.inodes = d.v.inodes /\ Recounts(d.v, e.v)
  /\ Shaped(e.v, e.node)
  /\ Leaves(d.node) \subseteq Leaves(e.node) /\ (Leaves(e.node) \ Leaves(d.node)) \cap d.v.blocks = {}
  /\ e.v.blocks = d.v.blocks \cup Leaves(e.node)
  /\ e.node.nblk + Cardinality(Leaves(d.node)) = d.node.nblk + Cardinality(Leaves(e.node))
  /\ e.node.kind = d.node.kind /\ e.node.links = d.node.links /\ e.node.size = d.node.size
  /\ Agree(d.v, e.v, Block \ Leaves(e.node))

\* appendBlock: one block more, or no space and nothing done.
Attaches(d, e, phys) ==
  /\ Live(e) /\ e.set = d.set
  /\ \/ e.status = "noSpace" /\ e.v = d.v /\ e.node = d.node
     \/ Ok(e) /\ Grown(d, e) /\ Mapped(e.v, e.node) = Append(Mapped(d.v, d.node), phys)

LEMMA ElementsIn ==
  ASSUME NEW s \in Seq(Block)
  PROVE  ToSet(s) \subseteq Block
  BY DEF ToSet

\* The last leaf of a root, and those before it.
LEMMA LastLeaf ==
  ASSUME NEW r \in Seq(Block), r # <<>>, Inj(r)
  PROVE  /\ Front(r) \in Seq(Block) /\ Last(r) \in Block /\ r = Append(Front(r), Last(r))
         /\ Inj(Front(r)) /\ Last(r) \notin ToSet(Front(r)) /\ ToSet(r) = ToSet(Front(r)) \cup {Last(r)}
<1>1. Front(r) \in Seq(Block) /\ Last(r) \in Block /\ r = Append(Front(r), Last(r))
  <2>1. Len(r) \in Nat /\ Len(r) # 0
    BY LenProperties, EmptySeq
  <2>2. Front(r) = SubSeq(r, 1, Len(r) - 1) /\ Last(r) = r[Len(r)]
    BY DEF Front, Last
  <2>3. r[Len(r)] \in Block
    BY <2>1, ElementOfSeq
  <2>4. 1 \in 1 .. Len(r) + 1 /\ Len(r) - 1 \in 1 - 1 .. Len(r)
    BY <2>1
  <2>5. SubSeq(r, 1, Len(r) - 1) \in Seq(Block) /\ Len(SubSeq(r, 1, Len(r) - 1)) = Len(r) - 1
        /\ \A i \in 1 .. Len(r) - 1 : SubSeq(r, 1, Len(r) - 1)[i] = r[i]
    <3> DEFINE k == Len(r) - 1
    <3>1. k \in Int /\ 1 \in Int /\ k >= 0
      BY <2>1
    <3>2. \A i \in 1 .. k : r[i] \in Block
      BY <2>1, ElementOfSeq
    <3> HIDE DEF k
    <3>3. SubSeq(r, 1, k) \in Seq(Block) /\ Len(SubSeq(r, 1, k)) = (IF 1 <= k THEN k - 1 + 1 ELSE 0)
          /\ \A i \in 1 .. k - 1 + 1 : SubSeq(r, 1, k)[i] = r[1 + i - 1]
      BY <3>1, <3>2, SubSeqProperties
    <3>4. k - 1 + 1 = k /\ \A i \in 1 .. k : 1 + i - 1 = i
      BY <3>1
    <3>5. (IF 1 <= k THEN k ELSE 0) = k
      BY <3>1
    <3> QED BY <3>3, <3>4, <3>5 DEF k
  <2> DEFINE f == Front(r)
             t == Append(f, Last(r))
             n == Len(r)
  <2>6. f \in Seq(Block) /\ Len(f) = n - 1 /\ \A i \in 1 .. n - 1 : f[i] = r[i]
    BY <2>2, <2>5
  <2>7. t \in Seq(Block) /\ Len(t) = n /\ t[n] = r[n] /\ \A i \in 1 .. n - 1 : t[i] = f[i]
    <3> HIDE DEF f
    <3>1. t \in Seq(Block) /\ Len(t) = Len(f) + 1 /\ t[Len(f) + 1] = Last(r) /\ \A i \in 1 .. Len(f) : t[i] = f[i]
      BY <2>2, <2>3, <2>6, AppendProperties
    <3>2. Len(f) + 1 = n
      BY <2>1, <2>6
    <3> QED BY <2>2, <2>6, <3>1, <3>2, Zenon
  <2> HIDE DEF f, t
  <2>8. \A i \in 1 .. n : i \in 1 .. n - 1 \/ i = n
    BY <2>1
  <2>9. \A i \in 1 .. n : t[i] = r[i]
    BY <2>6, <2>7, <2>8
  <2>10. r = t
    BY <2>7, <2>9, SeqEqual
  <2> QED BY <2>2, <2>3, <2>6, <2>10 DEF f, t
<1> DEFINE f == Front(r)
           l == Last(r)
<1> HIDE DEF f, l
<1>2. Inj(Append(f, l)) /\ f \in Seq(Block) /\ l \in Block
  BY <1>1 DEF f, l
<1>3. Inj(f) /\ l \notin ToSet(f) /\ ToSet(Append(f, l)) = ToSet(f) \cup {l}
  BY <1>2, InjMore
<1> QED BY <1>1, <1>3 DEF f, l

\* What AppendToLeaf makes of the last leaf, and whether that has room for it.
MoreOf(d, phys)  == Append(d.v.data[Last(d.node.root)].blocks, phys)
HasRoom(d, phys) == Fits(MoreOf(d, phys), LeafEntries)

\* A block in use that the inode in memory does not own.
Loose(d, phys) == phys \in d.v.blocks /\ phys \notin OwnedBy(d.v, d.node) /\ OwnedBy(d.v, d.node) \subseteq d.v.blocks

\* A leaf that has room gets a block more.
LEMMA LeafGrows ==
  ASSUME NEW d, Live(d), Ok(d), Shaped(d.v, d.node), d.node.depth = 1, NEW phys, Loose(d, phys), HasRoom(d, phys)
  PROVE  LET e == SetBlock(d, Last(d.node.root), Leaf(MoreOf(d, phys)))
         IN  Attaches(d, e, phys) /\ Ok(e)
<1> DEFINE r == d.node.root
           f == Front(r)
           l == Last(r)
           u == d.v.data[l].blocks
           s == MoreOf(d, phys)
           e == SetBlock(d, l, Leaf(s))
<1>0. /\ phys \in d.v.blocks /\ phys \notin OwnedBy(d.v, d.node) /\ OwnedBy(d.v, d.node) \subseteq d.v.blocks
      /\ s = Append(u, phys) /\ Fits(s, LeafEntries)
  BY Zenon DEF Loose, HasRoom, MoreOf
<1> HIDE DEF s
<1>1. d.v \in Volume /\ d.node \in NodeType /\ r \in Seq(Block) /\ phys \in Block
  BY <1>0 DEF Live, Runs, NodeType, Volume
<1>2. r # <<>> /\ Inj(r) /\ AllLeaves(d.v, r) /\ Len(r) <= RootEntries
  BY DEF Shaped
<1> HIDE DEF r
<1>3. /\ f \in Seq(Block) /\ l \in Block /\ r = Append(f, l) /\ Inj(f) /\ l \notin ToSet(f)
      /\ ToSet(r) = ToSet(f) \cup {l}
  BY <1>1, <1>2, LastLeaf
<1> HIDE DEF f, l
<1>4. /\ AllLeaves(d.v, f) /\ u \in Seq(Block) /\ FlattenSeq(Lists(d.v, f)) \in Seq(Block)
      /\ FlattenSeq(Lists(d.v, r)) = FlattenSeq(Lists(d.v, f)) \o u
  BY <1>1, <1>2, <1>3, ListsMore
<1>5. s \in LeafText
  <2>1. s \in Seq(Block)
    BY <1>0, <1>1, <1>4, AppendProperties DEF u
  <2> QED BY <1>0, <2>1 DEF LeafText
<1> HIDE DEF u
<1>6. Sets(d, e, l, Leaf(s))
  <2>1. Leaf(s) \in Content
    BY <1>5, ContentIn
  <2> QED BY <1>3, <2>1, SetBlockSpec
<1> HIDE DEF e
<1>7. /\ e.v \in Volume /\ Live(e) /\ Ok(e) /\ e.node = d.node /\ e.set = d.set
      /\ e.v.data = [d.v.data EXCEPT ![l] = Leaf(s)] /\ e.v.blocks = d.v.blocks /\ e.v.inodes = d.v.inodes
      /\ Keeps(d.v, e.v) /\ Recounts(d.v, e.v)
  BY <1>6 DEF Sets, Steps, Keeps
<1>8. e.v.data[l] = Leaf(s) /\ \A b \in Block : b # l => e.v.data[b] = d.v.data[b]
  BY <1>1, <1>3, <1>7 DEF Volume
<1>9. Agree(d.v, e.v, ToSet(f))
  <2>1. ToSet(f) \subseteq Block
    BY <1>3, ElementsIn
  <2> QED BY <1>3, <1>8, <2>1 DEF Agree
<1>10. AllLeaves(e.v, r) /\ FlattenSeq(Lists(e.v, r)) = FlattenSeq(Lists(d.v, f)) \o s
  <2>1. /\ d.v \in Volume /\ e.v \in Volume /\ f \in Seq(Block) /\ l \in Block /\ AllLeaves(d.v, f)
        /\ Inj(f) /\ l \notin ToSet(f) /\ Agree(d.v, e.v, ToSet(f)) /\ s \in LeafText /\ e.v.data[l] = Leaf(s)
    BY <1>1, <1>3, <1>4, <1>5, <1>7, <1>8, <1>9, Zenon
  <2>2. /\ AllLeaves(e.v, Append(f, l))
        /\ FlattenSeq(Lists(e.v, Append(f, l))) = FlattenSeq(Lists(d.v, f)) \o s
    BY <2>1, LeafPut
  <2> QED BY <1>3, <2>2, Zenon
<1> DEFINE m == Mapped(d.v, d.node)
<1>11. m = FlattenSeq(Lists(d.v, r)) /\ Mapped(e.v, d.node) = FlattenSeq(Lists(e.v, r))
  BY DEF Mapped, Lists, r
<1>12. m \in Seq(Block) /\ Inj(m) /\ ToSet(m) \cap ToSet(r) = {} /\ Leaves(d.node) = ToSet(r)
       /\ phys \notin ToSet(m) /\ phys \notin ToSet(r) /\ ToSet(r) \subseteq d.v.blocks
  <2>1. m \in Seq(Block)
    BY <1>1, MappedIn, Zenon
  <2>2. Leaves(d.node) = ToSet(r)
    BY DEF Leaves, r
  <2> QED BY <1>0, <2>1, <2>2 DEF Shaped, OwnedBy
<1> HIDE DEF m
<1>13. Mapped(e.v, d.node) = Append(m, phys)
  <2> DEFINE x == FlattenSeq(Lists(d.v, f))
  <2>1. x \in Seq(Block) /\ u \in Seq(Block) /\ s = Append(u, phys)
    BY <1>0, <1>4, Zenon DEF u, l, r
  <2> HIDE DEF x
  <2>2. x \o Append(u, phys) = Append(x \o u, phys)
    <3>0. phys \in Block
      BY <1>1
    <3>1. <<phys>> \in Seq(Block)
      BY <3>0
    <3>2. Append(u, phys) = u \o <<phys>> /\ Append(x \o u, phys) = (x \o u) \o <<phys>>
      <4>1. x \o u \in Seq(Block)
        BY <2>1, ConcatProperties
      <4> QED BY <1>1, <2>1, <4>1, AppendIsConcat
    <3>3. x \o (u \o <<phys>>) = (x \o u) \o <<phys>>
      BY <2>1, <3>1, ConcatAssociative
    <3> QED BY <3>2, <3>3
  <2> QED BY <1>4, <1>10, <1>11, <2>1, <2>2, Zenon DEF x
<1>14. Shaped(e.v, d.node)
  <2>1. Inj(Append(m, phys)) /\ ToSet(Append(m, phys)) = ToSet(m) \cup {phys}
    BY <1>1, <1>12, InjMore
  <2> QED BY <1>1, <1>2, <1>10, <1>12, <1>13, <2>1 DEF Shaped, r
<1>15. Agree(d.v, e.v, Block \ Leaves(d.node))
  BY <1>3, <1>8, <1>12 DEF Agree
<1>16. d.v.blocks = d.v.blocks \cup Leaves(d.node)
  BY <1>12
<1>17. Grown(d, e)
  BY <1>7, <1>14, <1>15, <1>16 DEF Grown
<1> QED BY <1>7, <1>13, <1>17 DEF Attaches, e, l, r, m, s

LEMMA OneLeaf ==
  ASSUME NEW b \in Block
  PROVE  <<b>> \in LeafText
<1>1. <<b>> \in Seq(Block) /\ <<>> \in Seq(Block)
  BY EmptySeq
<1>2. LeafEntries \in Nat /\ LeafEntries >= 1
  BY Sizes
<1>3. Fits(<<b>>, LeafEntries)
  BY <1>1, <1>2, FitsSpec
<1> QED BY <1>1, <1>3 DEF LeafText

\* A root that has room gets a leaf more.
LEMMA LeafAdded ==
  ASSUME NEW d, Live(d), Shaped(d.v, d.node), d.node.depth = 1, Len(d.node.root) < RootEntries,
         NEW phys, Loose(d, phys), NEW e, AddsLeaf(d, e, d.node, <<phys>>)
  PROVE  Attaches(d, e, phys)
<1>1. CASE e.status = "noSpace" /\ e.v = d.v /\ e.node = d.node
  BY <1>1 DEF AddsLeaf, Attaches
<1>2. CASE ~(e.status = "noSpace" /\ e.v = d.v /\ e.node = d.node)
  <2> DEFINE r == d.node.root
             m == Mapped(d.v, d.node)
  <2>1. /\ phys \in d.v.blocks /\ phys \notin OwnedBy(d.v, d.node) /\ OwnedBy(d.v, d.node) \subseteq d.v.blocks
    BY DEF Loose
  <2>2. d.v \in Volume /\ d.node \in NodeType /\ r \in Seq(Block) /\ phys \in Block
    BY <2>1 DEF Live, Runs, NodeType, Volume
  <2>3. PICK l \in Block \ d.v.blocks :
             /\ e.node = WithLeaf(d.node, l) /\ Keeps(d.v, e.v)
             /\ e.v.blocks = d.v.blocks \cup {l} /\ e.v.inodes = d.v.inodes
             /\ e.v.data = [d.v.data EXCEPT ![l] = Leaf(<<phys>>)] /\ Recounts(d.v, e.v)
    BY <1>2 DEF AddsLeaf
  <2>4. Live(e) /\ Ok(e) /\ e.set = d.set /\ e.v \in Volume
    BY <1>2, <2>3 DEF AddsLeaf, Keeps
  <2>5. AllLeaves(d.v, r) /\ Inj(r) /\ Leaves(d.node) = ToSet(r) /\ m = FlattenSeq(Lists(d.v, r))
    <3>1. d.node.depth = 1 /\ d.node.depth # 0
      OBVIOUS
    <3>2. AllLeaves(d.v, r) /\ Inj(r)
      BY <3>1, Zenon DEF Shaped
    <3>3. Leaves(d.node) = ToSet(r)
      BY <3>1, Zenon DEF Leaves
    <3>4. m = FlattenSeq(Lists(d.v, r))
      BY <3>1, Zenon DEF Mapped, Lists
    <3> QED BY <3>2, <3>3, <3>4
  <2>6. m \in Seq(Block) /\ Inj(m) /\ ToSet(m) \cap ToSet(r) = {} /\ phys \notin ToSet(m) /\ phys \notin ToSet(r)
        /\ ToSet(r) \subseteq d.v.blocks /\ ToSet(m) \subseteq d.v.blocks
    <3>1. m \in Seq(Block)
      BY <2>2, MappedIn, Zenon
    <3> QED BY <2>1, <2>5, <3>1 DEF Shaped, OwnedBy
  <2>7. e.v.data[l] = Leaf(<<phys>>) /\ \A b \in Block : b # l => e.v.data[b] = d.v.data[b]
    BY <2>2, <2>3 DEF Volume
  <2>8. <<phys>> \in LeafText
    BY <2>2, OneLeaf
  <2> DEFINE t == Append(r, l)
             q == e.node
  <2>9. /\ AllLeaves(e.v, t) /\ Inj(t) /\ ToSet(t) = ToSet(r) \cup {l}
        /\ FlattenSeq(Lists(e.v, t)) = m \o <<phys>>
    <3> HIDE DEF r, m
    <3>1. l \in Block /\ l \notin ToSet(r)
      BY <2>3, <2>6
    <3>2. Agree(d.v, e.v, ToSet(r))
      <4>1. ToSet(r) \subseteq Block
        BY <2>2, ElementsIn
      <4> QED BY <2>7, <3>1, <4>1 DEF Agree
    <3> DEFINE p == <<phys>>
    <3>3. /\ d.v \in Volume /\ e.v \in Volume /\ r \in Seq(Block) /\ AllLeaves(d.v, r) /\ Inj(r)
          /\ p \in LeafText /\ e.v.data[l] = Leaf(p)
      BY <2>2, <2>4, <2>5, <2>7, <2>8, Zenon
    <3> HIDE DEF p
    <3>4. /\ AllLeaves(e.v, Append(r, l)) /\ Inj(Append(r, l)) /\ ToSet(Append(r, l)) = ToSet(r) \cup {l}
          /\ FlattenSeq(Lists(e.v, Append(r, l))) = FlattenSeq(Lists(d.v, r)) \o p
      BY <3>1, <3>2, <3>3, LeafPut
    <3> QED BY <2>5, <3>4, Zenon DEF p
  <2>10. /\ q \in NodeType /\ q.root = t /\ q.nblk = d.node.nblk + 1 /\ q.depth = 1
         /\ q.kind = d.node.kind /\ q.links = d.node.links /\ q.size = d.node.size
    <3>1. e.node = WithLeaf(d.node, l) /\ l \in Block /\ d.node \in NodeType
      BY <2>2, <2>3, Zenon
    <3> QED BY <3>1, WithLeafIn
  <2>11. t \in Seq(Block) /\ Len(t) = Len(r) + 1 /\ Len(r) \in Nat /\ t # <<>>
    <3>1. t \in Seq(Block) /\ Len(t) = Len(r) + 1 /\ Len(r) \in Nat
      BY <2>2, <2>3, AppendProperties, LenProperties
    <3>2. Len(t) # 0 /\ Len(<<>>) = 0
      BY <3>1
    <3> QED BY <3>1, <3>2
  <2> HIDE DEF t, q, r
  <2>12. Mapped(e.v, q) = FlattenSeq(Lists(e.v, t)) /\ Leaves(q) = ToSet(t)
    BY <2>10 DEF Mapped, Lists, Leaves
  <2> HIDE DEF m
  <2>13. Mapped(e.v, q) = Append(m, phys)
    <3>1. Append(m, phys) = m \o <<phys>>
      BY <2>2, <2>6, AppendIsConcat, Zenon
    <3> QED BY <2>9, <2>12, <3>1
  <2>14. Inj(Append(m, phys)) /\ ToSet(Append(m, phys)) = ToSet(m) \cup {phys}
    BY <2>2, <2>6, InjMore
  <2>15. Len(t) <= RootEntries
    BY <2>11, Sizes DEF r
  <2>16. Shaped(e.v, q)
    <3>1. Inj(Mapped(e.v, q))
      BY <2>13, <2>14
    <3>2. ToSet(Mapped(e.v, q)) \cap Leaves(q) = {}
      <4>1. ToSet(Mapped(e.v, q)) = ToSet(m) \cup {phys} /\ Leaves(q) = ToSet(r) \cup {l}
        BY <2>9, <2>12, <2>13, <2>14, Zenon
      <4>2. l \notin d.v.blocks /\ phys \in d.v.blocks /\ ToSet(m) \subseteq d.v.blocks
            /\ ToSet(m) \cap ToSet(r) = {} /\ phys \notin ToSet(r)
        BY <2>1, <2>3, <2>6, Zenon
      <4> QED BY <4>1, <4>2
    <3> QED BY <2>9, <2>10, <2>11, <2>15, <3>1, <3>2 DEF Shaped
  <2>17. Leaves(q) = Leaves(d.node) \cup {l}
    BY <2>5, <2>9, <2>12
  <2>18. q.nblk + Cardinality(Leaves(d.node)) = d.node.nblk + Cardinality(Leaves(q))
    <3>1. Cardinality(Leaves(q)) = Len(t)
      BY <2>4, <2>10, <2>16, MappedIn
    <3>2. Cardinality(Leaves(d.node)) = Len(r)
      BY <2>2, MappedIn DEF r
    <3>3. d.node.nblk \in Nat
      BY <2>2 DEF NodeType
    <3> QED BY <2>10, <2>11, <3>1, <3>2, <3>3, SMTT(40)
  <2>19. Agree(d.v, e.v, Block \ Leaves(q))
    BY <2>7, <2>17 DEF Agree
  <2>20. /\ Leaves(d.node) \subseteq Leaves(q) /\ (Leaves(q) \ Leaves(d.node)) \cap d.v.blocks = {}
         /\ e.v.blocks = d.v.blocks \cup Leaves(q)
    BY <2>3, <2>5, <2>6, <2>17
  <2>21. Grown(d, e)
    BY <2>3, <2>10, <2>16, <2>18, <2>19, <2>20 DEF Grown, q
  <2> QED BY <2>4, <2>13, <2>21 DEF Attaches, q, m
<1> QED BY <1>1, <1>2

LEMMA AppendToLeafSpec ==
  ASSUME NEW d, Live(d), Ok(d), Shaped(d.v, d.node), d.node.depth = 1, NEW phys, Loose(d, phys)
  PROVE  /\ Attaches(d, AppendToLeaf(d, phys), phys)
         /\ HasRoom(d, phys) => Ok(AppendToLeaf(d, phys))
<1> DEFINE e == AppendToLeaf(d, phys)
<1>1. CASE HasRoom(d, phys)
  <2>1. e = SetBlock(d, Last(d.node.root), Leaf(MoreOf(d, phys)))
    BY <1>1 DEF AppendToLeaf, HasRoom, MoreOf
  <2> HIDE DEF e
  <2>2. Attaches(d, e, phys) /\ Ok(e)
    BY <1>1, <2>1, LeafGrows
  <2> QED BY <2>2 DEF e
<1>2. CASE ~HasRoom(d, phys) /\ Len(d.node.root) >= RootEntries
  <2>1. e = Fail(d, "noSpace")
    BY <1>2 DEF AppendToLeaf, HasRoom, MoreOf
  <2> HIDE DEF e
  <2>2. "noSpace" \in Statuses
    BY DEF Statuses
  <2>3. Live(e) /\ e.status = "noSpace" /\ e.v = d.v /\ e.node = d.node /\ e.set = d.set
    BY <2>1, <2>2, FailDoes
  <2> QED BY <1>2, <2>3 DEF Attaches, e
<1>3. CASE ~HasRoom(d, phys) /\ ~(Len(d.node.root) >= RootEntries)
  <2>1. e = AddLeaf(allocBlock(d, phys + 1), d.node, <<phys>>)
    BY <1>3 DEF AppendToLeaf, HasRoom, MoreOf
  <2>2. d.node \in NodeType /\ phys \in Block
    BY DEF Live, Runs, Volume, Loose
  <2>3. phys + 1 \in Nat
    BY <2>2, BlockGroup
  <2>4. <<phys>> \in LeafText
    BY <2>2, OneLeaf
  <2> HIDE DEF e
  <2>5. AddsLeaf(d, e, d.node, <<phys>>)
    BY <2>1, <2>2, <2>3, <2>4, AddLeafSpec
  <2>6. Len(d.node.root) < RootEntries
    <3>1. Len(d.node.root) \in Nat
      BY <2>2, LenProperties DEF NodeType
    <3> QED BY <1>3, <3>1, Sizes
  <2>7. Attaches(d, e, phys)
    BY <2>5, <2>6, LeafAdded
  <2> QED BY <1>3, <2>7 DEF e
<1> QED BY <1>1, <1>2, <1>3

\* The root's blocks are in a leaf.
Pushes(d, e) ==
  /\ Live(e) /\ e.set = d.set
  /\ \/ e.status = "noSpace" /\ e.v = d.v /\ e.node = d.node
     \/ /\ Ok(e) /\ Grown(d, e) /\ Mapped(e.v, e.node) = Mapped(d.v, d.node) /\ e.node.depth = 1
        /\ e.v.data[Last(e.node.root)].blocks = d.node.root

LEMMA PushDownSpec ==
  ASSUME NEW d, Live(d), Ok(d), Shaped(d.v, d.node), d.node.depth = 0, NEW goal \in Nat,
         OwnedBy(d.v, d.node) \subseteq d.v.blocks
  PROVE  Pushes(d, PushDown(d, goal))
<1> DEFINE e == PushDown(d, goal)
           n0 == [d.node EXCEPT !.depth = 1, !.root = <<>>]
           s == d.node.root
<1>1. d.v \in Volume /\ d.node \in NodeType /\ s \in Seq(Block) /\ Fits(s, RootEntries) /\ Inj(s)
      /\ Mapped(d.v, d.node) = s /\ Leaves(d.node) = {} /\ ToSet(s) \subseteq d.v.blocks
  BY DEF Live, Runs, NodeType, Shaped, Mapped, Leaves, OwnedBy
<1>2. /\ n0 \in NodeType /\ n0.root = <<>> /\ n0.depth = 1 /\ n0.nblk = d.node.nblk /\ n0.kind = d.node.kind
      /\ n0.links = d.node.links /\ n0.size = d.node.size
  BY <1>1, EmptySeq DEF NodeType
<1> HIDE DEF n0
<1>3. s \in LeafText
  <2>1. RootEntries \in Nat /\ LeafEntries \in Nat /\ LeafEntries > RootEntries
    BY Sizes
  <2>2. \A b \in Block : Fits(s, LeafEntries)
    BY <1>1, <2>1, FitsSpec
  <2>3. \E b : b \in Block
    <3>1. Groups \in Nat /\ Groups >= 1 /\ BlocksPerGroup \in Nat /\ BlocksPerGroup >= 1
      BY Sizes
    <3>2. 0 \in Group /\ 1 \in 1 .. BlocksPerGroup
      BY <3>1 DEF Group
    <3>3. 0 * Span + 1 \in BlocksOf(0)
      BY <3>2 DEF BlocksOf
    <3> QED BY <3>2, <3>3 DEF Block
  <2> QED BY <1>1, <2>2, <2>3 DEF LeafText
<1> HIDE DEF s
<1>4. e = AddLeaf(allocBlock(d, goal), n0, s)
  BY DEF PushDown, n0, s
<1> HIDE DEF e
<1>5. AddsLeaf(d, e, n0, s)
  BY <1>2, <1>3, <1>4, AddLeafSpec
<1>6. CASE e.status = "noSpace" /\ e.v = d.v /\ e.node = d.node
  BY <1>5, <1>6 DEF AddsLeaf, Pushes, e
<1>7. CASE ~(e.status = "noSpace" /\ e.v = d.v /\ e.node = d.node)
  <2>1. PICK l \in Block \ d.v.blocks :
             /\ e.node = WithLeaf(n0, l) /\ Keeps(d.v, e.v)
             /\ e.v.blocks = d.v.blocks \cup {l} /\ e.v.inodes = d.v.inodes
             /\ e.v.data = [d.v.data EXCEPT ![l] = Leaf(s)] /\ Recounts(d.v, e.v)
    BY <1>5, <1>7 DEF AddsLeaf
  <2>2. Live(e) /\ Ok(e) /\ e.set = d.set /\ e.v \in Volume
    BY <1>5, <1>7, <2>1 DEF AddsLeaf, Keeps
  <2>3. e.v.data[l] = Leaf(s) /\ \A b \in Block : b # l => e.v.data[b] = d.v.data[b]
    BY <1>1, <2>1 DEF Volume
  <2> DEFINE q == e.node
             t == Append(<<>>, l)
  <2>4. /\ q \in NodeType /\ q.root = t /\ q.nblk = d.node.nblk + 1 /\ q.depth = 1
        /\ q.kind = d.node.kind /\ q.links = d.node.links /\ q.size = d.node.size
    <3>1. e.node = WithLeaf(n0, l) /\ l \in Block /\ n0 \in NodeType
      BY <1>2, <2>1, Zenon
    <3> QED BY <1>2, <3>1, WithLeafIn
  <2>5. <<>> \in Seq(Block) /\ ToSet(<<>>) = {} /\ Inj(<<>>) /\ AllLeaves(d.v, <<>>) /\ Lists(d.v, <<>>) = <<>>
    <3>1. <<>> \in Seq(Block) /\ Len(<<>>) = 0 /\ 1 .. 0 = {}
      BY EmptySeq
    <3> QED BY <3>1 DEF ToSet, Inj, AllLeaves, Lists
  <2>6. t \in Seq(Block) /\ Len(t) = 1 /\ t # <<>> /\ Last(t) = l
    <3>1. t = <<l>> /\ l \in Block
      BY <2>1
    <3>2. <<l>> \in Seq(Block) /\ Len(<<l>>) = 1 /\ <<l>> # <<>> /\ <<l>>[1] = l
      BY <3>1
    <3> QED BY <3>1, <3>2 DEF Last
  <2>7. /\ AllLeaves(e.v, t) /\ Inj(t) /\ ToSet(t) = {l} /\ FlattenSeq(Lists(e.v, t)) = s
    <3>1. /\ d.v \in Volume /\ e.v \in Volume /\ <<>> \in Seq(Block) /\ l \in Block /\ AllLeaves(d.v, <<>>)
          /\ Inj(<<>>) /\ l \notin ToSet(<<>>) /\ Agree(d.v, e.v, ToSet(<<>>)) /\ s \in LeafText
          /\ e.v.data[l] = Leaf(s)
      BY <1>1, <1>3, <2>1, <2>2, <2>3, <2>5 DEF Agree
    <3> DEFINE z == <<>>
    <3> HIDE DEF t
    <3>2. /\ AllLeaves(e.v, t) /\ Inj(t) /\ ToSet(t) = ToSet(z) \cup {l}
          /\ FlattenSeq(Lists(e.v, t)) = FlattenSeq(Lists(d.v, z)) \o s
      <4>1. /\ d.v \in Volume /\ e.v \in Volume /\ z \in Seq(Block) /\ l \in Block /\ AllLeaves(d.v, z)
            /\ Inj(z) /\ l \notin ToSet(z) /\ Agree(d.v, e.v, ToSet(z)) /\ s \in LeafText
            /\ e.v.data[l] = Leaf(s)
        BY <3>1, Zenon
      <4>2. t = Append(z, l)
        BY Zenon DEF t
      <4> HIDE DEF z
      <4>3. /\ AllLeaves(e.v, Append(z, l)) /\ Inj(Append(z, l)) /\ ToSet(Append(z, l)) = ToSet(z) \cup {l}
            /\ FlattenSeq(Lists(e.v, Append(z, l))) = FlattenSeq(Lists(d.v, z)) \o s
        BY <4>1, LeafPut
      <4> QED BY <4>2, <4>3, Zenon
    <3>3. FlattenSeq(Lists(d.v, <<>>)) = <<>>
      BY <2>5, Flattened
    <3>4. <<>> \o s = s
      BY <1>1, ConcatEmptySeq
    <3> QED BY <2>5, <3>2, <3>3, <3>4
  <2> HIDE DEF q, t
  <2>8. Mapped(e.v, q) = s /\ Leaves(q) = {l}
    BY <2>4, <2>7 DEF Mapped, Lists, Leaves
  <2>9. l \notin ToSet(s) /\ l \notin d.v.blocks /\ l \in Block
    BY <1>1, <2>1
  <2>10. Len(t) <= RootEntries
    BY <2>6, Sizes
  <2>11. Shaped(e.v, q)
    BY <1>1, <2>4, <2>6, <2>7, <2>8, <2>9, <2>10 DEF Shaped
  <2>12. q.nblk + Cardinality(Leaves(d.node)) = d.node.nblk + Cardinality(Leaves(q))
    <3>1. Cardinality(Leaves(q)) = 1 /\ Cardinality(Leaves(d.node)) = 0
      BY <1>1, <2>8, FS_Singleton, FS_EmptySet
    <3>2. d.node.nblk \in Nat
      BY <1>1 DEF NodeType
    <3> QED BY <2>4, <3>1, <3>2
  <2>13. Agree(d.v, e.v, Block \ Leaves(q))
    BY <2>3, <2>8 DEF Agree
  <2>14. Grown(d, e)
    BY <1>1, <2>1, <2>4, <2>8, <2>9, <2>11, <2>12, <2>13 DEF Grown, q
  <2>15. e.v.data[Last(q.root)].blocks = s
    BY <2>3, <2>4, <2>6 DEF Leaf
  <2> QED BY <1>1, <2>2, <2>4, <2>8, <2>14, <2>15 DEF Pushes, q, e, s
<1> QED BY <1>6, <1>7

LEMMA GrownMore ==
  ASSUME NEW d, NEW e, NEW f, Live(d), Live(e), Live(f), Shaped(d.v, d.node), Grown(d, e), Grown(e, f)
  PROVE  Grown(d, f)
<1> DEFINE l0 == Leaves(d.node)
           l1 == Leaves(e.node)
           l2 == Leaves(f.node)
<1>1. /\ Keeps(d.v, f.v) /\ f.v.inodes = d.v.inodes /\ Recounts(d.v, f.v) /\ Shaped(f.v, f.node)
      /\ f.node.kind = d.node.kind /\ f.node.links = d.node.links /\ f.node.size = d.node.size
  BY DEF Grown, Keeps, Recounts
<1>2. /\ l0 \subseteq l1 /\ (l1 \ l0) \cap d.v.blocks = {} /\ e.v.blocks = d.v.blocks \cup l1
      /\ l1 \subseteq l2 /\ (l2 \ l1) \cap e.v.blocks = {} /\ f.v.blocks = e.v.blocks \cup l2
  BY DEF Grown
<1>3. l0 \subseteq l2 /\ (l2 \ l0) \cap d.v.blocks = {} /\ f.v.blocks = d.v.blocks \cup l2
  BY <1>2
<1>4. Agree(d.v, f.v, Block \ l2)
  <2>1. Agree(d.v, e.v, Block \ l1) /\ Agree(e.v, f.v, Block \ l2)
    BY DEF Grown
  <2> HIDE DEF l1, l2
  <2> QED BY <1>2, <2>1 DEF Agree
<1>5. f.node.nblk + Cardinality(l0) = d.node.nblk + Cardinality(l2)
  <2>1. e.node.nblk + Cardinality(l0) = d.node.nblk + Cardinality(l1)
        /\ f.node.nblk + Cardinality(l1) = e.node.nblk + Cardinality(l2)
    BY DEF Grown
  <2>2. d.v \in Volume /\ e.v \in Volume /\ f.v \in Volume /\ Shaped(e.v, e.node)
    BY DEF Live, Runs, Grown
  <2>3. IsFiniteSet(l0) /\ IsFiniteSet(l1) /\ IsFiniteSet(l2)
    BY <1>1, <2>2, MappedIn
  <2>4. Cardinality(l0) \in Nat /\ Cardinality(l1) \in Nat /\ Cardinality(l2) \in Nat
    BY <2>3, FS_CardinalityType
  <2>5. d.node.nblk \in Nat /\ e.node.nblk \in Nat /\ f.node.nblk \in Nat
    BY DEF Live, Runs, NodeType
  <2> HIDE DEF l0, l1, l2
  <2> QED BY <2>1, <2>4, <2>5
<1> QED BY <1>1, <1>3, <1>4, <1>5 DEF Grown

LEMMA AppendBlockSpec ==
  ASSUME NEW d, Live(d), Ok(d), Shaped(d.v, d.node), NEW phys, Loose(d, phys),
         NEW logical, ~(logical < Len(Mapped(d.v, d.node)))
  PROVE  Attaches(d, appendBlock(d, logical, phys), phys)
<1> DEFINE e == appendBlock(d, logical, phys)
           m == Mapped(d.v, d.node)
<1>1. /\ phys \in d.v.blocks /\ phys \notin OwnedBy(d.v, d.node) /\ OwnedBy(d.v, d.node) \subseteq d.v.blocks
      /\ d.v \in Volume /\ d.node \in NodeType /\ phys \in Block /\ d.node.depth \in {0, 1}
      /\ d.node.root \in Seq(Block)
  BY DEF Live, Runs, NodeType, Volume, Loose
<1>2. CASE d.node.depth = 1
  <2>1. e = AppendToLeaf(d, phys)
    BY <1>2 DEF appendBlock
  <2> HIDE DEF e
  <2>2. Attaches(d, e, phys)
    BY <1>2, <2>1, AppendToLeafSpec
  <2> QED BY <2>2 DEF e
<1>3. CASE d.node.depth = 0 /\ RootTakes(d.node, phys)
  <2> DEFINE r == d.node.root
             t == Append(r, phys)
  <2>1. e = [d EXCEPT !.node.root = Append(@, phys)]
    BY <1>3 DEF appendBlock
  <2>2. /\ m = r /\ Leaves(d.node) = {} /\ Inj(r) /\ phys \notin ToSet(r) /\ Fits(t, RootEntries)
        /\ ToSet(r) \subseteq d.v.blocks
    BY <1>1, <1>3 DEF Shaped, Mapped, Leaves, OwnedBy, RootTakes
  <2>3. t \in Seq(Block) /\ Inj(t)
    BY <1>1, <2>2, InjMore
  <2> HIDE DEF t
  <2> DEFINE q == [d.node EXCEPT !.root = t]
  <2>4. /\ q \in NodeType /\ q.root = t /\ q.depth = 0 /\ q.nblk = d.node.nblk /\ q.kind = d.node.kind
        /\ q.links = d.node.links /\ q.size = d.node.size
    BY <1>1, <1>3, <2>3 DEF NodeType
  <2>5. e = [d EXCEPT !.node = q]
    BY <1>1, <2>1 DEF Live, Runs, NodeType, t
  <2> HIDE DEF q, e
  <2>6. Live(e) /\ Ok(e) /\ e.v = d.v /\ e.node = q /\ e.set = d.set
    <3>1. d \in Runs /\ d.kind = "none" /\ d.left = -1 /\ d.status = "ok"
      BY DEF Live, Ok
    <3>2. e \in Runs /\ e.kind = "none" /\ e.left = -1 /\ e.status = "ok" /\ e.v = d.v /\ e.node = q /\ e.set = d.set
      BY <2>4, <2>5, <3>1 DEF Runs
    <3> QED BY <3>2 DEF Live, Ok
  <2>7. Mapped(e.v, q) = t /\ Leaves(q) = {}
    BY <2>4 DEF Mapped, Leaves
  <2>8. Shaped(e.v, q)
    BY <2>2, <2>3, <2>4, <2>7 DEF Shaped
  <2>9. Grown(d, e)
    <3>1. Keeps(d.v, d.v) /\ Recounts(d.v, d.v) /\ Agree(d.v, d.v, Block)
      BY <1>1 DEF Keeps, Recounts, Agree
    <3> QED BY <2>2, <2>4, <2>6, <2>7, <2>8, <3>1 DEF Grown
  <2>10. Mapped(e.v, e.node) = Append(m, phys)
    BY <2>2, <2>6, <2>7 DEF t
  <2> QED BY <2>6, <2>9, <2>10 DEF Attaches, e
<1>4. CASE d.node.depth = 0 /\ ~RootTakes(d.node, phys)
  <2> DEFINE p == PushDown(d, phys + 1)
  <2>1. e = AppendToLeaf(p, phys)
    BY <1>4 DEF appendBlock
  <2>2. phys + 1 \in Nat
    BY <1>1, BlockGroup
  <2>3. Pushes(d, p)
    BY <1>1, <1>4, <2>2, PushDownSpec
  <2> HIDE DEF p
  <2>4. CASE p.status = "noSpace" /\ p.v = d.v /\ p.node = d.node
    <3>1. e = p
      BY <2>1, <2>4 DEF AppendToLeaf, Ok
    <3> HIDE DEF e
    <3> QED BY <2>3, <2>4, <3>1 DEF Pushes, Attaches, e
  <2>5. CASE ~(p.status = "noSpace" /\ p.v = d.v /\ p.node = d.node)
    <3>1. /\ Live(p) /\ Ok(p) /\ p.set = d.set /\ Grown(d, p) /\ Mapped(p.v, p.node) = m /\ p.node.depth = 1
          /\ p.v.data[Last(p.node.root)].blocks = d.node.root
      BY <2>3, <2>5 DEF Pushes
    <3>2. Shaped(p.v, p.node) /\ Leaves(d.node) = {} /\ ToSet(m) \subseteq d.v.blocks /\ phys \notin ToSet(m)
      BY <1>1, <1>4, <3>1 DEF Grown, Leaves, OwnedBy
    <3>3. Loose(p, phys)
      <4>1. p.v.blocks = d.v.blocks \cup Leaves(p.node) /\ Leaves(p.node) \cap d.v.blocks = {}
        BY <3>1, <3>2 DEF Grown
      <4> QED BY <1>1, <3>1, <3>2, <4>1 DEF Loose, OwnedBy
    <3>4. HasRoom(p, phys)
      <4>1. RootEntries \in Nat /\ LeafEntries \in Nat /\ LeafEntries > RootEntries
        BY Sizes
      <4>2. Fits(d.node.root, RootEntries)
        BY <1>4 DEF Shaped
      <4>3. Fits(Append(d.node.root, phys), LeafEntries)
        BY <1>1, <4>1, <4>2, FitsSpec
      <4> QED BY <3>1, <4>3 DEF HasRoom, MoreOf
    <3> HIDE DEF e
    <3>5. Attaches(p, e, phys) /\ Ok(e)
      BY <2>1, <3>1, <3>2, <3>3, <3>4, AppendToLeafSpec
    <3>6. Live(e) /\ e.set = d.set /\ Grown(p, e) /\ Mapped(e.v, e.node) = Append(m, phys)
      BY <3>1, <3>5 DEF Attaches, Ok
    <3>7. Grown(d, e)
      BY <3>1, <3>6, GrownMore
    <3> QED BY <3>5, <3>6, <3>7 DEF Attaches, e
  <2> QED BY <2>4, <2>5
<1> QED BY <1>1, <1>2, <1>3, <1>4

--------------------------------------------------------------------------------
(* The blocks of a volume and their owners *)

\* What the k-th block of an inode must hold.
Filled(content, node, k) ==
  IF node.kind = "dir" THEN content.kind = "dir" /\ LengthOf(content.recs) = Slots
  ELSE content.kind = "text" /\ content.units >= Min({Units, node.size - ((k - 1) * Units)})

AllFilled(v, node) == \A k \in 1 .. Len(Mapped(v, node)) : Filled(v.data[Mapped(v, node)[k]], node, k)

\* An inode that is as it should be, with all it owns.
Whole(v, node) ==
  /\ Shaped(v, node)
  /\ node.nblk = Len(Mapped(v, node)) + Cardinality(Leaves(node))
  /\ Len(Mapped(v, node)) = SizeInBlocks(node)
  /\ node.kind = "none" => node = NoInode
  /\ node.kind = "dir" => node.size = Len(Mapped(v, node)) * Units
  /\ AllFilled(v, node)

Owns(v, n) == OwnedBy(v, v.table[n])
Rest(v, n) == UNION {Owns(v, m) : m \in Inode \ {n}}

\* Every inode is whole, no block has two owners, and the blocks in use are
\* theirs and those of X: blocks a command has taken, or is about to free.
World(v, X) ==
  /\ v \in Volume
  /\ \A n \in Inode : Whole(v, v.table[n])
  /\ \A n, m \in Inode : n # m => Owns(v, n) \cap Owns(v, m) = {}
  /\ \A n \in Inode : Owns(v, n) \cap X = {}
  /\ X \subseteq Block
  /\ v.blocks = (UNION {Owns(v, n) : n \in Inode}) \cup X
  /\ \A n \in Inode \ v.inodes : v.table[n].kind = "none"

\* The volume as if an inode had been written.
View(v, n, node) == [v EXCEPT !.table[n] = node]

\* Inode n, and all that it owns, is in w what it is in v.
Same(v, w, n)   == w.table[n] = v.table[n] /\ Agree(v, w, Owns(v, n))
Others(v, w, n) == \A m \in Inode \ {n} : Same(v, w, m)

LEMMA ViewIn ==
  ASSUME NEW v \in Volume, NEW n \in Inode, NEW node \in NodeType
  PROVE  /\ View(v, n, node) \in Volume /\ View(v, n, node).table = [v.table EXCEPT ![n] = node]
         /\ View(v, n, node).blocks = v.blocks /\ View(v, n, node).inodes = v.inodes
         /\ View(v, n, node).data = v.data /\ View(v, n, node).clean = v.clean
         /\ View(v, n, node).groups = v.groups /\ View(v, n, node).free = v.free
         /\ View(v, n, node).table[n] = node
         /\ \A m \in Inode : m # n => View(v, n, node).table[m] = v.table[m]
<1> DEFINE t == [v.table EXCEPT ![n] = node]
           w == View(v, n, node)
<1>1. t \in [Inode -> NodeType] /\ t[n] = node /\ \A m \in Inode : m # n => t[m] = v.table[m]
  BY DEF Volume
<1>2. w = [v EXCEPT !.table = t]
  BY DEF View, Volume
<1> HIDE DEF w, t
<1>3. w \in Volume /\ w.table = t /\ w.blocks = v.blocks /\ w.inodes = v.inodes /\ w.data = v.data
      /\ w.clean = v.clean /\ w.groups = v.groups /\ w.free = v.free
  BY <1>1, <1>2 DEF Volume
<1> QED BY <1>1, <1>3 DEF w, t

\* An inode is whole as long as the blocks that it owns are left alone.
LEMMA WholeSame ==
  ASSUME NEW v, NEW w, NEW node, Whole(v, node), Agree(v, w, OwnedBy(v, node))
  PROVE  /\ Whole(w, node) /\ OwnedBy(w, node) = OwnedBy(v, node) /\ Mapped(w, node) = Mapped(v, node)
         /\ \A k \in 1 .. Len(Mapped(v, node)) : w.data[Mapped(v, node)[k]] = v.data[Mapped(v, node)[k]]
<1>1. Shaped(v, node) /\ node.root \in Seq(Block)
  BY DEF Whole, Shaped, NodeType
<1>2. Agree(v, w, Leaves(node)) /\ Agree(v, w, ToSet(Mapped(v, node)))
  BY DEF Agree, OwnedBy
<1>3. Mapped(w, node) = Mapped(v, node) /\ OwnedBy(w, node) = OwnedBy(v, node) /\ Shaped(w, node)
  BY <1>1, <1>2, MappedSame
<1> DEFINE m == Mapped(v, node)
<1>4. ASSUME NEW k \in 1 .. Len(m) PROVE w.data[m[k]] = v.data[m[k]]
  <2>1. m[k] \in ToSet(m)
    BY LenProperties DEF ToSet
  <2> HIDE DEF m
  <2> QED BY <1>2, <2>1 DEF Agree, m
<1>5. AllFilled(w, node)
  <2>1. \A k \in 1 .. Len(m) : Filled(v.data[m[k]], node, k)
    BY DEF Whole, AllFilled
  <2> HIDE DEF m
  <2>2. \A k \in 1 .. Len(m) : Filled(w.data[m[k]], node, k)
    BY <1>4, <2>1, Zenon
  <2> QED BY <1>3, <2>2, Zenon DEF AllFilled, m
<1>6. Whole(w, node)
  BY <1>3, <1>5, Zenon DEF Whole
<1> QED BY <1>3, <1>4, <1>6

\* A step that leaves the inodes alone, and all that they own.
LEMMA WorldKeeps ==
  ASSUME NEW v, NEW w, NEW X, NEW Y, World(v, X), w \in Volume, w.table = v.table,
         \A n \in Inode : Agree(v, w, Owns(v, n)), Y \subseteq Block, \A n \in Inode : Owns(v, n) \cap Y = {},
         w.blocks = (UNION {Owns(v, n) : n \in Inode}) \cup Y,
         \A n \in Inode \ w.inodes : v.table[n].kind = "none"
  PROVE  World(w, Y) /\ \A n \in Inode : Owns(w, n) = Owns(v, n) /\ Same(v, w, n)
<1>1. \A n \in Inode : Whole(v, v.table[n])
  BY DEF World
<1>2. ASSUME NEW n \in Inode PROVE Whole(w, w.table[n]) /\ Owns(w, n) = Owns(v, n)
  <2>1. Agree(v, w, OwnedBy(v, v.table[n]))
    BY DEF Owns
  <2>2. Whole(w, v.table[n]) /\ OwnedBy(w, v.table[n]) = OwnedBy(v, v.table[n])
    BY <1>1, <2>1, WholeSame
  <2> QED BY <2>2 DEF Owns
<1>3. \A n, m \in Inode : n # m => Owns(w, n) \cap Owns(w, m) = {}
  BY <1>2 DEF World
<1>4. w.blocks = (UNION {Owns(w, n) : n \in Inode}) \cup Y
  BY <1>2
<1> QED BY <1>2, <1>3, <1>4 DEF World, Same

\* A step that gives one inode another state.
LEMMA WorldSwap ==
  ASSUME NEW v, NEW w, NEW X, NEW Y, NEW n \in Inode, NEW node, World(v, X), w \in Volume,
         w.table[n] = node, Others(v, w, n), Whole(w, node), OwnedBy(w, node) \cap Rest(v, n) = {},
         Y \subseteq Block, Y \cap Rest(v, n) = {}, Y \cap OwnedBy(w, node) = {},
         w.blocks = Rest(v, n) \cup OwnedBy(w, node) \cup Y,
         node.kind = "none" \/ n \in w.inodes, \A m \in Inode \ w.inodes : m # n => v.table[m].kind = "none"
  PROVE  World(w, Y)
<1>1. \A m \in Inode : Whole(v, v.table[m])
  BY DEF World
<1>2. ASSUME NEW m \in Inode, m # n PROVE Whole(w, w.table[m]) /\ Owns(w, m) = Owns(v, m) /\ w.table[m] = v.table[m]
                                          /\ Owns(v, m) \subseteq Rest(v, n)
  <2>1. w.table[m] = v.table[m] /\ Agree(v, w, OwnedBy(v, v.table[m]))
    BY <1>2 DEF Others, Same, Owns
  <2>2. Whole(w, v.table[m]) /\ OwnedBy(w, v.table[m]) = OwnedBy(v, v.table[m])
    BY <1>1, <2>1, WholeSame
  <2> QED BY <1>2, <2>1, <2>2 DEF Owns, Rest
<1>3. Owns(w, n) = OwnedBy(w, node)
  BY DEF Owns
<1>4. \A m \in Inode : Whole(w, w.table[m])
  BY <1>2
<1>5. \A m, l \in Inode : m # l => Owns(w, m) \cap Owns(w, l) = {}
  <2> SUFFICES ASSUME NEW m \in Inode, NEW l \in Inode, m # l PROVE Owns(w, m) \cap Owns(w, l) = {}
    OBVIOUS
  <2>1. CASE m = n
    BY <1>2, <1>3, <2>1
  <2>2. CASE l = n
    BY <1>2, <1>3, <2>2
  <2>3. CASE m # n /\ l # n
    BY <1>2, <2>3 DEF World
  <2> QED BY <2>1, <2>2, <2>3
<1>6. \A m \in Inode : Owns(w, m) \cap Y = {}
  BY <1>2, <1>3
<1>7. UNION {Owns(w, m) : m \in Inode} = Rest(v, n) \cup OwnedBy(w, node)
  BY <1>2, <1>3 DEF Rest
<1>8. \A m \in Inode \ w.inodes : w.table[m].kind = "none"
  BY <1>2
<1>9. w.blocks = (UNION {Owns(w, m) : m \in Inode}) \cup Y
  BY <1>7
<1> QED BY <1>4, <1>5, <1>6, <1>8, <1>9, Zenon DEF World

\* From v to w the inodes are left alone, and all that they own; Y is taken
\* in place of X.
Frame(v, w, X, Y) ==
  /\ w \in Volume /\ w.table = v.table /\ w.inodes = v.inodes
  /\ Y \subseteq Block /\ Y \cap (v.blocks \ X) = {} /\ w.blocks = (v.blocks \ X) \cup Y
  /\ Agree(v, w, v.blocks \ X)

LEMMA OwnedBlocks ==
  ASSUME NEW v, NEW X, World(v, X)
  PROVE  v.blocks \ X = UNION {Owns(v, n) : n \in Inode}
BY DEF World

LEMMA WorldFrame ==
  ASSUME NEW v, NEW w, NEW X, NEW Y, World(v, X), Frame(v, w, X, Y)
  PROVE  World(w, Y) /\ \A n \in Inode : Owns(w, n) = Owns(v, n) /\ Same(v, w, n)
<1>1. v.blocks \ X = UNION {Owns(v, n) : n \in Inode}
  BY OwnedBlocks
<1>2. w \in Volume /\ w.table = v.table /\ w.inodes = v.inodes /\ Y \subseteq Block
  BY DEF Frame
<1>3. \A n \in Inode : Owns(v, n) \subseteq v.blocks \ X
  BY <1>1
<1>4. \A n \in Inode : Agree(v, w, Owns(v, n)) /\ Owns(v, n) \cap Y = {}
  BY <1>3 DEF Frame, Agree
<1>5. w.blocks = (UNION {Owns(v, n) : n \in Inode}) \cup Y
  BY <1>1 DEF Frame
<1>6. \A n \in Inode \ w.inodes : v.table[n].kind = "none"
  BY <1>2 DEF World
<1> QED BY <1>2, <1>4, <1>5, <1>6, WorldKeeps

LEMMA ViewFrame ==
  ASSUME NEW v \in Volume, NEW w, NEW X, NEW Y, Frame(v, w, X, Y), NEW n \in Inode, NEW node \in NodeType
  PROVE  Frame(View(v, n, node), View(w, n, node), X, Y)
<1> DEFINE a == View(v, n, node)
           b == View(w, n, node)
<1>1. w \in Volume /\ w.table = v.table
  BY DEF Frame
<1>2. /\ a.table = [v.table EXCEPT ![n] = node] /\ a.inodes = v.inodes /\ a.blocks = v.blocks /\ a.data = v.data
  BY ViewIn
<1>3. /\ b \in Volume /\ b.table = [w.table EXCEPT ![n] = node] /\ b.inodes = w.inodes /\ b.blocks = w.blocks
      /\ b.data = w.data
  BY <1>1, ViewIn
<1> HIDE DEF a, b
<1>4. Frame(a, b, X, Y)
  BY <1>1, <1>2, <1>3 DEF Frame, Agree
<1> QED BY <1>4 DEF a, b

\* A view of an inode as it is.
LEMMA ViewSelf ==
  ASSUME NEW v \in Volume, NEW n \in Inode
  PROVE  View(v, n, v.table[n]) = v
<1>1. [v.table EXCEPT ![n] = v.table[n]] = v.table
  BY DEF Volume
<1> QED BY <1>1 DEF View, Volume

LEMMA FrameMore ==
  ASSUME NEW u, NEW v, NEW w, NEW X, NEW Y, NEW Z, Frame(u, v, X, Y), Frame(v, w, Y, Z)
  PROVE  Frame(u, w, X, Z)
<1>1. v.blocks \ Y = u.blocks \ X
  BY DEF Frame
<1> QED BY <1>1 DEF Frame, Agree

LEMMA InUse ==
  ASSUME NEW v, NEW X, World(v, X)
  PROVE  X \subseteq v.blocks /\ X \subseteq Block /\ v \in Volume
BY DEF World

\* A view has another inode, and all else in common.
HasView(v, n, node, w) ==
  /\ w \in Volume /\ w.data = v.data /\ w.blocks = v.blocks /\ w.inodes = v.inodes /\ w.table[n] = node
  /\ \A m \in Inode : m # n => w.table[m] = v.table[m]

LEMMA ViewHas ==
  ASSUME NEW v \in Volume, NEW n \in Inode, NEW node \in NodeType
  PROVE  HasView(v, n, node, View(v, n, node))
<1> DEFINE w == View(v, n, node)
<1>1. w \in Volume /\ w.table = [v.table EXCEPT ![n] = node] /\ w.blocks = v.blocks /\ w.inodes = v.inodes
      /\ w.data = v.data
  BY ViewIn
<1>2. v.table \in [Inode -> NodeType]
  BY DEF Volume
<1> HIDE DEF w
<1>3. HasView(v, n, node, w)
  BY <1>1, <1>2 DEF HasView
<1> QED BY <1>3 DEF w

\* How the helpers move between frames.
LEMMA GrantsMove ==
  ASSUME NEW d, NEW e, NEW X, Live(d), X \subseteq d.v.blocks, X \subseteq Block, Grants(d, e), Ok(e)
  PROVE  /\ Frame(d.v, e.v, X, X \cup {e.out}) /\ Recounts(d.v, e.v) /\ Live(e)
         /\ e.out \in Block \ d.v.blocks /\ e.node = d.node /\ e.set = d.set
BY DEF Grants, Frame, Agree, Keeps, Ok

LEMMA FreesMove ==
  ASSUME NEW d, NEW e, NEW X, NEW run, Live(d), X \subseteq d.v.blocks, X \subseteq Block, run \subseteq X,
         Frees(d, e, run) \/ Undoes(d, e, run)
  PROVE  Frame(d.v, e.v, X, X \ run) /\ Recounts(d.v, e.v) /\ Live(e) /\ e.node = d.node /\ e.set = d.set
<1>1. /\ Keeps(d.v, e.v) /\ e.v.blocks = d.v.blocks \ run /\ e.v.inodes = d.v.inodes
      /\ e.v.data = [b \in Block |-> IF b \in run THEN Junk ELSE d.v.data[b]]
      /\ Recounts(d.v, e.v) /\ Live(e) /\ e.node = d.node /\ e.set = d.set
  BY DEF Frees, Undoes, Steps
<1>2. d.v.blocks \subseteq Block
  BY DEF Live, Runs, Volume
<1>3. Agree(d.v, e.v, d.v.blocks \ X)
  BY <1>1, <1>2 DEF Agree
<1> QED BY <1>1, <1>3 DEF Frame, Keeps

Holding(d, X, b) == Live(d) /\ X \subseteq d.v.blocks /\ X \subseteq Block /\ b \in X
Restores(d, e, X, b, content) ==
  /\ Frame(d.v, e.v, X, X) /\ Recounts(d.v, e.v) /\ Live(e) /\ Ok(e) /\ e.out = d.out
  /\ e.node = d.node /\ e.set = d.set /\ e.v.data[b] = content

LEMMA SetsMove ==
  ASSUME NEW d, NEW e, NEW X, NEW b, NEW content, Holding(d, X, b), Sets(d, e, b, content)
  PROVE  Restores(d, e, X, b, content)
<1>0. Live(d) /\ X \subseteq d.v.blocks /\ X \subseteq Block /\ b \in X
  BY DEF Holding
<1>1. /\ Steps(d, e) /\ Keeps(d.v, e.v) /\ e.v.blocks = d.v.blocks /\ e.v.inodes = d.v.inodes
      /\ e.v.data = [d.v.data EXCEPT ![b] = content] /\ Recounts(d.v, e.v)
  BY DEF Sets
<1>2. DOMAIN d.v.data = Block /\ b \in Block
  BY <1>0 DEF Live, Runs, Volume
<1>3. Agree(d.v, e.v, d.v.blocks \ X) /\ e.v.data[b] = content
  BY <1>0, <1>1, <1>2 DEF Agree
<1> QED BY <1>0, <1>1, <1>3 DEF Frame, Keeps, Steps, Restores

LEMMA MinPair ==
  ASSUME NEW a \in Int, NEW b \in Int
  PROVE  Min({a, b}) = IF a <= b THEN a ELSE b
BY DEF Min

LEMMA FullBlock ==
  ASSUME NEW n \in Nat, NEW k \in 1 .. n, NEW size \in Nat, size >= n * Units
  PROVE  Min({Units, size - ((k - 1) * Units)}) = Units
<1>1. Units \in Nat /\ Units >= 1
  BY Sizes
<1>2. k \in Nat /\ k - 1 \in Nat /\ k <= n
  OBVIOUS
<1> DEFINE p == k * Units
           q == (k - 1) * Units
           r == n * Units
<1>3. p <= r /\ p \in Nat /\ q \in Nat /\ r \in Nat
  BY <1>1, <1>2, Times
<1>4. p = q + Units
  <2>1. ((k - 1) + 1) * Units = (k - 1) * Units + Units
    BY <1>1, <1>2, Times
  <2>2. (k - 1) + 1 = k
    BY <1>2
  <2> QED BY <2>1, <2>2
<1> HIDE DEF p, q, r
<1>5. size - q \in Int /\ Units <= size - q
  <2>1. size >= r
    BY DEF r
  <2> QED BY <2>1, <1>1, <1>3, <1>4
<1>6. Min({Units, size - q}) = Units
  BY <1>1, <1>5, MinPair
<1> QED BY <1>6 DEF q

\* Sizes in units and in blocks.
LEMMA SizeOf ==
  ASSUME NEW q \in Nat, NEW node
  PROVE  /\ node.size = q * Units => SizeInBlocks(node) = q
         /\ \A r \in 1 .. Units : node.size = q * Units + r => SizeInBlocks(node) = q + 1
<1>1. Units \in Nat /\ Units >= 1
  BY Sizes
<1> DEFINE p == q * Units
<1>2. p \in Nat /\ (q + 1) * Units = p + Units
  BY <1>1, Times
<1>3. ASSUME node.size = p PROVE SizeInBlocks(node) = q
  <2>1. Units - 1 \in 0 .. Units - 1
    BY <1>1
  <2>2. (p + (Units - 1)) \div Units = q
    BY <1>1, <2>1, Divided, Zenon DEF p
  <2> HIDE DEF p
  <2>3. node.size + Units - 1 = p + (Units - 1)
    BY <1>1, <1>2, <1>3
  <2> QED BY <2>2, <2>3, Zenon DEF SizeInBlocks
<1>4. ASSUME NEW r \in 1 .. Units, node.size = p + r PROVE SizeInBlocks(node) = q + 1
  <2>1. r - 1 \in 0 .. Units - 1
    BY <1>1
  <2>2. q + 1 \in Nat
    OBVIOUS
  <2>3. ((q + 1) * Units + (r - 1)) \div Units = q + 1
    BY <1>1, <2>1, <2>2, Divided, Zenon
  <2> HIDE DEF p
  <2>4. node.size + Units - 1 = (p + Units) + (r - 1)
    BY <1>1, <1>2, <1>4
  <2> QED BY <1>2, <2>3, <2>4, Zenon DEF SizeInBlocks
<1> QED BY <1>3, <1>4 DEF p

LEMMA FilledMore ==
  ASSUME NEW n \in Nat, NEW k \in 1 .. n, NEW node, node.size \in Nat, node.size >= n * Units,
         NEW node2, node2.size \in Nat, node2.kind = node.kind,
         NEW content, content.units \in Nat \/ content.kind # "text", Filled(content, node, k)
  PROVE  Filled(content, node2, k)
<1>1. CASE node.kind = "dir"
  BY <1>1 DEF Filled
<1>2. CASE node.kind # "dir"
  <2>1. content.kind = "text" /\ content.units >= Units /\ content.units \in Nat
    BY <1>2, FullBlock DEF Filled
  <2>2. Units \in Nat /\ Units >= 1
    BY Sizes
  <2>3. (k - 1) * Units \in Nat
    <3>1. k - 1 \in Nat
      OBVIOUS
    <3> QED BY <3>1, <2>2, Times
  <2> DEFINE x == node2.size - ((k - 1) * Units)
  <2>4. x \in Int
    BY <2>3
  <2>5. Min({Units, x}) \in Int /\ Min({Units, x}) <= Units
    <3> HIDE DEF x
    <3> QED BY <2>2, <2>4, MinPair
  <2>6. content.units >= Min({Units, x})
    <3> HIDE DEF x
    <3> QED BY <2>1, <2>2, <2>5
  <2> QED BY <1>2, <2>1, <2>6 DEF Filled
<1> QED BY <1>1, <1>2

\* An inode with the same tree.
SameTree(a, b) == a.kind = b.kind /\ a.depth = b.depth /\ a.root = b.root

LEMMA TreeSame ==
  ASSUME NEW v, NEW a, NEW b, SameTree(a, b), b \in NodeType
  PROVE  Mapped(v, b) = Mapped(v, a) /\ Leaves(b) = Leaves(a) /\ OwnedBy(v, b) = OwnedBy(v, a)
         /\ (Shaped(v, a) => Shaped(v, b))
<1>1. Mapped(v, b) = Mapped(v, a) /\ Leaves(b) = Leaves(a)
  BY DEF SameTree, Mapped, Leaves
<1>2. OwnedBy(v, b) = OwnedBy(v, a)
  BY <1>1 DEF OwnedBy
<1>3. Shaped(v, a) => Shaped(v, b)
  BY <1>1 DEF Shaped, SameTree
<1> QED BY <1>1, <1>2, <1>3

\* Inode n, which stands in memory, is about to get a block.
Prior(d, n, node, X) ==
  /\ World(View(d.v, n, node), X) /\ Live(d) /\ node \in NodeType
  /\ SameTree(node, d.node) /\ node.nblk = d.node.nblk /\ node.kind # "none" /\ n \in d.v.inodes
  /\ node.size = Len(Mapped(d.v, d.node)) * Units

\* The block is attached, its content and the inode are as in w.
Wrote(d, e, w, n, node, phys) ==
  /\ w \in Volume /\ w.inodes = e.v.inodes /\ w.blocks = e.v.blocks /\ Agree(e.v, w, Block \ {phys})
  /\ w.table[n] = node /\ (\A m \in Inode \ {n} : w.table[m] = e.v.table[m])
  /\ node \in NodeType /\ SameTree(e.node, node) /\ node.nblk = e.node.nblk + 1
  /\ SizeInBlocks(node) = Len(Mapped(d.v, d.node)) + 1
  /\ node.kind = "dir" => node.size = (Len(Mapped(d.v, d.node)) + 1) * Units
  /\ Filled(w.data[phys], node, Len(Mapped(d.v, d.node)) + 1)

\* What the attached block makes of the inode's list.
Lengthens(v, w, n, m, phys) ==
  /\ Mapped(w, w.table[n]) = Append(m, phys) /\ Others(v, w, n)
  /\ m \in Seq(Block) /\ \A k \in 1 .. Len(m) : w.data[m[k]] = v.data[m[k]]

LEMMA PriorFacts ==
  ASSUME NEW d, NEW n \in Inode, NEW node, NEW X, Prior(d, n, node, X), NEW phys \in X
  PROVE  /\ Shaped(d.v, d.node) /\ Loose(d, phys) /\ Ok(d) \in BOOLEAN
         /\ Owns(View(d.v, n, node), n) = OwnedBy(d.v, d.node)
         /\ Mapped(View(d.v, n, node), node) = Mapped(d.v, d.node)
         /\ Whole(View(d.v, n, node), node)
<1> DEFINE v == View(d.v, n, node)
<1>1. d.v \in Volume /\ d.node \in NodeType /\ node \in NodeType
  BY DEF Prior, Live, Runs
<1>2. v.data = d.v.data /\ v.blocks = d.v.blocks /\ v.table[n] = node
  BY <1>1, ViewHas DEF HasView
<1>3. World(v, X) /\ SameTree(node, d.node)
  BY DEF Prior
<1> HIDE DEF v
<1>4. Whole(v, node) /\ Owns(v, n) = OwnedBy(v, node) /\ node.root \in Seq(Block) /\ Shaped(v, node)
  <2>1. Whole(v, v.table[n])
    BY <1>3 DEF World
  <2> QED BY <2>1, <1>1, <1>2 DEF Owns, NodeType, Whole
<1>5. Shaped(v, d.node) /\ OwnedBy(v, d.node) = OwnedBy(v, node) /\ Mapped(v, d.node) = Mapped(v, node)
      /\ d.node.root \in Seq(Block)
  BY <1>1, <1>3, <1>4, TreeSame DEF SameTree
<1>6. Agree(v, d.v, Leaves(d.node))
  BY <1>2 DEF Agree
<1>7. Shaped(d.v, d.node) /\ OwnedBy(d.v, d.node) = OwnedBy(v, d.node) /\ Mapped(d.v, d.node) = Mapped(v, d.node)
  BY <1>5, <1>6, MappedSame
<1>8. Loose(d, phys)
  BY <1>2, <1>3, <1>4, <1>5, <1>7 DEF World, Loose
<1> QED BY <1>4, <1>5, <1>7, <1>8 DEF v, Ok

LEMMA AttachedWorld ==
  ASSUME NEW d, NEW e, NEW w, NEW n \in Inode, NEW node, NEW node2, NEW X, NEW phys \in X,
         Prior(d, n, node, X), Live(e), Grown(d, e), Mapped(e.v, e.node) = Append(Mapped(d.v, d.node), phys),
         Wrote(d, e, w, n, node2, phys)
  PROVE  World(w, X \ {phys}) /\ Lengthens(View(d.v, n, node), w, n, Mapped(d.v, d.node), phys)
<1> DEFINE v == View(d.v, n, node)
           m == Mapped(d.v, d.node)
           L1 == Leaves(d.node)
           L2 == Leaves(e.node)
<1>1. d.v \in Volume /\ d.node \in NodeType /\ node \in NodeType /\ e.v \in Volume /\ e.node \in NodeType
  BY DEF Prior, Live, Runs
<1>2. /\ v.data = d.v.data /\ v.blocks = d.v.blocks /\ v.table[n] = node /\ v.inodes = d.v.inodes /\ v \in Volume
      /\ \A j \in Inode : j # n => v.table[j] = d.v.table[j]
  <2>1. HasView(d.v, n, node, v)
    BY <1>1, ViewHas
  <2> HIDE DEF v
  <2> QED BY <2>1, Zenon DEF HasView
<1>3. World(v, X) /\ SameTree(node, d.node) /\ node.nblk = d.node.nblk /\ node.kind # "none" /\ n \in d.v.inodes
      /\ node.size = Len(m) * Units
  BY DEF Prior
<1>4. Shaped(d.v, d.node) /\ Loose(d, phys) /\ Owns(v, n) = OwnedBy(d.v, d.node) /\ Mapped(v, node) = m
      /\ Whole(v, node)
  BY PriorFacts
<1>5. m \in Seq(Block) /\ L1 \subseteq Block /\ OwnedBy(d.v, d.node) = ToSet(m) \cup L1
      /\ Len(m) \in Nat /\ Cardinality(L1) \in Nat
  <2>1. m \in Seq(Block) /\ L1 \subseteq Block /\ IsFiniteSet(L1)
    BY <1>1, <1>4, MappedIn
  <2> QED BY <2>1, FS_CardinalityType, LenProperties DEF OwnedBy
<1>6. /\ Keeps(d.v, e.v) /\ e.v.inodes = d.v.inodes /\ Shaped(e.v, e.node)
      /\ L1 \subseteq L2 /\ (L2 \ L1) \cap d.v.blocks = {} /\ e.v.blocks = d.v.blocks \cup L2
      /\ e.node.nblk + Cardinality(L1) = d.node.nblk + Cardinality(L2)
      /\ e.node.kind = d.node.kind /\ Agree(d.v, e.v, Block \ L2)
  BY DEF Grown
<1>7. /\ w \in Volume /\ w.inodes = e.v.inodes /\ w.blocks = e.v.blocks /\ Agree(e.v, w, Block \ {phys})
      /\ w.table[n] = node2 /\ (\A j \in Inode \ {n} : w.table[j] = e.v.table[j])
      /\ node2 \in NodeType /\ SameTree(e.node, node2) /\ node2.nblk = e.node.nblk + 1
      /\ SizeInBlocks(node2) = Len(m) + 1
      /\ (node2.kind = "dir" => node2.size = (Len(m) + 1) * Units)
      /\ Filled(w.data[phys], node2, Len(m) + 1)
  BY DEF Wrote
<1>8. Mapped(e.v, e.node) = Append(m, phys)
  OBVIOUS
<1>9. phys \in Block /\ phys \notin ToSet(m) /\ phys \in d.v.blocks /\ OwnedBy(d.v, d.node) \subseteq d.v.blocks
      /\ X \subseteq Block /\ X \subseteq d.v.blocks
  BY <1>2, <1>3, <1>4, <1>5 DEF Loose, World
<1> HIDE DEF v, m
<1>10. ToSet(Append(m, phys)) = ToSet(m) \cup {phys} /\ Len(Append(m, phys)) = Len(m) + 1
       /\ Append(m, phys)[Len(m) + 1] = phys /\ \A k \in 1 .. Len(m) : Append(m, phys)[k] = m[k]
  BY <1>5, <1>9, InjMore, AppendProperties
<1>11. (ToSet(m) \cup {phys}) \cap L2 = {} /\ L2 \subseteq Block /\ IsFiniteSet(L2)
  <2>1. ToSet(Mapped(e.v, e.node)) \cap L2 = {}
    BY <1>6 DEF Shaped
  <2> QED BY <2>1, <1>1, <1>6, <1>8, <1>10, MappedIn
<1>12. Leaves(node2) = L2 /\ Shaped(w, node2) /\ Mapped(w, node2) = Append(m, phys)
       /\ OwnedBy(w, node2) = ToSet(m) \cup {phys} \cup L2
  <2>1. Shaped(e.v, node2) /\ Mapped(e.v, node2) = Append(m, phys) /\ Leaves(node2) = L2
    BY <1>6, <1>7, <1>8, TreeSame
  <2>2. Agree(e.v, w, L2) /\ node2.root \in Seq(Block)
    BY <1>7, <1>11 DEF Agree, NodeType
  <2>3. Shaped(w, node2) /\ Mapped(w, node2) = Append(m, phys)
    BY <2>1, <2>2, MappedSame
  <2> QED BY <2>1, <2>3, <1>10 DEF OwnedBy
<1>13. \A k \in 1 .. Len(m) : m[k] \in ToSet(m) /\ m[k] \in Block
  BY <1>5, LenProperties DEF ToSet
<1>14. \A k \in 1 .. Len(m) : w.data[m[k]] = v.data[m[k]]
  <2> TAKE k \in 1 .. Len(m)
  <2>1. m[k] \in Block /\ m[k] \notin L2 /\ m[k] # phys
    BY <1>9, <1>11, <1>13
  <2> QED BY <2>1, <1>2, <1>6, <1>7 DEF Agree
<1>15. AllFilled(w, node2)
  <2>1. ASSUME NEW k \in 1 .. Len(m) PROVE Filled(w.data[Append(m, phys)[k]], node2, k)
    <3>1. Filled(v.data[m[k]], node, k)
      <4>1. Whole(v, node) /\ Mapped(v, node) = m
        BY <1>4
      <4> QED BY <4>1 DEF Whole, AllFilled
    <3>2. v.data[m[k]] \in Content
      BY <1>2, <1>13 DEF Volume
    <3>3. v.data[m[k]].units \in Nat \/ v.data[m[k]].kind # "text"
      BY <3>2 DEF Content
    <3>4. node2.kind = node.kind /\ node2.size \in Nat
      BY <1>3, <1>6, <1>7 DEF SameTree, NodeType
    <3>5. node.size \in Nat /\ node.size >= Len(m) * Units
      BY <1>1, <1>3 DEF NodeType
    <3>6. Filled(v.data[m[k]], node2, k)
      BY <1>5, <3>1, <3>3, <3>4, <3>5, FilledMore
    <3> QED BY <3>6, <1>10, <1>14
  <2>2. Filled(w.data[Append(m, phys)[Len(m) + 1]], node2, Len(m) + 1)
    BY <1>7, <1>10
  <2>3. \A k \in 1 .. Len(m) + 1 : k \in 1 .. Len(m) \/ k = Len(m) + 1
    BY <1>5
  <2>4. \A k \in 1 .. Len(m) + 1 : Filled(w.data[Append(m, phys)[k]], node2, k)
    BY <2>1, <2>2, <2>3, Zenon
  <2> QED BY <2>4, <1>10, <1>12, Zenon DEF AllFilled
<1>16. Whole(w, node2)
  <2>1. node.nblk = Len(m) + Cardinality(L1)
    <3>1. node.nblk = Len(Mapped(v, node)) + Cardinality(Leaves(node))
      BY <1>4 DEF Whole
    <3>2. Leaves(node) = L1
      BY <1>1, <1>3, TreeSame
    <3> QED BY <3>1, <3>2, <1>4
  <2>2. node2.nblk = (Len(m) + 1) + Cardinality(L2)
    <3>1. Cardinality(L2) \in Nat /\ e.node.nblk \in Nat
      BY <1>1, <1>11, FS_CardinalityType DEF NodeType
    <3>2. e.node.nblk + Cardinality(L1) = d.node.nblk + Cardinality(L2) /\ node.nblk = d.node.nblk
          /\ node2.nblk = e.node.nblk + 1 /\ Len(m) \in Nat /\ Cardinality(L1) \in Nat
      BY <1>3, <1>5, <1>6, <1>7
    <3> HIDE DEF L1, L2
    <3> QED BY <3>1, <3>2, <2>1
  <2>3. node2.kind # "none"
    BY <1>3, <1>6, <1>7 DEF SameTree
  <2> QED BY <2>2, <2>3, <1>7, <1>10, <1>12, <1>15 DEF Whole
<1>17. Rest(v, n) \subseteq d.v.blocks /\ Rest(v, n) \cap OwnedBy(d.v, d.node) = {} /\ Rest(v, n) \cap X = {}
       /\ d.v.blocks = Rest(v, n) \cup OwnedBy(d.v, d.node) \cup X
  <2>1. (UNION {Owns(v, j) : j \in Inode}) = Rest(v, n) \cup Owns(v, n)
    BY DEF Rest
  <2>2. v.blocks = (UNION {Owns(v, j) : j \in Inode}) \cup X
    BY <1>3 DEF World
  <2>3. Rest(v, n) \cap Owns(v, n) = {} /\ Rest(v, n) \cap X = {}
    BY <1>3 DEF World, Rest
  <2> QED BY <2>1, <2>2, <2>3, <1>2, <1>4
<1>18. OwnedBy(d.v, d.node) \cap X = {}
  BY <1>3, <1>4 DEF World
<1>19. Others(v, w, n)
  <2> SUFFICES ASSUME NEW j \in Inode \ {n} PROVE Same(v, w, j)
    BY DEF Others
  <2>1. w.table[j] = v.table[j]
    BY <1>2, <1>6, <1>7 DEF Keeps
  <2>2. Owns(v, j) \subseteq Rest(v, n)
    BY DEF Rest
  <2>3. Owns(v, j) \cap L2 = {} /\ phys \notin Owns(v, j) /\ Owns(v, j) \subseteq Block
    <3>1. d.v.blocks \subseteq Block
      BY <1>1 DEF Volume
    <3> QED BY <3>1, <2>2, <1>5, <1>6, <1>17
  <2>4. Agree(v, w, Owns(v, j))
    BY <2>3, <1>2, <1>6, <1>7 DEF Agree
  <2> QED BY <2>1, <2>4 DEF Same
<1>20. World(w, X \ {phys})
  <2> DEFINE Y == X \ {phys}
  <2>1. OwnedBy(w, node2) \cap Rest(v, n) = {}
    BY <1>5, <1>6, <1>12, <1>17
  <2>2. Y \subseteq Block /\ Y \cap Rest(v, n) = {} /\ Y \cap OwnedBy(w, node2) = {}
    BY <1>5, <1>6, <1>9, <1>12, <1>17, <1>18
  <2>3. w.blocks = Rest(v, n) \cup OwnedBy(w, node2) \cup Y
    BY <1>5, <1>6, <1>7, <1>12, <1>17
  <2>4. n \in w.inodes /\ \A j \in Inode \ w.inodes : j # n => v.table[j].kind = "none"
    BY <1>2, <1>3, <1>6, <1>7 DEF World
  <2> HIDE DEF Y
  <2>5. World(w, Y)
    BY <1>3, <1>7, <1>16, <1>19, <2>1, <2>2, <2>3, <2>4, WorldSwap
  <2> QED BY <2>5 DEF Y
<1>21. Lengthens(v, w, n, m, phys)
  BY <1>5, <1>7, <1>12, <1>14, <1>19 DEF Lengthens
<1> QED BY <1>20, <1>21 DEF v, m

\* Inode n has other contents in blocks S of its list, and the same tree.
Rewrote(v, w, n, S) ==
  /\ w \in Volume /\ w.inodes = v.inodes /\ w.blocks = v.blocks
  /\ S \subseteq ToSet(Mapped(v, v.table[n])) /\ Agree(v, w, Block \ S)
  /\ \A m \in Inode \ {n} : w.table[m] = v.table[m]
  /\ SameTree(v.table[n], w.table[n]) /\ w.table[n].nblk = v.table[n].nblk
  /\ SizeInBlocks(w.table[n]) = Len(Mapped(v, v.table[n]))
  /\ w.table[n].kind = "dir" => w.table[n].size = v.table[n].size
  /\ w.table[n].kind = "none" => w.table[n] = NoInode
  /\ \A k \in 1 .. Len(Mapped(v, v.table[n])) : Filled(w.data[Mapped(v, v.table[n])[k]], w.table[n], k)

LEMMA RewrittenWorld ==
  ASSUME NEW v, NEW w, NEW X, NEW n \in Inode, NEW S, World(v, X), Rewrote(v, w, n, S)
  PROVE  World(w, X) /\ Others(v, w, n) /\ Mapped(w, w.table[n]) = Mapped(v, v.table[n])
<1> DEFINE a == v.table[n]
           b == w.table[n]
           m == Mapped(v, a)
<1>1. /\ w \in Volume /\ w.inodes = v.inodes /\ w.blocks = v.blocks
      /\ S \subseteq ToSet(m) /\ Agree(v, w, Block \ S)
      /\ \A j \in Inode \ {n} : w.table[j] = v.table[j]
      /\ SameTree(a, b) /\ b.nblk = a.nblk /\ SizeInBlocks(b) = Len(m)
      /\ (b.kind = "dir" => b.size = a.size) /\ (b.kind = "none" => b = NoInode)
      /\ \A k \in 1 .. Len(m) : Filled(w.data[m[k]], b, k)
  BY DEF Rewrote
<1>2. v \in Volume /\ Whole(v, a) /\ X \subseteq Block
  BY DEF World
<1>3. a \in NodeType /\ b \in NodeType /\ a.root \in Seq(Block)
  BY <1>1, <1>2 DEF Volume, NodeType
<1>4. Shaped(v, a) /\ ToSet(m) \cap Leaves(a) = {} /\ Leaves(a) \subseteq Block /\ OwnedBy(v, a) = ToSet(m) \cup Leaves(a)
  BY <1>2, MappedIn DEF Whole, Shaped, OwnedBy
<1>5. Shaped(v, b) /\ Mapped(v, b) = m /\ OwnedBy(v, b) = OwnedBy(v, a) /\ Leaves(b) = Leaves(a)
  BY <1>1, <1>3, <1>4, TreeSame
<1>6. Agree(v, w, Leaves(b)) /\ b.root \in Seq(Block)
  BY <1>1, <1>3, <1>4, <1>5 DEF Agree, SameTree
<1>7. Shaped(w, b) /\ Mapped(w, b) = m /\ OwnedBy(w, b) = OwnedBy(v, a)
  BY <1>5, <1>6, MappedSame
<1> HIDE DEF a, b, m
<1>8. Whole(w, b)
  <2>1. a.nblk = Len(m) + Cardinality(Leaves(a))
    BY <1>2 DEF Whole, m
  <2>2. a.kind = "dir" => a.size = Len(m) * Units
    BY <1>2 DEF Whole, m
  <2>3. AllFilled(w, b)
    BY <1>1, <1>7, Zenon DEF AllFilled
  <2> QED BY <1>1, <1>5, <1>7, <2>1, <2>2, <2>3 DEF Whole, SameTree
<1>9. Owns(v, n) = OwnedBy(v, a) /\ Owns(v, n) \cap Rest(v, n) = {} /\ Rest(v, n) \subseteq Block
      /\ X \cap Rest(v, n) = {} /\ X \cap Owns(v, n) = {} /\ v.blocks = Rest(v, n) \cup Owns(v, n) \cup X
  <2>1. (UNION {Owns(v, j) : j \in Inode}) = Rest(v, n) \cup Owns(v, n)
    BY DEF Rest
  <2>2. v.blocks = (UNION {Owns(v, j) : j \in Inode}) \cup X
    BY DEF World
  <2>3. Rest(v, n) \cap Owns(v, n) = {} /\ Rest(v, n) \cap X = {} /\ X \cap Owns(v, n) = {}
    BY DEF World, Rest
  <2>4. v.blocks \subseteq Block
    BY <1>2 DEF Volume
  <2> QED BY <2>1, <2>2, <2>3, <2>4 DEF Owns, a
<1>10. Others(v, w, n)
  <2> SUFFICES ASSUME NEW j \in Inode \ {n} PROVE Same(v, w, j)
    BY DEF Others
  <2>1. Owns(v, j) \subseteq Rest(v, n)
    BY DEF Rest
  <2>2. Agree(v, w, Owns(v, j))
    BY <2>1, <1>1, <1>4, <1>9 DEF Agree
  <2> QED BY <2>2, <1>1 DEF Same
<1>11. b.kind = "none" \/ n \in w.inodes
  BY <1>1, <1>2 DEF World, SameTree, a
<1>12. \A j \in Inode \ w.inodes : j # n => v.table[j].kind = "none"
  BY <1>1 DEF World
<1>13. w.blocks = Rest(v, n) \cup OwnedBy(w, b) \cup X /\ OwnedBy(w, b) \cap Rest(v, n) = {} /\ X \cap OwnedBy(w, b) = {}
  BY <1>1, <1>7, <1>9
<1>14. World(w, X)
  BY <1>1, <1>2, <1>8, <1>9, <1>10, <1>11, <1>12, <1>13, WorldSwap DEF b
<1> QED BY <1>7, <1>10, <1>14 DEF a, b, m

\* What is left alone in two steps.
LEMMA OthersMore ==
  ASSUME NEW u, NEW v, NEW w, NEW X, NEW n \in Inode, World(u, X), Others(u, v, n), Others(v, w, n)
  PROVE  Others(u, w, n)
<1> SUFFICES ASSUME NEW j \in Inode \ {n} PROVE Same(u, w, j)
  BY DEF Others
<1>1. Same(u, v, j) /\ Same(v, w, j)
  BY DEF Others
<1>2. Whole(u, u.table[j])
  BY DEF World
<1>3. Agree(u, v, OwnedBy(u, u.table[j])) /\ v.table[j] = u.table[j]
  BY <1>1 DEF Same, Owns
<1>4. OwnedBy(v, u.table[j]) = OwnedBy(u, u.table[j])
  BY <1>2, <1>3, WholeSame
<1> QED BY <1>1, <1>3, <1>4 DEF Same, Owns, Agree

\* Two volumes that differ in the state of one inode.
Near(v, u, n) == u.data = v.data /\ \A m \in Inode \ {n} : u.table[m] = v.table[m]

LEMMA NearView ==
  ASSUME NEW v \in Volume, NEW n \in Inode, NEW node \in NodeType
  PROVE  Near(v, View(v, n, node), n) /\ Near(View(v, n, node), v, n) /\ Near(v, v, n)
<1> DEFINE w == View(v, n, node)
<1>1. HasView(v, n, node, w)
  BY ViewHas
<1> HIDE DEF w
<1>2. Near(v, w, n) /\ Near(w, v, n) /\ Near(v, v, n)
  BY <1>1 DEF HasView, Near
<1> QED BY <1>2 DEF w

LEMMA OthersNear ==
  ASSUME NEW v, NEW w, NEW x, NEW y, NEW n, Near(v, x, n), Near(w, y, n), Others(v, w, n)
  PROVE  Others(x, y, n)
<1> SUFFICES ASSUME NEW j \in Inode \ {n} PROVE Same(x, y, j)
  BY DEF Others
<1>1. Same(v, w, j)
  BY DEF Others
<1>2. x.table[j] = v.table[j] /\ y.table[j] = w.table[j] /\ x.data = v.data /\ y.data = w.data
  BY DEF Near
<1>3. Owns(x, j) = Owns(v, j)
  BY <1>2 DEF Owns, OwnedBy, Mapped
<1> QED BY <1>1, <1>2, <1>3 DEF Same, Agree

\* Another size.
Sized(node, size) == [node EXCEPT !.size = size]

LEMMA SizedIn ==
  ASSUME NEW node \in NodeType, NEW s \in Nat
  PROVE  /\ Sized(node, s) \in NodeType /\ Sized(node, s).size = s /\ Sized(node, s).kind = node.kind
         /\ Sized(node, s).links = node.links /\ Sized(node, s).nblk = node.nblk
         /\ Sized(node, s).depth = node.depth /\ Sized(node, s).root = node.root
         /\ SameTree(Sized(node, s), node) /\ SameTree(node, Sized(node, s))
<1> DEFINE x == Sized(node, s)
<1>1. x = [node EXCEPT !.size = s]
  BY DEF Sized
<1> HIDE DEF x
<1>2. /\ x \in NodeType /\ x.size = s /\ x.kind = node.kind /\ x.links = node.links /\ x.nblk = node.nblk
      /\ x.depth = node.depth /\ x.root = node.root
  BY <1>1 DEF NodeType
<1> QED BY <1>2 DEF x, SameTree

\* A loop of writeAt: the text has come to out.
Looping(d, n) ==
  /\ Live(d) /\ n \in Inode /\ n \in d.v.inodes /\ d.node.kind = "file"
  /\ World(View(d.v, n, Sized(d.node, d.out)), {})

\* What one turn, or several, leave alone.
Turned(d, e, n) ==
  /\ e.v.table = d.v.table /\ e.v.inodes = d.v.inodes /\ Recounts(d.v, e.v) /\ Others(d.v, e.v, n)
  /\ e.node.kind = d.node.kind /\ e.node.links = d.node.links /\ e.set = d.set /\ e.status \in {d.status, "noSpace"}

LEMMA LoopingFacts ==
  ASSUME NEW d, NEW n, Looping(d, n)
  PROVE  /\ Live(d) /\ n \in Inode /\ d.v \in Volume /\ d.node \in NodeType /\ d.out \in Nat
         /\ Shaped(d.v, d.node) /\ Mapped(d.v, d.node) \in Seq(Block)
         /\ OwnedBy(d.v, d.node) \subseteq d.v.blocks
         /\ Len(Mapped(d.v, d.node)) = SizeInBlocks(Sized(d.node, d.out))
         /\ \A k \in 1 .. Len(Mapped(d.v, d.node)) :
              Filled(d.v.data[Mapped(d.v, d.node)[k]], Sized(d.node, d.out), k)
<1> DEFINE x == Sized(d.node, d.out)
           v == View(d.v, n, x)
<1>1. Live(d) /\ n \in Inode /\ d.v \in Volume /\ d.node \in NodeType /\ d.out \in Nat /\ World(v, {})
  BY DEF Looping, Live, Runs
<1>2. x \in NodeType /\ SameTree(x, d.node)
  BY <1>1, SizedIn
<1>3. HasView(d.v, n, x, v)
  BY <1>1, <1>2, ViewHas
<1> HIDE DEF x, v
<1>4. v.table[n] = x /\ v.data = d.v.data /\ v.blocks = d.v.blocks /\ v \in Volume
  BY <1>3 DEF HasView
<1>5. Whole(v, x) /\ OwnedBy(v, x) \subseteq v.blocks
  BY <1>1, <1>4 DEF World, Owns
<1>6. /\ Shaped(v, d.node) /\ Mapped(v, d.node) = Mapped(v, x) /\ OwnedBy(v, d.node) = OwnedBy(v, x)
      /\ d.node.root \in Seq(Block)
  BY <1>1, <1>2, <1>5, TreeSame DEF Whole, NodeType
<1>7. Agree(v, d.v, Leaves(d.node))
  BY <1>4 DEF Agree
<1>8. /\ Shaped(d.v, d.node) /\ Mapped(d.v, d.node) = Mapped(v, x) /\ OwnedBy(d.v, d.node) = OwnedBy(v, x)
  BY <1>6, <1>7, MappedSame
<1>9. Mapped(d.v, d.node) \in Seq(Block)
  BY <1>1, <1>8, MappedIn
<1>10. \A k \in 1 .. Len(Mapped(d.v, d.node)) : Filled(d.v.data[Mapped(d.v, d.node)[k]], x, k)
  BY <1>4, <1>5, <1>8 DEF Whole, AllFilled
<1>11. Len(Mapped(d.v, d.node)) = SizeInBlocks(x)
  BY <1>5, <1>8 DEF Whole
<1> QED BY <1>1, <1>4, <1>5, <1>8, <1>9, <1>10, <1>11 DEF x

LEMMA Division ==
  ASSUME NEW a \in Nat, NEW s \in Nat, s >= 1
  PROVE  a \div s \in Nat /\ a % s \in 0 .. s - 1 /\ a = (a \div s) * s + (a % s)
BY SMT

\* The numbers of a turn of writeAt: from r in block q, up to u in it.
Numbered(out, to, q, r, u, end) ==
  /\ q \in Nat /\ r \in 0 .. Units - 1 /\ u \in r + 1 .. Units /\ end \in Nat
  /\ out = q * Units + r /\ end = q * Units + u /\ end > out /\ end <= to /\ u = end - (out - r)

LEMMA TurnNumbers ==
  ASSUME NEW out \in Nat, NEW to \in Nat, out < to
  PROVE  Numbered(out, to, out \div Units, out % Units, BlockEnd(out, to) - (out - (out % Units)), BlockEnd(out, to))
<1> DEFINE q == out \div Units
           r == out % Units
           e == BlockEnd(out, to)
           p == q * Units
<1>1. Units \in Nat /\ Units >= 1
  BY Sizes
<1>2. q \in Nat /\ r \in 0 .. Units - 1 /\ out = p + r /\ p \in Nat
  <2>1. q \in Nat /\ r \in 0 .. Units - 1 /\ out = p + r
    BY <1>1, Division
  <2> QED BY <2>1, <1>1, Times
<1>3. e = Min({to, out - r + Units})
  BY DEF BlockEnd
<1> HIDE DEF q, r, e, p
<1>4. out - r + Units = p + Units
  BY <1>1, <1>2
<1>5. e = IF to <= p + Units THEN to ELSE p + Units
  BY <1>1, <1>2, <1>3, <1>4, MinPair
<1>6. e \in Nat /\ e - (out - r) \in r + 1 .. Units /\ e = p + (e - (out - r)) /\ e > out /\ e <= to
  BY <1>1, <1>2, <1>5
<1> QED BY <1>2, <1>6 DEF Numbered, q, r, e, p

\* What a frame means for an inode in memory.
LEMMA MovedView ==
  ASSUME NEW v \in Volume, NEW w \in Volume, NEW X, NEW Y, NEW n \in Inode, NEW node \in NodeType,
         World(View(v, n, node), X), Frame(v, w, X, Y)
  PROVE  /\ World(View(w, n, node), Y) /\ Others(v, w, n) /\ w.table = v.table /\ w.inodes = v.inodes
         /\ Mapped(w, node) = Mapped(v, node) /\ Agree(v, w, OwnedBy(v, node))
<1> DEFINE a == View(v, n, node)
           b == View(w, n, node)
<1>1. Frame(a, b, X, Y) /\ World(a, X)
  BY ViewFrame
<1>2. HasView(v, n, node, a) /\ HasView(w, n, node, b) /\ Near(a, v, n) /\ Near(b, w, n)
  BY ViewHas, NearView
<1> HIDE DEF a, b
<1>3. World(b, Y) /\ \A m \in Inode : Same(a, b, m)
  BY <1>1, WorldFrame
<1>4. Others(v, w, n)
  <2>1. Others(a, b, n)
    BY <1>3 DEF Others
  <2> QED BY <2>1, <1>2, OthersNear
<1>5. a.data = v.data /\ b.data = w.data /\ a.table[n] = node
  BY <1>2 DEF HasView
<1>6. Agree(a, b, OwnedBy(a, node)) /\ Whole(a, node)
  BY <1>1, <1>3, <1>5 DEF Same, Owns, World
<1>7. OwnedBy(a, node) = OwnedBy(v, node) /\ Mapped(a, node) = Mapped(v, node) /\ Mapped(b, node) = Mapped(w, node)
  BY <1>5 DEF OwnedBy, Mapped
<1>8. Mapped(b, node) = Mapped(a, node)
  BY <1>6, WholeSame
<1> QED BY <1>3, <1>4, <1>5, <1>6, <1>7, <1>8 DEF Frame, Agree, b

LEMMA OneRun ==
  ASSUME NEW v \in Volume, NEW b \in v.blocks
  PROVE  IsRunOf(v, {b})
<1>1. b \in Block
  BY DEF Volume
<1> QED BY <1>1, BlockGroup DEF IsRunOf

\* allocBlock, with an inode in memory.
Taken(d, a, n, node) ==
  /\ World(View(a.v, n, node), {a.out}) /\ Others(d.v, a.v, n) /\ a.v.table = d.v.table
  /\ a.v.inodes = d.v.inodes /\ Recounts(d.v, a.v) /\ Live(a) /\ a.node = d.node /\ a.set = d.set
  /\ a.out \in Block \ d.v.blocks /\ Mapped(a.v, node) = Mapped(d.v, node)
  /\ Agree(d.v, a.v, OwnedBy(d.v, node)) /\ Frame(d.v, a.v, {}, {a.out})

LEMMA TakenWorld ==
  ASSUME NEW d, Live(d), NEW n \in Inode, NEW node \in NodeType, World(View(d.v, n, node), {}),
         NEW a, Grants(d, a), Ok(a)
  PROVE  Taken(d, a, n, node)
<1>1. /\ Frame(d.v, a.v, {}, {} \cup {a.out}) /\ Recounts(d.v, a.v) /\ Live(a)
      /\ a.out \in Block \ d.v.blocks /\ a.node = d.node /\ a.set = d.set
  BY GrantsMove
<1>2. {} \cup {a.out} = {a.out} /\ d.v \in Volume /\ a.v \in Volume
  BY <1>1 DEF Live, Runs
<1>3. Frame(d.v, a.v, {}, {a.out})
  BY <1>1, <1>2
<1> QED BY <1>1, <1>2, <1>3, MovedView DEF Taken

\* FreeAgain, with an inode in memory.
Returned(d, e, n, node, b) ==
  /\ World(View(e.v, n, node), {}) /\ Others(d.v, e.v, n) /\ e.v.table = d.v.table
  /\ e.v.inodes = d.v.inodes /\ Recounts(d.v, e.v) /\ Live(e) /\ e.node = d.node /\ e.set = d.set
  /\ e.status = d.status /\ Agree(d.v, e.v, OwnedBy(d.v, node)) /\ Frame(d.v, e.v, {b}, {})

LEMMA GivenBack ==
  ASSUME NEW d, Live(d), NEW n \in Inode, NEW node \in NodeType, NEW b, World(View(d.v, n, node), {b})
  PROVE  Returned(d, FreeAgain(d, {b}), n, node, b)
<1> DEFINE e == FreeAgain(d, {b})
<1>1. d.v \in Volume
  BY DEF Live, Runs
<1>2. View(d.v, n, node).blocks = d.v.blocks
  BY <1>1, ViewHas DEF HasView
<1>3. {b} \subseteq d.v.blocks /\ {b} \subseteq Block
  BY <1>2, InUse
<1>4. Undoes(d, e, {b})
  <2>1. IsRunOf(d.v, {b})
    BY <1>1, <1>3, OneRun
  <2> QED BY <2>1, FreeAgainSpec
<1> HIDE DEF e
<1>5. Frame(d.v, e.v, {b}, {b} \ {b}) /\ Recounts(d.v, e.v) /\ Live(e) /\ e.node = d.node /\ e.set = d.set
  BY <1>3, <1>4, FreesMove
<1>6. {b} \ {b} = {} /\ e.status = d.status /\ e.v \in Volume
  BY <1>4, <1>5 DEF Undoes, Live, Runs
<1>7. Frame(d.v, e.v, {b}, {})
  BY <1>5, <1>6
<1>8. Returned(d, e, n, node, b)
  BY <1>1, <1>5, <1>6, <1>7, MovedView DEF Returned
<1> QED BY <1>8 DEF e

\* What a turn makes of the file, as far as its text has come.
Advanced(d, e, n, size) == Live(e) /\ Turned(d, e, n) /\ World(View(e.v, n, Sized(e.node, size)), {})

\* The list of a text that has come to r in block q.
LEMMA LoopLength ==
  ASSUME NEW q \in Nat, NEW r \in 0 .. Units - 1, NEW node
  PROVE  node.size = q * Units + r => SizeInBlocks(node) = IF r = 0 THEN q ELSE q + 1
<1>1. Units \in Nat /\ Units >= 1
  BY Sizes
<1>2. q * Units \in Nat
  BY <1>1, Times
<1>3. CASE r = 0
  <2> SUFFICES ASSUME node.size = q * Units + r PROVE SizeInBlocks(node) = q
    BY <1>3
  <2>1. node.size = q * Units
    BY <1>2, <1>3
  <2> QED BY <2>1, SizeOf
<1>4. CASE r # 0
  <2> SUFFICES ASSUME node.size = q * Units + r PROVE SizeInBlocks(node) = q + 1
    BY <1>4
  <2>1. r \in 1 .. Units
    BY <1>1, <1>4
  <2> QED BY <2>1, SizeOf
<1> QED BY <1>3, <1>4

LEMMA WriteIntoTurn ==
  ASSUME NEW d, NEW n, Looping(d, n), Ok(d), NEW to, NEW q, NEW r, NEW u, NEW end,
         Numbered(d.out, to, q, r, u, end), q < Len(Mapped(d.v, d.node)),
         NEW e, e = WriteInto(d, Mapped(d.v, d.node)[q + 1], r, u)
  PROVE  Ok(e) /\ Advanced(d, e, n, end)
<1> DEFINE m == Mapped(d.v, d.node)
           x == Sized(d.node, d.out)
           y == Sized(d.node, end)
           b == m[q + 1]
<1>1. /\ q \in Nat /\ r \in 0 .. Units - 1 /\ u \in r + 1 .. Units /\ end \in Nat
      /\ d.out = q * Units + r /\ end = q * Units + u
  BY DEF Numbered
<1>2. /\ Live(d) /\ n \in Inode /\ d.v \in Volume /\ d.node \in NodeType /\ d.out \in Nat
      /\ Shaped(d.v, d.node) /\ m \in Seq(Block) /\ Len(m) = SizeInBlocks(x)
      /\ \A k \in 1 .. Len(m) : Filled(d.v.data[m[k]], x, k)
  BY LoopingFacts
<1>3. d.node.kind = "file" /\ World(View(d.v, n, x), {}) /\ n \in d.v.inodes
  BY DEF Looping
<1>4. /\ x \in NodeType /\ y \in NodeType /\ x.size = d.out /\ y.size = end /\ x.kind = "file" /\ y.kind = "file"
      /\ SameTree(x, y) /\ x.nblk = d.node.nblk /\ y.nblk = d.node.nblk /\ SameTree(d.node, x)
  <2>1. /\ x \in NodeType /\ x.size = d.out /\ x.kind = d.node.kind /\ x.nblk = d.node.nblk
        /\ SameTree(x, d.node) /\ SameTree(d.node, x)
    BY <1>2, SizedIn
  <2>2. /\ y \in NodeType /\ y.size = end /\ y.kind = d.node.kind /\ y.nblk = d.node.nblk /\ SameTree(d.node, y)
    BY <1>1, <1>2, SizedIn
  <2> HIDE DEF x, y
  <2> QED BY <2>1, <2>2, <1>3 DEF SameTree
<1>5. Units \in Nat /\ Units >= 1 /\ q * Units \in Nat
  BY <1>1, Sizes, Times
<1>6. Len(m) = q + 1 /\ r # 0 /\ q + 1 \in 1 .. Len(m)
  <2>1. Len(m) = IF r = 0 THEN q ELSE q + 1
    BY <1>1, <1>2, <1>4, LoopLength
  <2>2. q < Len(m)
    OBVIOUS
  <2> HIDE DEF m, x
  <2> QED BY <2>1, <2>2, <1>1
<1>7. b \in Block /\ \A k \in 1 .. Len(m) : m[k] \in Block /\ m[k] \in ToSet(m)
  BY <1>2, <1>6, LenProperties DEF ToSet
<1>8. Inj(m)
  BY <1>2 DEF Shaped
<1> HIDE DEF m, x, y, b
<1>9. \A k \in 1 .. Len(m) : k # q + 1 => m[k] # b
  BY <1>6, <1>8 DEF Inj, b
<1>10. d.v.data[b].kind = "text"
  <2>1. Filled(d.v.data[b], x, q + 1)
    BY <1>2, <1>6 DEF b
  <2> QED BY <2>1, <1>4 DEF Filled
<1>11. e = SetBlock(d, b, Text(u)) /\ u \in Nat /\ Text(u) \in Content
  BY <1>1, <1>10, ContentIn DEF WriteInto, b, m
<1>12. Sets(d, e, b, Text(u))
  BY <1>2, <1>7, <1>11, SetBlockSpec
<1>13. /\ Live(e) /\ Ok(e) /\ e.node = d.node /\ e.set = d.set /\ e.v \in Volume /\ e.v.table = d.v.table
       /\ e.v.blocks = d.v.blocks /\ e.v.inodes = d.v.inodes
       /\ e.v.data = [d.v.data EXCEPT ![b] = Text(u)] /\ Recounts(d.v, e.v)
  BY <1>12 DEF Sets, Steps, Keeps
<1>14. e.v.data[b] = Text(u) /\ \A c \in Block : c # b => e.v.data[c] = d.v.data[c]
  <2>1. d.v.data \in [Block -> Content]
    BY <1>2 DEF Volume
  <2> QED BY <2>1, <1>7, <1>13
<1> DEFINE v == View(d.v, n, x)
           w == View(e.v, n, y)
<1>15. HasView(d.v, n, x, v) /\ HasView(e.v, n, y, w) /\ Near(v, d.v, n) /\ Near(w, e.v, n)
  BY <1>2, <1>4, <1>13, ViewHas, NearView
<1>16. World(v, {})
  BY <1>3
<1> HIDE DEF v, w
<1>17. /\ v.table[n] = x /\ w.table[n] = y /\ v.data = d.v.data /\ w.data = e.v.data /\ w \in Volume
       /\ v.inodes = d.v.inodes /\ w.inodes = e.v.inodes /\ v.blocks = d.v.blocks /\ w.blocks = e.v.blocks
       /\ \A j \in Inode \ {n} : v.table[j] = d.v.table[j] /\ w.table[j] = e.v.table[j]
  BY <1>15 DEF HasView
<1>18. Mapped(v, x) = m
  <2>1. Mapped(v, x) = Mapped(d.v, x)
    BY <1>17, Zenon DEF Mapped
  <2>2. Mapped(d.v, x) = Mapped(d.v, d.node)
    BY <1>2, <1>4, TreeSame
  <2> QED BY <2>1, <2>2, Zenon DEF m
<1>19. SizeInBlocks(y) = Len(m)
  <2>1. u \in 1 .. Units
    BY <1>1
  <2> QED BY <2>1, <1>1, <1>4, <1>6, SizeOf
<1>20. \A k \in 1 .. Len(m) : Filled(w.data[m[k]], y, k)
  <2> SUFFICES ASSUME NEW k \in 1 .. Len(m) PROVE Filled(w.data[m[k]], y, k)
    OBVIOUS
  <2>1. CASE k = q + 1
    <3>1. w.data[m[k]] = Text(u)
      BY <2>1, <1>14, <1>17 DEF b
    <3>2. k - 1 = q /\ end - q * Units = u
      BY <2>1, <1>1, <1>5
    <3>3. Min({Units, y.size - ((k - 1) * Units)}) = u
      <4>1. y.size - ((k - 1) * Units) = u
        BY <3>2, <1>4
      <4>2. u <= Units /\ u \in Int /\ Units \in Int
        BY <1>1, <1>5
      <4>3. Min({Units, u}) = u
        BY <4>2, MinPair
      <4> QED BY <4>1, <4>3, Zenon
    <3>4. Text(u).kind = "text" /\ Text(u).units = u
      BY DEF Text
    <3>5. Text(u).units >= Min({Units, y.size - ((k - 1) * Units)})
      BY <3>3, <3>4, <1>11
    <3> QED BY <3>1, <3>4, <3>5, <1>4 DEF Filled
  <2>2. CASE k # q + 1
    <3>1. w.data[m[k]] = d.v.data[m[k]]
      BY <2>2, <1>7, <1>9, <1>14, <1>17
    <3>2. Filled(d.v.data[m[k]], x, k) /\ d.v.data[m[k]] \in Content
      BY <1>2, <1>7 DEF Volume
    <3>3. d.v.data[m[k]].units \in Nat \/ d.v.data[m[k]].kind # "text"
      BY <3>2 DEF Content
    <3>4. k \in 1 .. q
      BY <2>2, <1>1, <1>6
    <3>5. x.size \in Nat /\ y.size \in Nat /\ x.size >= q * Units
      BY <1>1, <1>2, <1>4, <1>5
    <3>6. Filled(d.v.data[m[k]], y, k)
      BY <3>2, <3>3, <3>4, <3>5, <1>1, <1>4, FilledMore
    <3> QED BY <3>1, <3>6
  <2> QED BY <2>1, <2>2
<1>21. Rewrote(v, w, n, {b})
  <2>1. {b} \subseteq ToSet(m)
    BY <1>6, <1>7 DEF b
  <2>2. Agree(v, w, Block \ {b})
    BY <1>14, <1>17 DEF Agree
  <2>3. \A j \in Inode \ {n} : w.table[j] = v.table[j]
    BY <1>13, <1>17
  <2>4. w.inodes = v.inodes /\ w.blocks = v.blocks
    BY <1>13, <1>17
  <2> QED BY <2>1, <2>2, <2>3, <2>4, <1>4, <1>17, <1>18, <1>19, <1>20, Zenon DEF Rewrote
<1>22. World(w, {}) /\ Others(v, w, n)
  BY <1>2, <1>16, <1>21, RewrittenWorld
<1>23. Others(d.v, e.v, n)
  BY <1>15, <1>22, OthersNear
<1> QED BY <1>13, <1>22, <1>23 DEF Advanced, Turned, w, y, Ok

\* One block more in i_blocks.
LEMMA MoreBlocks ==
  ASSUME NEW d, Live(d), NEW e, e = [d EXCEPT !.node.nblk = @ + 1]
  PROVE  /\ Live(e) /\ e.v = d.v /\ e.status = d.status /\ e.out = d.out /\ e.set = d.set
         /\ e.node.nblk = d.node.nblk + 1 /\ e.node.kind = d.node.kind /\ e.node.links = d.node.links
         /\ e.node.size = d.node.size /\ e.node.depth = d.node.depth /\ e.node.root = d.node.root
         /\ SameTree(d.node, e.node)
<1> DEFINE x == [d.node EXCEPT !.nblk = @ + 1]
<1>1. /\ x \in NodeType /\ x.nblk = d.node.nblk + 1 /\ x.kind = d.node.kind /\ x.links = d.node.links
      /\ x.size = d.node.size /\ x.depth = d.node.depth /\ x.root = d.node.root
  BY DEF Live, Runs, NodeType
<1>2. e = [d EXCEPT !.node = x]
  BY DEF Live, Runs
<1> HIDE DEF x
<1>3. Live(e) /\ e.v = d.v /\ e.status = d.status /\ e.out = d.out /\ e.set = d.set /\ e.node = x
  BY <1>1, <1>2 DEF Live, Runs
<1> QED BY <1>1, <1>3 DEF SameTree

LEMMA AttachFails ==
  ASSUME NEW d, NEW e, NEW phys, Attaches(d, e, phys), ~Ok(e)
  PROVE  Live(e) /\ e.set = d.set /\ e.v = d.v /\ e.node = d.node /\ e.status = "noSpace"
BY DEF Attaches

\* A text that goes on in a new block.
LEMMA FillTurn ==
  ASSUME NEW d, NEW n, Looping(d, n), Ok(d), NEW to, NEW q, NEW r, NEW u, NEW end,
         Numbered(d.out, to, q, r, u, end), ~(q < Len(Mapped(d.v, d.node))), NEW goal \in Nat,
         NEW e, e = AddBlock(allocBlock(d, goal), q, u)
  PROVE  Advanced(d, e, n, IF Ok(e) THEN end ELSE d.out)
<1> DEFINE a == allocBlock(d, goal)
           p == a.out
           b == appendBlock(a, q, p)
           m == Mapped(d.v, d.node)
           x == Sized(d.node, d.out)
<1>1. /\ q \in Nat /\ r \in 0 .. Units - 1 /\ u \in r + 1 .. Units /\ end \in Nat
      /\ d.out = q * Units + r /\ end = q * Units + u
  BY DEF Numbered
<1>2. /\ Live(d) /\ n \in Inode /\ d.v \in Volume /\ d.node \in NodeType /\ d.out \in Nat
      /\ Shaped(d.v, d.node) /\ m \in Seq(Block) /\ Len(m) = SizeInBlocks(x)
  BY LoopingFacts
<1>3. d.node.kind = "file" /\ World(View(d.v, n, x), {}) /\ n \in d.v.inodes
  BY DEF Looping
<1>4. /\ x \in NodeType /\ x.size = d.out /\ x.kind = d.node.kind /\ x.nblk = d.node.nblk
      /\ SameTree(x, d.node) /\ SameTree(d.node, x)
  BY <1>2, SizedIn
<1>5. Units \in Nat /\ Units >= 1 /\ q * Units \in Nat
  BY <1>1, Sizes, Times
<1>6. Len(m) = q /\ r = 0
  <2>1. Len(m) = IF r = 0 THEN q ELSE q + 1
    BY <1>1, <1>2, <1>4, LoopLength
  <2>2. ~(q < Len(m))
    OBVIOUS
  <2> HIDE DEF m, x
  <2> QED BY <2>1, <2>2, <1>1
<1>7. Grants(d, a)
  BY <1>2, AllocBlockSpec
<1> HIDE DEF a, b, m, x, p
<1>8. CASE ~Ok(a)
  <2>1. e = a /\ Live(a) /\ a.v = d.v /\ a.node = d.node /\ a.set = d.set /\ a.status = "noSpace"
    BY <1>7, <1>8 DEF AddBlock, Grants, a
  <2>2. Others(d.v, a.v, n) /\ Recounts(d.v, a.v)
    BY <2>1 DEF Others, Same, Agree, Recounts
  <2>3. World(View(a.v, n, Sized(a.node, d.out)), {})
    BY <2>1, <1>3 DEF x
  <2> QED BY <2>1, <2>2, <2>3, <1>8 DEF Advanced, Turned
<1>9. CASE Ok(a)
  <2>1. /\ World(View(a.v, n, x), {p}) /\ Others(d.v, a.v, n) /\ a.v.table = d.v.table
        /\ a.v.inodes = d.v.inodes /\ Recounts(d.v, a.v) /\ Live(a) /\ a.node = d.node /\ a.set = d.set
        /\ p \in Block \ d.v.blocks /\ Mapped(a.v, x) = Mapped(d.v, x)
    <3>1. Taken(d, a, n, x)
      BY <1>2, <1>3, <1>4, <1>7, <1>9, TakenWorld
    <3> QED BY <3>1 DEF Taken, p
  <2>2. a.v \in Volume /\ p \in {p}
    BY <2>1 DEF Live, Runs
  <2>3. Mapped(a.v, a.node) = m
    BY <2>1, <1>2, <1>4, TreeSame DEF m
  <2>4. Prior(a, n, x, {p})
    <3>1. x.size = Len(m) * Units
      BY <1>1, <1>4, <1>5, <1>6
    <3> QED BY <3>1, <2>1, <2>3, <1>3, <1>4 DEF Prior
  <2>5. Shaped(a.v, a.node) /\ Loose(a, p)
    BY <2>2, <2>4, <1>2, PriorFacts
  <2>6. ~(q < Len(Mapped(a.v, a.node)))
    BY <2>3 DEF m
  <2>7. Attaches(a, b, p)
    BY <2>1, <2>5, <2>6, <1>9, AppendBlockSpec DEF b
  <2>8. e = FillBlock(b, p, u)
    BY <1>9 DEF AddBlock, a, b, p
  <2>9. CASE ~Ok(b)
    <3>1. Live(b) /\ b.set = a.set /\ b.v = a.v /\ b.node = a.node /\ b.status = "noSpace"
      BY <2>7, <2>9, AttachFails
    <3>2. e = FreeAgain(b, {p})
      BY <2>8, <2>9 DEF FillBlock
    <3>3. World(View(b.v, n, x), {p})
      BY <2>1, <3>1
    <3>4. /\ World(View(e.v, n, x), {}) /\ Others(b.v, e.v, n) /\ e.v.table = b.v.table
          /\ e.v.inodes = b.v.inodes /\ Recounts(b.v, e.v) /\ Live(e) /\ e.node = b.node /\ e.set = b.set
          /\ e.status = b.status
      <4>1. Returned(b, FreeAgain(b, {p}), n, x, p)
        BY <3>1, <3>3, <1>2, <1>4, GivenBack
      <4> QED BY <4>1, <3>2 DEF Returned
    <3>5. /\ ~Ok(e) /\ e.node = d.node /\ e.set = d.set /\ e.v.table = d.v.table /\ e.v.inodes = d.v.inodes
          /\ e.status = "noSpace"
      BY <2>1, <2>9, <3>1, <3>4 DEF Ok
    <3>6. Recounts(d.v, e.v)
      BY <2>1, <3>1, <3>4 DEF Recounts
    <3>7. Others(d.v, e.v, n)
      <4> DEFINE v == View(d.v, n, x)
      <4>1. World(v, {}) /\ Near(v, d.v, n) /\ Near(d.v, v, n) /\ Near(a.v, a.v, n) /\ Near(e.v, e.v, n)
        BY <1>2, <1>3, <1>4, NearView DEF Near
      <4> HIDE DEF v
      <4>2. Others(v, a.v, n)
        BY <2>1, <4>1, OthersNear
      <4>3. Others(a.v, e.v, n)
        BY <3>1, <3>4
      <4>4. Others(v, e.v, n)
        BY <1>2, <4>1, <4>2, <4>3, OthersMore
      <4> QED BY <4>1, <4>4, OthersNear
    <3>8. World(View(e.v, n, Sized(e.node, d.out)), {})
      BY <3>4, <3>5 DEF x
    <3> QED BY <3>4, <3>5, <3>6, <3>7, <3>8 DEF Advanced, Turned
  <2>10. CASE Ok(b)
    <3>1. Live(b) /\ b.set = a.set /\ Grown(a, b) /\ Mapped(b.v, b.node) = Append(m, p)
      BY <2>3, <2>7, <2>10 DEF Attaches, Ok
    <3> DEFINE c == [b EXCEPT !.node.nblk = @ + 1]
    <3>2. /\ Live(c) /\ c.v = b.v /\ c.status = b.status /\ c.set = b.set
          /\ c.node.nblk = b.node.nblk + 1 /\ c.node.kind = b.node.kind /\ c.node.links = b.node.links
          /\ SameTree(b.node, c.node)
      BY <3>1, MoreBlocks, ZenonT(40)
    <3>3. e = SetBlock(c, p, Text(u))
      BY <2>8, <2>10 DEF FillBlock
    <3> HIDE DEF c
    <3>4. u \in Nat /\ Text(u) \in Content /\ Ok(c) /\ p \in Block
      BY <1>1, <2>1, <2>10, <3>2, ContentIn DEF Ok
    <3>5. Sets(c, e, p, Text(u))
      BY <3>2, <3>3, <3>4, SetBlockSpec
    <3>6. /\ Live(e) /\ Ok(e) /\ e.node = c.node /\ e.set = c.set /\ e.v \in Volume /\ e.v.table = c.v.table
          /\ e.v.blocks = c.v.blocks /\ e.v.inodes = c.v.inodes
          /\ e.v.data = [c.v.data EXCEPT ![p] = Text(u)] /\ Recounts(c.v, e.v)
      BY <3>5 DEF Sets, Steps, Keeps
    <3>7. e.v.data[p] = Text(u) /\ Agree(b.v, e.v, Block \ {p})
      <4>1. c.v.data \in [Block -> Content]
        BY <3>2 DEF Live, Runs, Volume
      <4> QED BY <4>1, <3>2, <3>4, <3>6 DEF Agree
    <3> DEFINE y == Sized(e.node, end)
               w == View(e.v, n, y)
    <3>8. /\ y \in NodeType /\ y.size = end /\ y.kind = e.node.kind /\ y.nblk = e.node.nblk /\ SameTree(e.node, y)
      <4>1. e.node \in NodeType
        BY <3>6 DEF Live, Runs
      <4> QED BY <4>1, <1>1, SizedIn
    <3>9. HasView(e.v, n, y, w) /\ Near(w, e.v, n)
      BY <1>2, <3>6, <3>8, ViewHas, NearView
    <3>10. e.node.kind = "file" /\ e.node.links = d.node.links /\ b.v.table = d.v.table /\ b.v.inodes = d.v.inodes
           /\ Recounts(a.v, b.v)
      BY <1>3, <2>1, <3>1, <3>2, <3>6 DEF Grown, Keeps
    <3> HIDE DEF y, w
    <3>11. Wrote(a, b, w, n, y, p)
      <4>1. w \in Volume /\ w.inodes = b.v.inodes /\ w.blocks = b.v.blocks /\ w.table[n] = y
            /\ w.data = e.v.data /\ \A j \in Inode \ {n} : w.table[j] = b.v.table[j]
        BY <3>2, <3>6, <3>9 DEF HasView
      <4>2. Agree(b.v, w, Block \ {p})
        BY <3>7, <4>1 DEF Agree
      <4>3. SameTree(b.node, y) /\ y.nblk = b.node.nblk + 1
        BY <3>2, <3>6, <3>8 DEF SameTree
      <4>4. SizeInBlocks(y) = Len(m) + 1
        <5>1. u \in 1 .. Units
          BY <1>1
        <5> QED BY <5>1, <1>1, <1>6, <3>8, SizeOf
      <4>5. Filled(w.data[p], y, Len(m) + 1)
        <5>1. w.data[p].kind = "text" /\ w.data[p].units = u
          BY <3>7, <4>1 DEF Text
        <5>2. (Len(m) + 1) - 1 = q /\ end - q * Units = u
          BY <1>1, <1>5, <1>6
        <5>3. y.size - (((Len(m) + 1) - 1) * Units) = u
          BY <5>2, <3>8
        <5>4. u <= Units /\ u \in Int /\ Units \in Int
          BY <1>1, <1>5
        <5>5. Min({Units, u}) = u
          <6> HIDE DEF m
          <6>1. Min({Units, u}) = IF Units <= u THEN Units ELSE u
            BY <5>4, MinPair, Zenon
          <6> QED BY <6>1, <5>4
        <5>6. w.data[p].units >= Min({Units, y.size - (((Len(m) + 1) - 1) * Units)})
          <6>1. w.data[p].units >= Min({Units, u})
            BY <5>1, <5>4, <5>5
          <6> QED BY <6>1, <5>3, Zenon
        <5> QED BY <5>1, <5>6, <3>8, <3>10 DEF Filled
      <4> QED BY <4>1, <4>2, <4>3, <4>4, <4>5, <2>3, <3>8, <3>10, Zenon DEF Wrote
    <3>12. World(w, {p} \ {p}) /\ Lengthens(View(a.v, n, x), w, n, m, p)
      BY <1>2, <2>2, <2>3, <2>4, <3>1, <3>11, AttachedWorld
    <3>13. {p} \ {p} = {}
      OBVIOUS
    <3>14. World(w, {})
      BY <3>12, <3>13
    <3>15. Others(d.v, e.v, n)
      <4> DEFINE v == View(d.v, n, x)
                 t == View(a.v, n, x)
      <4>1. World(v, {}) /\ Near(v, d.v, n) /\ Near(d.v, v, n) /\ Near(a.v, t, n)
        BY <1>2, <1>3, <1>4, <2>2, NearView
      <4>2. Others(t, w, n)
        BY <3>12 DEF Lengthens
      <4> HIDE DEF v, t
      <4>3. Others(v, t, n)
        BY <2>1, <4>1, OthersNear
      <4>4. Others(v, w, n)
        BY <1>2, <4>1, <4>2, <4>3, OthersMore
      <4> QED BY <4>1, <4>4, <3>9, OthersNear
    <3>16. Recounts(d.v, e.v)
      BY <2>1, <3>2, <3>6, <3>10 DEF Recounts
    <3>17. e.v.table = d.v.table /\ e.v.inodes = d.v.inodes /\ e.set = d.set /\ e.status = d.status
      BY <2>1, <3>1, <3>2, <3>6, <3>10 DEF Ok
    <3> QED BY <1>3, <3>6, <3>10, <3>14, <3>15, <3>16, <3>17 DEF Advanced, Turned, w, y
  <2> QED BY <2>9, <2>10
<1> QED BY <1>8, <1>9

LEMMA LoopPlace ==
  ASSUME NEW d, NEW n, Looping(d, n), NEW to, NEW q, NEW r, NEW u, NEW end, Numbered(d.out, to, q, r, u, end)
  PROVE  Len(Mapped(d.v, d.node)) = IF r = 0 THEN q ELSE q + 1
<1>1. /\ d.node \in NodeType /\ d.out \in Nat
      /\ Len(Mapped(d.v, d.node)) = SizeInBlocks(Sized(d.node, d.out))
  BY LoopingFacts
<1>2. q \in Nat /\ r \in 0 .. Units - 1 /\ d.out = q * Units + r
  BY DEF Numbered
<1> DEFINE x == Sized(d.node, d.out)
<1>3. x.size = d.out
  BY <1>1, SizedIn
<1> HIDE DEF x
<1>4. SizeInBlocks(x) = IF r = 0 THEN q ELSE q + 1
  BY <1>2, <1>3, LoopLength
<1> QED BY <1>1, <1>4 DEF x

\* A block's worth of text, in the block that is there or in a new one.
LEMMA WriteBlockTurn ==
  ASSUME NEW d, NEW n, Looping(d, n), Ok(d), NEW to, NEW q, NEW r, NEW u, NEW end,
         Numbered(d.out, to, q, r, u, end), NEW e, e = WriteBlock(d, n, q, r, u)
  PROVE  Advanced(d, e, n, IF Ok(e) THEN end ELSE d.out)
<1> DEFINE m == Mapped(d.v, d.node)
           goal == IF q > 0 THEN m[q] + 1 ELSE GroupOfInode(n) * Span
<1>1. /\ Live(d) /\ n \in Inode /\ m \in Seq(Block)
  BY LoopingFacts
<1>2. Len(m) = IF r = 0 THEN q ELSE q + 1
  BY LoopPlace
<1>3. q \in Nat
  BY DEF Numbered
<1> HIDE DEF m
<1>4. e = IF q < Len(m) THEN WriteInto(d, m[q + 1], r, u) ELSE AddBlock(allocBlock(d, goal), q, u)
  BY Zenon DEF WriteBlock, m
<1>5. CASE q < Len(m)
  BY <1>4, <1>5, WriteIntoTurn DEF m
<1>6. CASE ~(q < Len(m))
  <2>1. goal \in Nat
    <3>1. CASE q > 0
      <4>1. q \in 1 .. Len(m)
        BY <1>2, <1>3, <1>6, <3>1
      <4>2. m[q] \in Block
        BY <4>1, <1>1
      <4>3. m[q] \in Nat
        BY <4>2, BlockGroup
      <4> QED BY <3>1, <4>3
    <3>2. CASE ~(q > 0)
      <4>1. GroupOfInode(n) \in Nat /\ Span \in Nat /\ Span >= 1
        BY <1>1, InodeGroup, Sizes DEF Group
      <4>2. GroupOfInode(n) * Span \in Nat
        BY <4>1, Times
      <4> QED BY <3>2, <4>2
    <3> QED BY <3>1, <3>2
  <2> HIDE DEF goal
  <2>2. e = AddBlock(allocBlock(d, goal), q, u)
    BY <1>4, <1>6
  <2> QED BY <2>1, <2>2, <1>6, FillTurn DEF m
<1> QED BY <1>5, <1>6

LEMMA TurnedMore ==
  ASSUME NEW c, NEW d, NEW e, NEW n, Looping(c, n), Turned(c, d, n), Turned(d, e, n)
  PROVE  Turned(c, e, n)
<1> DEFINE x == Sized(c.node, c.out)
           v == View(c.v, n, x)
<1>1. n \in Inode /\ c.v \in Volume /\ c.node \in NodeType /\ c.out \in Nat
  BY LoopingFacts
<1>2. x \in NodeType
  BY <1>1, SizedIn
<1>3. World(v, {}) /\ Near(v, c.v, n) /\ Near(c.v, v, n) /\ Near(d.v, d.v, n) /\ Near(e.v, e.v, n)
  BY <1>1, <1>2, NearView DEF Looping, Near
<1> HIDE DEF v
<1>4. Others(c.v, d.v, n) /\ Others(d.v, e.v, n)
  BY DEF Turned
<1>5. Others(v, d.v, n)
  BY <1>3, <1>4, OthersNear
<1>6. Others(v, e.v, n)
  BY <1>1, <1>3, <1>4, <1>5, OthersMore
<1>7. Others(c.v, e.v, n)
  BY <1>3, <1>6, OthersNear
<1> QED BY <1>7 DEF Turned, Recounts

LEMMA TurnedNothing ==
  ASSUME NEW d, NEW n
  PROVE  Turned(d, d, n)
BY DEF Turned, Recounts, Others, Same, Agree

\* Another value of out.
LEMMA OutSet ==
  ASSUME NEW d, Live(d), NEW k \in Nat, NEW e, e = [d EXCEPT !.out = k]
  PROVE  Live(e) /\ e.v = d.v /\ e.status = d.status /\ e.set = d.set /\ e.node = d.node /\ e.out = k
BY DEF Live, Runs

LEMMA WriteNextSpec ==
  ASSUME NEW d, NEW n, Looping(d, n), NEW to \in Nat, d.out <= to, NEW e, e = WriteNext(d, n, to)
  PROVE  /\ Looping(e, n) /\ Turned(d, e, n) /\ e.out <= to /\ d.out <= e.out
         /\ IF Ok(e) THEN Ok(d) /\ (e.out = to \/ e.out > d.out) ELSE Ok(d) => e.out < to
<1>1. /\ Live(d) /\ n \in Inode /\ d.out \in Nat /\ d.node.kind = "file" /\ n \in d.v.inodes
  BY LoopingFacts DEF Looping
<1>2. CASE ~Ok(d) \/ d.out = to
  <2>1. e = d
    BY <1>2 DEF WriteNext
  <2> QED BY <1>1, <1>2, <2>1, TurnedNothing
<1>3. CASE Ok(d) /\ d.out # to
  <2> DEFINE q == d.out \div Units
             r == d.out % Units
             end == BlockEnd(d.out, to)
             u == end - (d.out - r)
             next == WriteBlock(d, n, q, r, u)
             out == IF Ok(next) THEN end ELSE d.out
  <2>1. Numbered(d.out, to, q, r, u, end)
    BY <1>1, <1>3, TurnNumbers
  <2>2. e = [next EXCEPT !.out = out]
    BY <1>3, Zenon DEF WriteNext
  <2> HIDE DEF q, r, end, u
  <2>3. Advanced(d, next, n, out)
    <3> DEFINE z == next
    <3>1. z = WriteBlock(d, n, q, r, u)
      OBVIOUS
    <3> HIDE DEF z
    <3>2. Advanced(d, z, n, IF Ok(z) THEN end ELSE d.out)
      BY <1>3, <2>1, <3>1, WriteBlockTurn
    <3> QED BY <3>2, Zenon DEF z
  <2>4. out \in Nat /\ out <= to /\ d.out <= out /\ (IF Ok(next) THEN out > d.out ELSE out < to)
    <3> HIDE DEF next
    <3>1. end \in Nat /\ end > d.out /\ end <= to
      BY <2>1 DEF Numbered
    <3> QED BY <1>1, <1>3, <3>1
  <2> HIDE DEF next, out
  <2>5. Live(next) /\ Turned(d, next, n) /\ World(View(next.v, n, Sized(next.node, out)), {})
    BY <2>3 DEF Advanced
  <2>6. /\ Live(e) /\ e.v = next.v /\ e.set = next.set /\ e.node = next.node /\ e.out = out
        /\ e.status = next.status
    BY <2>2, <2>4, <2>5, OutSet
  <2>7. Looping(e, n)
    BY <1>1, <2>5, <2>6 DEF Looping, Turned
  <2>8. Turned(d, e, n)
    BY <2>5, <2>6 DEF Turned
  <2>9. Ok(e) <=> Ok(next)
    BY <2>6 DEF Ok
  <2> QED BY <1>3, <2>4, <2>6, <2>7, <2>8, <2>9
<1> QED BY <1>2, <1>3

\* A loop that is still well after k turns has come that far, or to the end; one
\* that is not stays short of the end.
Came(e, from, to, k) == IF Ok(e) THEN e.out = to \/ e.out >= from + k ELSE e.out < to

LEMMA CameOn ==
  ASSUME NEW d, NEW n, Looping(d, n), NEW from \in Nat, NEW to \in Nat, d.out <= to, NEW k \in Nat, Came(d, from, to, k),
         NEW e, e = WriteNext(d, n, to)
  PROVE  Came(e, from, to, k + 1)
<1>1. /\ Looping(e, n) /\ e.out <= to /\ d.out <= e.out
      /\ IF Ok(e) THEN Ok(d) /\ (e.out = to \/ e.out > d.out) ELSE Ok(d) => e.out < to
  BY WriteNextSpec
<1>2. d.out \in Nat /\ e.out \in Nat
  BY <1>1, LoopingFacts
<1>3. CASE Ok(e)
  BY <1>1, <1>2, <1>3 DEF Came
<1>4. CASE ~Ok(e)
  <2>1. CASE Ok(d)
    BY <1>1, <1>4, <2>1 DEF Came
  <2>2. CASE ~Ok(d)
    <3>1. e = d
      BY <2>2 DEF WriteNext
    <3> QED BY <2>2, <3>1 DEF Came
  <2> QED BY <2>1, <2>2
<1> QED BY <1>3, <1>4

\* writeAt: as far as it comes, the file is as it should be; and it comes to the end
\* unless something failed.
LEMMA WriteAtSpec ==
  ASSUME NEW d, NEW n, NEW from \in Nat, NEW to \in Nat, from <= to, Live(d), Ok(d), n \in Inode, n \in d.v.inodes,
         d.node.kind = "file", World(View(d.v, n, Sized(d.node, from)), {})
  PROVE  LET e == writeAt(d, n, from, to)
         IN  Looping(e, n) /\ Turned(d, e, n) /\ from <= e.out /\ (IF Ok(e) THEN e.out = to ELSE e.out < to)
<1> DEFINE c == [d EXCEPT !.out = from]
           N == to - from
           S == {e \in Runs : Looping(e, n) /\ Turned(c, e, n) /\ from <= e.out /\ e.out <= to}
           F == [x \in S \X Nat |-> WriteNext(x[1], n, to)]
           P(f) == f = [k \in 0 .. N |-> IF k = 0 THEN c ELSE WriteNext(f[k - 1], n, to)]
           f0 == CHOOSE f : P(f)
<1>1. N \in Nat
  OBVIOUS
<1>2. Live(c) /\ c.v = d.v /\ c.node = d.node /\ c.out = from /\ c.set = d.set /\ c.status = d.status
  BY OutSet
<1>3. c \in S
  <2>1. Looping(c, n)
    BY <1>2 DEF Looping
  <2>2. c \in Runs /\ from <= c.out /\ c.out <= to
    BY <1>2 DEF Live
  <2> HIDE DEF c
  <2> QED BY <2>1, <2>2, TurnedNothing
<1> HIDE DEF c
<1>4. ASSUME NEW e \in S PROVE WriteNext(e, n, to) \in S
  <2> DEFINE f == WriteNext(e, n, to)
  <2>1. Looping(e, n) /\ Turned(c, e, n) /\ from <= e.out /\ e.out <= to
    OBVIOUS
  <2>2. Looping(f, n) /\ Turned(e, f, n) /\ f.out <= to /\ e.out <= f.out
    BY <2>1, WriteNextSpec
  <2> HIDE DEF f
  <2>7. from <= f.out
    BY <2>1, <2>2, LoopingFacts
  <2>3. Looping(c, n)
    BY <1>3
  <2>4. Turned(c, f, n)
    BY <2>1, <2>2, <2>3, TurnedMore
  <2>5. f \in Runs
    BY <2>2 DEF Looping, Live
  <2>6. f \in S
    BY <2>2, <2>4, <2>5, <2>7
  <2> QED BY <2>6 DEF f
<1> HIDE DEF S
<1>5. F \in [S \X Nat -> S]
  BY <1>4
<1>6. ASSUME NEW e \in S, NEW k \in Nat PROVE F[<<e, k>>] = WriteNext(e, n, to)
  <2>1. <<e, k>> \in S \X Nat /\ <<e, k>>[1] = e
    OBVIOUS
  <2> QED BY <2>1, Zenon
<1> HIDE DEF F, N
<1>7. PICK h \in [0 .. N -> S] : IsRun(h, c, N, F)
  BY <1>1, <1>3, <1>5, Iterated
<1>8. \A k \in 0 .. N : h[k] = IF k = 0 THEN c ELSE F[<<h[k - 1], k>>]
  BY <1>7, Zenon DEF IsRun
<1>9. P(h)
  <2>1. ASSUME NEW k \in 0 .. N PROVE h[k] = IF k = 0 THEN c ELSE WriteNext(h[k - 1], n, to)
    <3>1. CASE k = 0
      BY <1>8, <3>1
    <3>2. CASE k # 0
      <4>1. k - 1 \in 0 .. N /\ k \in Nat
        BY <1>1, <3>2
      <4>2. h[k - 1] \in S
        BY <4>1
      <4>3. h[k] = F[<<h[k - 1], k>>]
        BY <1>8, <3>2, Zenon
      <4> QED BY <1>6, <3>2, <4>1, <4>2, <4>3, Zenon
    <3> QED BY <3>1, <3>2
  <2>2. h = [k \in 0 .. N |-> h[k]]
    OBVIOUS
  <2> QED BY <2>1, <2>2, Zenon
<1>10. P(f0)
  <2> HIDE DEF P
  <2> QED BY <1>9
<1>11. writeAt(d, n, from, to) = f0[N]
  BY Zenon DEF writeAt, f0, c, N
<1> HIDE DEF f0
<1> DEFINE V == {k \in Nat : k \in 0 .. N => f0[k] \in S /\ Came(f0[k], from, to, k)}
<1>12. 0 \in V
  <2>1. 0 \in 0 .. N
    BY <1>1
  <2>2. f0[0] = c
    BY <1>10, <2>1, Zenon
  <2>3. Came(c, from, to, 0)
    BY <1>2 DEF Came, Ok
  <2> QED BY <1>3, <2>2, <2>3
<1>13. ASSUME NEW k \in V PROVE k + 1 \in V
  <2> SUFFICES ASSUME k + 1 \in 0 .. N PROVE f0[k + 1] \in S /\ Came(f0[k + 1], from, to, k + 1)
    OBVIOUS
  <2>1. k \in 0 .. N /\ k + 1 # 0 /\ (k + 1) - 1 = k
    BY <1>1, <1>13
  <2>2. f0[k + 1] = WriteNext(f0[(k + 1) - 1], n, to)
    BY <1>10, <2>1, Zenon
  <2>3. f0[k] \in S /\ Came(f0[k], from, to, k) /\ k \in Nat
    BY <1>13, <2>1
  <2>4. f0[k + 1] = WriteNext(f0[k], n, to)
    BY <2>1, <2>2, Zenon
  <2>5. WriteNext(f0[k], n, to) \in S
    BY <1>4, <2>3, Zenon
  <2>6. Looping(f0[k], n) /\ f0[k].out <= to
    BY <2>3 DEF S
  <2>7. Came(f0[k + 1], from, to, k + 1)
    BY <2>3, <2>4, <2>6, CameOn
  <2> QED BY <2>4, <2>5, <2>7, Zenon
<1>14. V = Nat
  <2>1. V \in SUBSET Nat
    OBVIOUS
  <2> HIDE DEF V
  <2> QED BY <1>12, <1>13, <2>1, HandedOn
<1>15. f0[N] \in S /\ Came(f0[N], from, to, N)
  <2>1. N \in V /\ N \in 0 .. N
    BY <1>1, <1>14
  <2> QED BY <2>1 DEF V
<1>16. Looping(f0[N], n) /\ Turned(c, f0[N], n) /\ from <= f0[N].out /\ f0[N].out <= to
  BY <1>15 DEF S
<1>18. IF Ok(f0[N]) THEN f0[N].out = to ELSE f0[N].out < to
  <2>1. f0[N].out \in Nat
    BY <1>16, LoopingFacts
  <2>2. from + N = to
    BY DEF N
  <2> DEFINE t == f0[N]
  <2>3. Came(t, from, to, N) /\ t.out <= to /\ t.out \in Nat
    BY <1>15, <1>16, <2>1
  <2> HIDE DEF t
  <2>4. CASE Ok(t)
    <3>1. t.out = to \/ t.out >= from + N
      BY <2>3, <2>4 DEF Came
    <3>2. t.out = to
      BY <2>2, <2>3, <3>1
    <3> QED BY <2>4, <3>2 DEF t
  <2>5. CASE ~Ok(t)
    <3>1. t.out < to
      BY <2>3, <2>5 DEF Came
    <3> QED BY <2>5, <3>1 DEF t
  <2> QED BY <2>4, <2>5, Zenon DEF t
<1>17. Turned(d, f0[N], n)
  BY <1>2, <1>16 DEF Turned
<1> QED BY <1>11, <1>16, <1>17, <1>18

\* An inode without blocks.
Bare(z) == /\ z \in NodeType /\ z.size = 0 /\ z.nblk = 0 /\ z.depth = 0 /\ z.root = <<>>
           /\ z.kind = "none" => z = NoInode

LEMMA BareWhole ==
  ASSUME NEW v, NEW z, Bare(z)
  PROVE  Whole(v, z) /\ OwnedBy(v, z) = {} /\ Mapped(v, z) = <<>>
<1>1. Mapped(v, z) = <<>> /\ Leaves(z) = {}
  BY DEF Bare, Mapped, Leaves
<1>2. <<>> \in Seq(Block) /\ ToSet(<<>>) = {} /\ Len(<<>>) = 0
  BY DEF ToSet
<1>3. Fits(<<>>, RootEntries)
  <2>1. RootEntries \in Nat
    BY Sizes
  <2>2. PICK b : b \in Block
    <3>1. 0 \in Group /\ 1 \in 1 .. BlocksPerGroup
      BY Sizes DEF Group
    <3>2. 0 * Span + 1 \in BlocksOf(0)
      BY <3>1 DEF BlocksOf
    <3> QED BY <3>1, <3>2, BlockPlace
  <2> QED BY <1>2, <2>1, <2>2, FitsSpec
<1>4. Inj(<<>>)
  BY DEF Inj
<1>5. Shaped(v, z)
  BY <1>1, <1>2, <1>3, <1>4 DEF Shaped, Bare
<1>6. Cardinality({}) = 0
  BY FS_EmptySet
<1>7. SizeInBlocks(z) = 0
  <2>1. z.size = 0 * Units
    BY Sizes DEF Bare
  <2> QED BY <2>1, SizeOf
<1>8. AllFilled(v, z)
  BY <1>1, <1>2 DEF AllFilled
<1>9. z.size = Len(<<>>) * Units
  BY <1>2, Sizes DEF Bare
<1> QED BY <1>1, <1>2, <1>5, <1>6, <1>7, <1>8, <1>9 DEF Whole, Bare, OwnedBy

LEMMA RestOf ==
  ASSUME NEW v, NEW X, World(v, X), NEW n \in Inode
  PROVE  /\ Rest(v, n) \cap Owns(v, n) = {} /\ Rest(v, n) \cap X = {} /\ X \cap Owns(v, n) = {}
         /\ v.blocks = Rest(v, n) \cup Owns(v, n) \cup X /\ Rest(v, n) \cup Owns(v, n) \cup X \subseteq Block
<1>1. (UNION {Owns(v, j) : j \in Inode}) = Rest(v, n) \cup Owns(v, n)
  BY DEF Rest
<1>2. v.blocks = (UNION {Owns(v, j) : j \in Inode}) \cup X
  BY DEF World
<1>3. Rest(v, n) \cap Owns(v, n) = {} /\ Rest(v, n) \cap X = {} /\ X \cap Owns(v, n) = {}
  BY DEF World, Rest
<1>4. v.blocks \subseteq Block
  BY DEF World, Volume
<1> QED BY <1>1, <1>2, <1>3, <1>4

\* An inode gives up all that it owns.
LEMMA Detached ==
  ASSUME NEW v, NEW X, World(v, X), NEW n \in Inode, NEW z, Bare(z), z.kind = "none" \/ n \in v.inodes
  PROVE  World(View(v, n, z), X \cup Owns(v, n))
<1> DEFINE w == View(v, n, z)
           Y == X \cup Owns(v, n)
<1>1. v \in Volume /\ z \in NodeType
  BY DEF World, Bare
<1>2. HasView(v, n, z, w) /\ Near(v, w, n)
  BY <1>1, ViewHas, NearView
<1> HIDE DEF w
<1>3. Whole(w, z) /\ OwnedBy(w, z) = {}
  BY BareWhole
<1>4. /\ Rest(v, n) \cap Owns(v, n) = {} /\ Rest(v, n) \cap X = {}
      /\ v.blocks = Rest(v, n) \cup Owns(v, n) \cup X /\ Rest(v, n) \cup Owns(v, n) \cup X \subseteq Block
  BY RestOf
<1>5. Others(v, w, n)
  BY <1>2 DEF Near, Others, Same, Agree
<1>6. w \in Volume /\ w.table[n] = z /\ w.blocks = v.blocks /\ w.inodes = v.inodes
  BY <1>2 DEF HasView
<1>7. Y \subseteq Block /\ Y \cap Rest(v, n) = {} /\ Y \cap OwnedBy(w, z) = {}
      /\ w.blocks = Rest(v, n) \cup OwnedBy(w, z) \cup Y /\ OwnedBy(w, z) \cap Rest(v, n) = {}
  BY <1>3, <1>4, <1>6
<1>8. z.kind = "none" \/ n \in w.inodes
  BY <1>6
<1>9. \A j \in Inode \ w.inodes : j # n => v.table[j].kind = "none"
  BY <1>6 DEF World
<1> HIDE DEF Y
<1>10. World(w, Y)
  BY <1>3, <1>5, <1>6, <1>7, <1>8, <1>9, WorldSwap
<1> QED BY <1>10 DEF w, Y

LEMMA WriteInodeSpec ==
  ASSUME NEW d, Live(d), Ok(d), NEW n \in Inode
  PROVE  Does(d, writeInode(d, n), View(d.v, n, d.node))
<1>1. d.v \in Volume /\ d.node \in NodeType
  BY DEF Live, Runs
<1>2. View(d.v, n, d.node) \in Volume
  BY <1>1, ViewHas DEF HasView
<1>3. writeInode(d, n) = Put(d, View(d.v, n, d.node))
  BY DEF writeInode, View
<1> QED BY <1>2, <1>3, PutDoes

\* Counters are not in the inodes.
LEMMA RecountsView ==
  ASSUME NEW v \in Volume, NEW n \in Inode, NEW node \in NodeType
  PROVE  Recounts(v, View(v, n, node)) /\ Recounts(View(v, n, node), v)
<1> DEFINE w == View(v, n, node)
<1>1. w.blocks = v.blocks /\ w.inodes = v.inodes /\ w.groups = v.groups /\ w.free = v.free
  BY DEF View, Volume
<1> HIDE DEF w
<1>2. Recounts(v, w) /\ Recounts(w, v)
  BY <1>1 DEF Recounts, Counted
<1> QED BY <1>2 DEF w

LEMMA SaveSizeSpec ==
  ASSUME NEW d, Live(d), NEW n \in Inode, NEW asked
  PROVE  LET e == SaveSize(d, n, asked)
         IN  Live(e) /\ e.v = View(d.v, n, Sized(d.node, d.out)) /\ e.status = d.status /\ e.set = d.set
<1> DEFINE x == Sized(d.node, d.out)
           c == [d EXCEPT !.status = "ok", !.node = x]
           p == writeInode(c, n)
           s == IF Ok(d) THEN p.status ELSE d.status
           e == [p EXCEPT !.status = s]
<1>1. d.v \in Volume /\ d.node \in NodeType /\ d.out \in Nat /\ d.status \in Statuses \cup {"cut"}
  BY DEF Live, Runs
<1>2. x \in NodeType
  BY <1>1, SizedIn
<1>3. [d EXCEPT !.status = "ok", !.node.size = SizeReached(d, asked)] = c
  BY DEF Live, Runs, Sized, SizeReached
<1>4. SaveSize(d, n, asked) = e
  BY <1>3 DEF SaveSize
<1> HIDE DEF x
<1>5. Live(c) /\ Ok(c) /\ c.v = d.v /\ c.node = x /\ c.set = d.set /\ c.status = "ok"
  BY <1>2 DEF Live, Runs, Ok, Statuses
<1> HIDE DEF c
<1>6. Does(c, p, View(c.v, n, c.node))
  BY <1>5, WriteInodeSpec
<1>7. Live(p) /\ p.v = View(d.v, n, x) /\ p.status = "ok" /\ p.set = d.set
  BY <1>5, <1>6 DEF Does
<1> HIDE DEF p
<1>8. s = d.status
  BY <1>7 DEF Ok
<1> HIDE DEF s
<1>9. Live(e) /\ e.v = p.v /\ e.status = d.status /\ e.set = p.set
  BY <1>1, <1>7, <1>8 DEF Live, Runs
<1> HIDE DEF e
<1> QED BY <1>4, <1>7, <1>9 DEF x

\* The text of a file that was to go from one unit to another, or was cut short by
\* the end of the disk.
CutShort(d, e, n, from, to) ==
  /\ e.status \in {d.status, "noSpace"}
  /\ LET size == e.v.table[n].size
     IN  size \in Nat /\ from <= size /\ IF Ok(e) THEN size = to ELSE size < to

\* From v to w a file has another text.
FileStep(v, w, n) ==
  /\ World(w, {}) /\ w.inodes = v.inodes /\ Recounts(v, w) /\ Others(v, w, n)
  /\ w.table[n].kind = "file" /\ w.table[n].links = v.table[n].links

LEMMA WriteFromSpec ==
  ASSUME NEW d, NEW n \in Inode, NEW from \in Nat, NEW to \in Nat, from <= to, Live(d), Ok(d), n \in d.v.inodes,
         d.node.kind = "file", d.node.links = d.v.table[n].links,
         World(View(d.v, n, Sized(d.node, from)), {})
  PROVE  LET e == WriteFrom(d, n, from, to)
         IN  Live(e) /\ FileStep(d.v, e.v, n) /\ e.set = d.set /\ CutShort(d, e, n, from, to)
<1> DEFINE t == writeAt(d, n, from, to)
           e == WriteFrom(d, n, from, to)
           x == Sized(t.node, t.out)
<1>1. Looping(t, n) /\ Turned(d, t, n) /\ from <= t.out /\ (IF Ok(t) THEN t.out = to ELSE t.out < to)
  BY WriteAtSpec
<1>2. e = SaveSize(t, n, to)
  BY DEF WriteFrom
<1> HIDE DEF t, e
<1>3. Live(t) /\ t.v \in Volume /\ t.node \in NodeType /\ t.out \in Nat /\ t.node.kind = "file"
      /\ World(View(t.v, n, x), {})
  BY <1>1, LoopingFacts DEF Looping
<1>4. Live(e) /\ e.v = View(t.v, n, x) /\ e.set = t.set /\ e.status = t.status
  BY <1>2, <1>3, SaveSizeSpec
<1>5. x \in NodeType /\ x.kind = t.node.kind /\ x.links = t.node.links /\ x.size = t.out
  BY <1>3, SizedIn
<1> HIDE DEF x
<1>6. HasView(t.v, n, x, e.v) /\ Near(t.v, e.v, n) /\ Recounts(t.v, e.v)
  BY <1>3, <1>4, <1>5, ViewHas, NearView, RecountsView
<1>7. /\ t.v.table = d.v.table /\ t.v.inodes = d.v.inodes /\ Recounts(d.v, t.v) /\ Others(d.v, t.v, n)
      /\ t.node.kind = d.node.kind /\ t.node.links = d.node.links /\ t.set = d.set
  BY <1>1 DEF Turned
<1>8. Others(d.v, e.v, n)
  <2>1. Near(d.v, d.v, n)
    BY DEF Near
  <2> QED BY <2>1, <1>6, <1>7, OthersNear
<1>9. Recounts(d.v, e.v)
  BY <1>6, <1>7 DEF Recounts
<1>10. e.v.inodes = d.v.inodes /\ e.v.table[n] = x
  BY <1>6, <1>7 DEF HasView
<1>11. FileStep(d.v, e.v, n)
  BY <1>3, <1>4, <1>5, <1>7, <1>8, <1>9, <1>10 DEF FileStep
<1>12. CutShort(d, e, n, from, to)
  <2>1. Ok(e) <=> Ok(t)
    BY <1>4 DEF Ok
  <2>2. e.v.table[n].size = t.out
    BY <1>5, <1>10
  <2> QED BY <1>1, <1>3, <1>4, <2>1, <2>2 DEF CutShort, Turned
<1> QED BY <1>4, <1>7, <1>11, <1>12 DEF e

LEMMA SizedSelf ==
  ASSUME NEW node \in NodeType
  PROVE  Sized(node, node.size) = node
BY DEF Sized, NodeType

\* The blocks of an inode are freed, and the inode is bare in memory.
LEMMA FreedWorld ==
  ASSUME NEW d, Live(d), Ok(d), World(d.v, {}), NEW n \in Inode, NEW z, Bare(z), z.kind = "none" \/ n \in d.v.inodes,
         NEW e, e = FreeBlocksOf(d, d.v.table[n])
  PROVE  /\ Live(e) /\ Ok(e) /\ World(View(e.v, n, z), {}) /\ Others(d.v, e.v, n) /\ e.v.table = d.v.table
         /\ e.v.inodes = d.v.inodes /\ Recounts(d.v, e.v) /\ e.set = d.set
<1> DEFINE node == d.v.table[n]
           X == Owns(d.v, n)
<1>1. Whole(d.v, node) /\ X = OwnedBy(d.v, node) /\ X \subseteq d.v.blocks /\ X \subseteq Block /\ d.v \in Volume
      /\ z \in NodeType
  <2>1. Whole(d.v, node) /\ d.v \in Volume
    BY DEF World
  <2>2. X \subseteq d.v.blocks /\ X \subseteq Block
    BY RestOf
  <2> QED BY <2>1, <2>2 DEF Owns, Bare
<1>2. World(View(d.v, n, z), {} \cup X)
  BY Detached
<1>3. {} \cup X = X /\ X \ X = {} /\ X \subseteq X
  OBVIOUS
<1>4. Frees(d, e, X)
  <2>1. Shaped(d.v, node) /\ node.nblk = Len(Mapped(d.v, node)) + Cardinality(Leaves(node))
        /\ OwnedBy(d.v, node) \subseteq d.v.blocks
    BY <1>1 DEF Whole
  <2>2. Frees(d, FreeBlocksOf(d, node), OwnedBy(d.v, node))
    BY <2>1, FreeBlocksOfSpec
  <2> QED BY <2>2, <1>1
<1> HIDE DEF X, node
<1>5. Live(e) /\ Ok(e) /\ e.set = d.set /\ Recounts(d.v, e.v) /\ e.v \in Volume
  BY <1>4 DEF Frees, Steps, Keeps
<1>6. Frame(d.v, e.v, X, {})
  <2>1. Frame(d.v, e.v, X, X \ X)
    BY <1>1, <1>3, <1>4, FreesMove
  <2> QED BY <2>1, <1>3
<1>7. World(View(d.v, n, z), X)
  BY <1>2, <1>3
<1> QED BY <1>1, <1>5, <1>6, <1>7, MovedView

\* Another inode in memory.
LEMMA NodeSet ==
  ASSUME NEW d, Live(d), NEW x \in NodeType, NEW e, e = [d EXCEPT !.node = x]
  PROVE  Live(e) /\ e.v = d.v /\ e.status = d.status /\ e.set = d.set /\ e.node = x /\ e.out = d.out
BY DEF Live, Runs

LEMMA EmptySpec ==
  ASSUME NEW d, Live(d), Ok(d), World(d.v, {}), NEW n \in Inode, n \in d.v.inodes,
         NEW e, e = Empty(d, n, d.v.table[n])
  PROVE  Live(e) /\ Ok(e) /\ FileStep(d.v, e.v, n) /\ e.set = d.set /\ e.node = e.v.table[n] /\ e.node.size = 0
<1> DEFINE node == d.v.table[n]
           f == FreeBlocksOf(d, node)
           z == [NoInode EXCEPT !.kind = "file", !.links = node.links]
           c == [f EXCEPT !.node = z]
<1>1. node \in NodeType
  BY DEF World, Volume
<1>2. Bare(z) /\ z.kind = "file" /\ z.links = node.links /\ z.size = 0
  <2> DEFINE l == node.links
  <2>0. z = [NoInode EXCEPT !.kind = "file", !.links = l]
    OBVIOUS
  <2>1. l \in Nat
    BY <1>1 DEF NodeType
  <2> HIDE DEF l, z
  <2>2. z = [kind |-> "file", links |-> l, size |-> 0, nblk |-> 0, depth |-> 0, root |-> <<>>]
    BY <2>0 DEF NoInode
  <2>3. <<>> \in Seq(Block)
    OBVIOUS
  <2>4. z \in NodeType
    BY <2>1, <2>2, <2>3 DEF NodeType
  <2> QED BY <2>2, <2>4 DEF Bare, l
<1>3. z \in NodeType
  BY <1>2 DEF Bare
<1>4. e = writeInode(c, n)
  BY DEF Empty
<1> HIDE DEF z
<1>5. /\ Live(f) /\ Ok(f) /\ World(View(f.v, n, z), {}) /\ Others(d.v, f.v, n) /\ f.v.table = d.v.table
      /\ f.v.inodes = d.v.inodes /\ Recounts(d.v, f.v) /\ f.set = d.set
  BY <1>2, FreedWorld
<1> HIDE DEF f
<1>6. Live(c) /\ c.v = f.v /\ c.node = z /\ c.set = f.set /\ c.status = f.status
  BY <1>3, <1>5, NodeSet
<1> HIDE DEF c
<1>7. Does(c, e, View(c.v, n, c.node))
  BY <1>4, <1>5, <1>6, WriteInodeSpec DEF Ok
<1>8. Live(e) /\ Ok(e) /\ e.v = View(f.v, n, z) /\ e.node = z /\ e.set = d.set
  BY <1>5, <1>6, <1>7 DEF Does, Ok
<1>9. f.v \in Volume
  BY <1>5 DEF Live, Runs
<1>10. HasView(f.v, n, z, e.v) /\ Near(f.v, e.v, n) /\ Recounts(f.v, e.v) /\ Near(d.v, d.v, n)
  BY <1>3, <1>8, <1>9, ViewHas, NearView, RecountsView DEF Near
<1>11. Others(d.v, e.v, n)
  BY <1>5, <1>10, OthersNear
<1>12. e.v.table[n] = z /\ e.v.inodes = d.v.inodes
  BY <1>5, <1>10 DEF HasView
<1>13. Recounts(d.v, e.v)
  BY <1>5, <1>10 DEF Recounts
<1>14. FileStep(d.v, e.v, n)
  BY <1>2, <1>5, <1>8, <1>11, <1>12, <1>13 DEF FileStep, node
<1> QED BY <1>2, <1>8, <1>12, <1>14

LEMMA FileStepMore ==
  ASSUME NEW u, NEW v, NEW w, NEW n \in Inode, World(u, {}), FileStep(u, v, n), FileStep(v, w, n)
  PROVE  FileStep(u, w, n)
<1>1. Others(u, w, n)
  BY OthersMore DEF FileStep
<1> QED BY <1>1 DEF FileStep, Recounts

\* writeFile's part on a file that is there.
LEMMA WriteNodeSpec ==
  ASSUME NEW d, Live(d), Ok(d), World(d.v, {}), NEW n \in Inode, d.v.table[n].kind = "file", NEW len \in Nat,
         NEW append \in BOOLEAN, NEW e, e = WriteNode(d, n, d.v.table[n], len, append)
  PROVE  /\ Live(e) /\ FileStep(d.v, e.v, n) /\ e.set = d.set
         /\ LET from == IF append THEN d.v.table[n].size ELSE 0 IN CutShort(d, e, n, from, from + len)
<1> DEFINE node == d.v.table[n]
<1>1. n \in d.v.inodes /\ node \in NodeType /\ node.size \in Nat /\ d.v \in Volume
  BY Zenon DEF World, Volume, NodeType
<1>2. CASE append
  <2> DEFINE c == [d EXCEPT !.node = node]
  <2>1. Live(c) /\ c.v = d.v /\ c.status = d.status /\ c.set = d.set /\ c.node = node
    BY <1>1, NodeSet
  <2>2. e = WriteFrom(c, n, node.size, node.size + len)
    BY <1>2 DEF WriteNode
  <2> HIDE DEF c
  <2>3. Sized(c.node, node.size) = node
    BY <1>1, <2>1, SizedSelf
  <2>4. World(View(c.v, n, Sized(c.node, node.size)), {})
    BY <1>1, <2>1, <2>3, ViewSelf
  <2>5. node.size + len \in Nat /\ node.size <= node.size + len
    <3> HIDE DEF node
    <3> QED BY <1>1
  <2>6. Ok(c) /\ n \in c.v.inodes /\ c.node.kind = "file" /\ c.node.links = c.v.table[n].links
    BY <1>1, <2>1 DEF Ok
  <2>7. Live(e) /\ FileStep(c.v, e.v, n) /\ e.set = c.set /\ CutShort(c, e, n, node.size, node.size + len)
    BY <1>1, <2>1, <2>2, <2>4, <2>5, <2>6, WriteFromSpec
  <2>8. CutShort(d, e, n, node.size, node.size + len)
    BY <2>1, <2>7, Zenon DEF CutShort, Ok
  <2> HIDE DEF node
  <2>9. (IF append THEN node.size ELSE 0) = node.size
    BY <1>2
  <2> QED BY <2>1, <2>7, <2>8, <2>9 DEF node
<1>3. CASE ~append
  <2> DEFINE c == Empty(d, n, node)
  <2>1. e = WriteFrom(c, n, 0, len)
    BY <1>3 DEF WriteNode
  <2>2. Live(c) /\ Ok(c) /\ FileStep(d.v, c.v, n) /\ c.set = d.set /\ c.node = c.v.table[n] /\ c.node.size = 0
    BY <1>1, EmptySpec
  <2> HIDE DEF c
  <2>3. c.v \in Volume /\ c.node \in NodeType /\ World(c.v, {})
    BY <2>2 DEF Live, Runs, FileStep
  <2>4. Sized(c.node, 0) = c.v.table[n]
    BY <2>2, <2>3, SizedSelf
  <2>5. World(View(c.v, n, Sized(c.node, 0)), {})
    BY <2>3, <2>4, ViewSelf
  <2>6. n \in c.v.inodes /\ c.node.kind = "file" /\ c.node.links = c.v.table[n].links
    BY <1>1, <2>2 DEF FileStep
  <2>7. Live(e) /\ FileStep(c.v, e.v, n) /\ e.set = c.set /\ CutShort(c, e, n, 0, len)
    <3>1. 0 \in Nat /\ 0 <= len
      OBVIOUS
    <3> QED BY <3>1, <2>1, <2>2, <2>5, <2>6, WriteFromSpec
  <2>8. FileStep(d.v, e.v, n)
    BY <2>2, <2>7, FileStepMore
  <2>9. CutShort(d, e, n, 0, len)
    BY <2>2, <2>7, Zenon DEF CutShort, Ok
  <2> HIDE DEF node
  <2>10. (IF append THEN node.size ELSE 0) = 0 /\ 0 + len = len
    BY <1>3
  <2> QED BY <2>2, <2>7, <2>8, <2>9, <2>10 DEF node
<1> QED BY <1>2, <1>3

--------------------------------------------------------------------------------
(* Directories *)

\* The blocks of a directory, their records, and its entries: names with inodes.
List(v, n)    == Mapped(v, v.table[n])
Line(v, n, k) == v.data[List(v, n)[k]].recs
Ent(v, n)     == UNION {Pairs(Line(v, n, k)) : k \in 1 .. Len(List(v, n))}

Folder(v, n) == v \in Volume /\ n \in Inode /\ v.table[n].kind = "dir" /\ Whole(v, v.table[n])

LEMMA FolderIn ==
  ASSUME NEW v, NEW n, Folder(v, n)
  PROVE  /\ v.table[n] \in NodeType /\ List(v, n) \in Seq(Block) /\ Inj(List(v, n)) /\ Len(List(v, n)) \in Nat
         /\ DirBlocks(v, n) = List(v, n)
         /\ \A k \in 1 .. Len(List(v, n)) : /\ List(v, n)[k] \in Block /\ v.data[List(v, n)[k]].kind = "dir"
                                            /\ Line(v, n, k) \in Seq(RecType) /\ LengthOf(Line(v, n, k)) = Slots
<1> DEFINE node == v.table[n]
           m == List(v, n)
<1>1. v \in Volume /\ n \in Inode /\ node.kind = "dir" /\ Whole(v, node) /\ m = Mapped(v, node)
  BY DEF Folder, List
<1>2. Shaped(v, node) /\ node \in NodeType
  BY <1>1 DEF Whole, Shaped
<1>3. m \in Seq(Block) /\ Inj(m)
  BY <1>1, <1>2, MappedIn DEF Shaped
<1>4. node.size = Len(m) * Units /\ \A k \in 1 .. Len(m) : Filled(v.data[m[k]], node, k)
  BY <1>1 DEF Whole, AllFilled
<1> HIDE DEF m, node
<1>5. Len(m) \in Nat /\ \A k \in 1 .. Len(m) : m[k] \in Block
  BY <1>3, LenProperties
<1>6. ASSUME NEW k \in 1 .. Len(m) PROVE /\ m[k] \in Block /\ v.data[m[k]].kind = "dir"
                                         /\ v.data[m[k]].recs \in Seq(RecType) /\ LengthOf(v.data[m[k]].recs) = Slots
  <2>1. v.data[m[k]].kind = "dir" /\ LengthOf(v.data[m[k]].recs) = Slots
    BY <1>1, <1>4 DEF Filled
  <2>2. v.data[m[k]] \in Content
    BY <1>1, <1>5 DEF Volume
  <2> QED BY <1>5, <2>1, <2>2 DEF Content
<1>7. DirBlocks(v, n) = m
  <2>1. Units \in Nat /\ Units >= 1
    BY Sizes
  <2>2. node.size \div Units = Len(m)
    <3>1. 0 \in 0 .. Units - 1
      BY <2>1
    <3>2. (Len(m) * Units + 0) \div Units = Len(m)
      BY <1>5, <2>1, <3>1, Divided, Zenon
    <3>3. Len(m) * Units + 0 = Len(m) * Units
      BY <1>5, <2>1, Times
    <3> QED BY <1>4, <3>2, <3>3, Zenon
  <2>3. SubSeq(m, 1, Len(m)) = m
    BY <1>3
  <2> QED BY <1>1, <2>2, <2>3, Zenon DEF DirBlocks, node
<1> QED BY <1>2, <1>3, <1>5, <1>6, <1>7 DEF m, node, Line

\* A place in a directory.
PlaceIn == [block: Block, index: Nat]
PlacesOf(v, m) == [k \in 1 .. Len(m) |-> [i \in 1 .. Len(v.data[m[k]].recs) |-> [block |-> m[k], index |-> i]]]
IsPlace(v, n, p) ==
  /\ p \in PlaceIn
  /\ \E k \in 1 .. Len(List(v, n)) : p.block = List(v, n)[k] /\ p.index \in 1 .. Len(Line(v, n, k))

\* s are the places of a directory, block by block.
Covers(v, n, m, s) ==
  /\ s \in Seq(Seq(PlaceIn)) /\ Len(s) = Len(m) /\ Positions(v, n) = FlattenSeq(s)
  /\ \A k \in 1 .. Len(m) : /\ s[k] \in Seq(PlaceIn) /\ Len(s[k]) = Len(Line(v, n, k))
                            /\ \A i \in 1 .. Len(Line(v, n, k)) : s[k][i] = [block |-> m[k], index |-> i]

LEMMA PlacesIn ==
  ASSUME NEW v, NEW n, Folder(v, n)
  PROVE  Covers(v, n, List(v, n), PlacesOf(v, List(v, n)))
<1> DEFINE m == List(v, n)
           s == PlacesOf(v, m)
<1>1. /\ m \in Seq(Block) /\ Len(m) \in Nat /\ DirBlocks(v, n) = m
      /\ \A k \in 1 .. Len(m) : m[k] \in Block /\ Line(v, n, k) \in Seq(RecType)
  BY FolderIn
<1> HIDE DEF m
<1>2. \A k \in 1 .. Len(m) : s[k] = [i \in 1 .. Len(Line(v, n, k)) |-> [block |-> m[k], index |-> i]]
  BY DEF PlacesOf, Line, m
<1>3. ASSUME NEW k \in 1 .. Len(m)
      PROVE  /\ s[k] \in Seq(PlaceIn) /\ Len(s[k]) = Len(Line(v, n, k))
             /\ \A i \in 1 .. Len(Line(v, n, k)) : s[k][i] = [block |-> m[k], index |-> i]
  <2> DEFINE l == Len(Line(v, n, k))
             t == [i \in 1 .. l |-> [block |-> m[k], index |-> i]]
  <2>1. l \in Nat /\ m[k] \in Block
    BY <1>1, LenProperties
  <2>2. s[k] = t
    BY <1>2
  <2> HIDE DEF l, s
  <2>3. \A i \in 1 .. l : [block |-> m[k], index |-> i] \in PlaceIn
    BY <2>1 DEF PlaceIn
  <2>4. t \in Seq(PlaceIn) /\ Len(t) = l
    BY <2>1, <2>3
  <2> QED BY <2>2, <2>4 DEF l
<1>4. s \in Seq(Seq(PlaceIn)) /\ Len(s) = Len(m)
  <2>1. s = [k \in 1 .. Len(m) |-> s[k]]
    BY DEF PlacesOf
  <2> HIDE DEF s
  <2>2. \A k \in 1 .. Len(m) : s[k] \in Seq(PlaceIn)
    BY <1>3
  <2>3. [k \in 1 .. Len(m) |-> s[k]] \in Seq(Seq(PlaceIn)) /\ Len([k \in 1 .. Len(m) |-> s[k]]) = Len(m)
    BY <1>1, <2>2
  <2> QED BY <2>1, <2>3, Zenon
<1>5. Positions(v, n) = FlattenSeq(s)
  BY <1>1, Zenon DEF Positions, PositionsIn, PlacesOf
<1> HIDE DEF s
<1>6. Covers(v, n, m, s)
  BY <1>3, <1>4, <1>5, Zenon DEF Covers
<1> QED BY <1>6, Zenon DEF m, s

LEMMA PositionsAre ==
  ASSUME NEW v, NEW n, Folder(v, n)
  PROVE  /\ Positions(v, n) \in Seq(PlaceIn)
         /\ \A p : p \in ToSet(Positions(v, n)) <=> IsPlace(v, n, p)
<1> DEFINE m == List(v, n)
           s == PlacesOf(v, m)
<1>1. /\ s \in Seq(Seq(PlaceIn)) /\ Len(s) = Len(m) /\ Positions(v, n) = FlattenSeq(s)
      /\ \A k \in 1 .. Len(m) : /\ s[k] \in Seq(PlaceIn) /\ Len(s[k]) = Len(Line(v, n, k))
                                /\ \A i \in 1 .. Len(Line(v, n, k)) : s[k][i] = [block |-> m[k], index |-> i]
  <2>1. Covers(v, n, m, s)
    BY PlacesIn, Zenon
  <2> HIDE DEF m, s
  <2> QED BY <2>1, Zenon DEF Covers
<1>2. Positions(v, n) \in Seq(PlaceIn)
  BY <1>1, Flattened
<1>3. /\ \A k \in 1 .. Len(m) : m[k] \in Block /\ Line(v, n, k) \in Seq(RecType)
      /\ Len(m) \in Nat
  BY FolderIn
<1> HIDE DEF m, s
<1>4. ToSet(Positions(v, n)) = UNION {ToSet(s[k]) : k \in 1 .. Len(m)}
  BY <1>1, FlattenedSet
<1>5. \A k \in 1 .. Len(m) : ToSet(s[k]) = {[block |-> m[k], index |-> i] : i \in 1 .. Len(Line(v, n, k))}
  <2> TAKE k \in 1 .. Len(m)
  <2>1. s[k] \in Seq(PlaceIn) /\ Len(s[k]) = Len(Line(v, n, k))
    BY <1>1
  <2>2. ToSet(s[k]) = {s[k][i] : i \in 1 .. Len(Line(v, n, k))}
    BY <2>1 DEF ToSet
  <2> DEFINE t == s[k]
             J == 1 .. Len(Line(v, n, k))
  <2>3. \A i \in J : t[i] = [block |-> m[k], index |-> i]
    BY <1>1
  <2>4. ToSet(s[k]) = {t[i] : i \in J}
    BY <2>2
  <2> HIDE DEF t, J
  <2>5. {t[i] : i \in J} = {[block |-> m[k], index |-> i] : i \in J}
    BY <2>3, ZenonT(40)
  <2> QED BY <2>4, <2>5 DEF J
<1>6. ASSUME NEW p PROVE p \in ToSet(Positions(v, n)) <=> IsPlace(v, n, p)
  <2>1. ASSUME p \in ToSet(Positions(v, n)) PROVE IsPlace(v, n, p)
    <3>1. PICK k \in 1 .. Len(m) : p \in ToSet(s[k])
      BY <1>4, <2>1
    <3>2. PICK i \in 1 .. Len(Line(v, n, k)) : p = [block |-> m[k], index |-> i]
      BY <1>5, <3>1
    <3>3. p.block = m[k] /\ p.index = i /\ p \in PlaceIn
      BY <3>2, <1>3 DEF PlaceIn
    <3> QED BY <3>3 DEF IsPlace, m
  <2>2. ASSUME IsPlace(v, n, p) PROVE p \in ToSet(Positions(v, n))
    <3>1. PICK k \in 1 .. Len(m) : p.block = m[k] /\ p.index \in 1 .. Len(Line(v, n, k))
      BY <2>2 DEF IsPlace, m
    <3>2. p = [block |-> m[k], index |-> p.index]
      BY <2>2, <3>1 DEF IsPlace, PlaceIn
    <3>3. p \in ToSet(s[k])
      BY <1>5, <3>1, <3>2
    <3> QED BY <1>4, <3>3
  <2> QED BY <2>1, <2>2
<1> QED BY <1>2, <1>6

LEMMA FirstInIs ==
  ASSUME NEW positions \in Seq(PlaceIn), NEW wanted, NEW p, p = FirstIn(positions, wanted)
  PROVE  \/ p = Nowhere /\ \A q \in ToSet(positions) : q \notin wanted
         \/ p # Nowhere /\ p \in ToSet(positions) /\ p \in wanted
<1> DEFINE hits == {i \in DOMAIN positions : positions[i] \in wanted}
<1>1. DOMAIN positions = 1 .. Len(positions) /\ Len(positions) \in Nat
  BY LenProperties
<1>2. p = IF hits = {} THEN Nowhere ELSE positions[Min(hits)]
  BY DEF FirstIn
<1>3. CASE hits = {}
  BY <1>1, <1>2, <1>3 DEF ToSet
<1>4. CASE hits # {}
  <2>1. hits \in SUBSET Nat
    BY <1>1
  <2>2. Min(hits) \in hits
    BY <1>4, <2>1, MinOf
  <2>3. Min(hits) \in DOMAIN positions /\ positions[Min(hits)] \in wanted
    BY <2>2
  <2> HIDE DEF hits
  <2>4. p \in PlaceIn /\ p \in ToSet(positions) /\ p \in wanted
    BY <1>1, <1>2, <1>4, <2>3 DEF ToSet
  <2>5. p.block # none
    BY <2>4, BlockGroup DEF PlaceIn
  <2> QED BY <2>4, <2>5 DEF Nowhere
<1> QED BY <1>3, <1>4

\* The place of an entry.
EntryIs(v, n, p, name, child) ==
  /\ p \in PlaceIn
  /\ \E k \in 1 .. Len(List(v, n)) : /\ p.block = List(v, n)[k] /\ p.index \in LiveAt(Line(v, n, k))
                                     /\ Line(v, n, k)[p.index].name = name /\ Line(v, n, k)[p.index].ino = child

NoName(v, n, name) == \A p \in Ent(v, n) : p[1] # name

\* What a name leads to in a directory.
Finds(v, n, name, f) ==
  \/ v.table[n].kind # "dir" /\ f.status = "notDirectory"
  \/ v.table[n].kind = "dir" /\ f.status = "notFound" /\ NoName(v, n, name)
  \/ /\ v.table[n].kind = "dir" /\ f.status = "ok" /\ EntryIs(v, n, f.pos, name, f.ino)
     /\ f.ino \in Inode /\ <<name, f.ino>> \in Ent(v, n)

LEMMA FindSpec ==
  ASSUME NEW v, NEW X, World(v, X), NEW n \in Inode, NEW name, NEW f, f = findEntry(v, n, name)
  PROVE  Finds(v, n, name, f)
<1>1. CASE v.table[n].kind # "dir"
  BY <1>1 DEF findEntry, Finds
<1>2. CASE v.table[n].kind = "dir"
  <2>1. Folder(v, n)
    BY <1>2 DEF World, Folder
  <2> DEFINE P == Positions(v, n)
             W == {p \in ToSet(P) : At(v, p).ino # none /\ At(v, p).name = name}
             p0 == FirstIn(P, W)
  <2>2. f = EntryAt(v, p0)
    BY <1>2 DEF findEntry, EntryIn
  <2>3. P \in Seq(PlaceIn) /\ \A p : p \in ToSet(P) <=> IsPlace(v, n, p)
    BY <2>1, PositionsAre
  <2>4. \A k \in 1 .. Len(List(v, n)) : List(v, n)[k] \in Block /\ Line(v, n, k) \in Seq(RecType)
    BY <2>1, FolderIn
  <2> HIDE DEF p0, W
  <2>5. \/ p0 = Nowhere /\ \A q \in ToSet(P) : q \notin W
        \/ p0 # Nowhere /\ p0 \in ToSet(P) /\ p0 \in W
    BY <2>3, FirstInIs DEF p0
  <2> HIDE DEF P
  <2>6. CASE p0 = Nowhere
    <3>1. f.status = "notFound"
      BY <2>2, <2>6 DEF EntryAt
    <3>2. NoName(v, n, name)
      <4> SUFFICES ASSUME NEW e \in Ent(v, n), e[1] = name PROVE FALSE
        BY DEF NoName
      <4>1. PICK k \in 1 .. Len(List(v, n)) : e \in Pairs(Line(v, n, k))
        BY DEF Ent
      <4>2. PICK i \in LiveAt(Line(v, n, k)) : e = <<Line(v, n, k)[i].name, Line(v, n, k)[i].ino>>
        BY <4>1 DEF Pairs
      <4> DEFINE q == [block |-> List(v, n)[k], index |-> i]
      <4>3. i \in 1 .. Len(Line(v, n, k)) /\ Line(v, n, k)[i].ino # none /\ Line(v, n, k)[i].name = name
        BY <4>2 DEF LiveAt
      <4>4. IsPlace(v, n, q)
        <5>1. q \in PlaceIn /\ q.block = List(v, n)[k] /\ q.index = i
          BY <2>4, <4>3 DEF PlaceIn
        <5> HIDE DEF q
        <5> QED BY <4>3, <5>1 DEF IsPlace
      <4>5. At(v, q) = Line(v, n, k)[i]
        BY DEF At, Line
      <4> HIDE DEF q
      <4>6. q \in ToSet(P) /\ q \in W
        BY <2>3, <4>3, <4>4, <4>5 DEF W
      <4> QED BY <2>5, <2>6, <4>6
    <3> QED BY <1>2, <3>1, <3>2 DEF Finds
  <2>7. CASE p0 # Nowhere
    <3>1. p0 \in W /\ IsPlace(v, n, p0)
      BY <2>3, <2>5, <2>7
    <3>2. f.status = "ok" /\ f.pos = p0 /\ f.ino = At(v, p0).ino
      BY <2>2, <2>7 DEF EntryAt
    <3>3. PICK k \in 1 .. Len(List(v, n)) : p0.block = List(v, n)[k] /\ p0.index \in 1 .. Len(Line(v, n, k))
      BY <3>1 DEF IsPlace
    <3>4. At(v, p0) = Line(v, n, k)[p0.index]
      BY <3>3 DEF At, Line
    <3>5. Line(v, n, k)[p0.index].ino # none /\ Line(v, n, k)[p0.index].name = name
      BY <3>1, <3>4 DEF W
    <3>6. p0.index \in LiveAt(Line(v, n, k))
      BY <3>3, <3>5 DEF LiveAt
    <3>7. f.ino \in Inode
      <4>1. Line(v, n, k)[p0.index] \in RecType
        BY <2>4, <3>3
      <4> QED BY <3>2, <3>4, <3>5, <4>1 DEF RecType
    <3>8. EntryIs(v, n, f.pos, name, f.ino)
      BY <3>1, <3>2, <3>3, <3>4, <3>5, <3>6 DEF EntryIs, IsPlace
    <3>9. <<name, f.ino>> \in Ent(v, n)
      <4>1. <<name, f.ino>> \in Pairs(Line(v, n, k))
        BY <3>2, <3>4, <3>5, <3>6 DEF Pairs
      <4> QED BY <4>1 DEF Ent
    <3> QED BY <1>2, <3>2, <3>7, <3>8, <3>9 DEF Finds
  <2> QED BY <2>6, <2>7
<1> QED BY <1>1, <1>2

\* RoomIn: a record that is unused or has slack, if there is one.
LEMMA RoomSpec ==
  ASSUME NEW v, NEW n, Folder(v, n), NEW p, p = RoomIn(v, Positions(v, n)), p # Nowhere
  PROVE  \E k \in 1 .. Len(List(v, n)) : /\ p.block = List(v, n)[k] /\ p.index \in 1 .. Len(Line(v, n, k))
                                         /\ Line(v, n, k)[p.index].ino = none \/ Line(v, n, k)[p.index].len > 1
<1> DEFINE P == Positions(v, n)
           W == {q \in ToSet(P) : At(v, q).ino = none \/ At(v, q).len > 1}
<1>1. P \in Seq(PlaceIn) /\ \A q : q \in ToSet(P) <=> IsPlace(v, n, q)
  BY PositionsAre
<1>2. p = FirstIn(P, W)
  BY DEF RoomIn
<1> HIDE DEF P, W
<1>3. p \in ToSet(P) /\ p \in W
  BY <1>1, <1>2, FirstInIs
<1>4. PICK k \in 1 .. Len(List(v, n)) : p.block = List(v, n)[k] /\ p.index \in 1 .. Len(Line(v, n, k))
  BY <1>1, <1>3 DEF IsPlace
<1>5. At(v, p) = Line(v, n, k)[p.index]
  BY <1>4 DEF At, Line
<1> QED BY <1>3, <1>4, <1>5 DEF W

\* A directory as the driver lists it: "." and "..", and no name twice.
Apart(v, n) ==
  \A k, l \in 1 .. Len(List(v, n)) : k # l =>
    \A p \in Pairs(Line(v, n, k)), q \in Pairs(Line(v, n, l)) : p[1] # q[1]
Listed(v, n, up) ==
  /\ Len(List(v, n)) >= 1 /\ Heads(Line(v, n, 1), n, up)
  /\ \A k \in 1 .. Len(List(v, n)) : Distinct(Line(v, n, k))
  /\ Apart(v, n)

\* The lines of w are those of v, but for one.
Relined(v, w, n, j, s) ==
  /\ List(w, n) = List(v, n) /\ j \in 1 .. Len(List(v, n)) /\ Line(w, n, j) = s
  /\ \A k \in 1 .. Len(List(v, n)) : k # j => Line(w, n, k) = Line(v, n, k)

LEMMA SameLines ==
  ASSUME NEW v \in Volume, NEW w, NEW n \in Inode, Whole(v, v.table[n]), Same(v, w, n)
  PROVE  /\ List(w, n) = List(v, n) /\ Ent(w, n) = Ent(v, n) /\ \A up : Listed(v, n, up) => Listed(w, n, up)
         /\ \A k \in 1 .. Len(List(v, n)) : Line(w, n, k) = Line(v, n, k)
<1>1. Agree(v, w, OwnedBy(v, v.table[n])) /\ w.table[n] = v.table[n]
  BY DEF Same, Owns
<1>2. List(w, n) = List(v, n) /\ \A k \in 1 .. Len(List(v, n)) : w.data[List(v, n)[k]] = v.data[List(v, n)[k]]
  BY <1>1, WholeSame DEF List
<1>3. \A k \in 1 .. Len(List(v, n)) : Line(w, n, k) = Line(v, n, k)
  BY <1>2 DEF Line
<1>4. Ent(w, n) = Ent(v, n)
  BY <1>2, <1>3 DEF Ent
<1>5. \A up : Listed(v, n, up) => Listed(w, n, up)
  <2> SUFFICES ASSUME NEW up, Listed(v, n, up) PROVE Listed(w, n, up)
    OBVIOUS
  <2>1. Len(List(v, n)) >= 1 /\ Heads(Line(v, n, 1), n, up) /\ (\A k \in 1 .. Len(List(v, n)) : Distinct(Line(v, n, k)))
        /\ Apart(v, n)
    BY DEF Listed
  <2>2. Line(w, n, 1) = Line(v, n, 1)
    <3> DEFINE L == Len(List(v, n))
    <3>1. L \in Nat
      BY MappedIn, LenProperties DEF Whole, List
    <3>2. 1 \in 1 .. L
      BY <2>1, <3>1
    <3> QED BY <1>3, <3>2
  <2>3. Apart(w, n)
    BY <1>2, <1>3, <2>1 DEF Apart
  <2> QED BY <1>2, <1>3, <2>1, <2>2, <2>3 DEF Listed
<1> QED BY <1>2, <1>3, <1>4, <1>5

\* w has one entry more, or one less, in directory n.
Enters(v, w, n, name, child) ==
  /\ Ent(w, n) = Ent(v, n) \cup {<<name, child>>}
  /\ \A up \in Inode : NoName(v, n, name) /\ Listed(v, n, up) => Listed(w, n, up)
Drops(v, w, n, name, child) ==
  \A up \in Inode : Listed(v, n, up) /\ name \notin {".", ".."} =>
    Listed(w, n, up) /\ Ent(w, n) = Ent(v, n) \ {<<name, child>>}

LEMMA LineGets ==
  ASSUME NEW v, NEW w, NEW n \in Inode, NEW j, NEW s, Relined(v, w, n, j, s), NEW name, NEW child,
         Gets(Line(v, n, j), s, name, child)
  PROVE  Enters(v, w, n, name, child)
<1> DEFINE L == Len(List(v, n))
           pair == <<name, child>>
           A(k) == Line(v, n, k)
           B(k) == Line(w, n, k)
<1>1. List(w, n) = List(v, n) /\ j \in 1 .. L /\ B(j) = s /\ \A k \in 1 .. L : k # j => B(k) = A(k)
  BY DEF Relined
<1>2. /\ Pairs(s) = Pairs(A(j)) \cup {pair}
      /\ (Distinct(A(j)) /\ (\A i \in LiveAt(A(j)) : A(j)[i].name # name) => Distinct(s))
      /\ \A m, up \in Inode : Heads(A(j), m, up) => Heads(s, m, up)
  BY DEF Gets
<1>3. Ent(v, n) = UNION {Pairs(A(k)) : k \in 1 .. L} /\ Ent(w, n) = UNION {Pairs(B(k)) : k \in 1 .. L}
  BY <1>1 DEF Ent
<1>4. \A k \in 1 .. L : Pairs(B(k)) = Pairs(A(k)) \cup (IF k = j THEN {pair} ELSE {})
  BY <1>1, <1>2
<1>5. ASSUME NEW up \in Inode, NoName(v, n, name), Listed(v, n, up) PROVE Listed(w, n, up)
  <2>1. L >= 1 /\ Heads(A(1), n, up) /\ (\A k \in 1 .. L : Distinct(A(k))) /\ Apart(v, n)
    BY <1>5 DEF Listed
  <2>2. \A k \in 1 .. L : \A p \in Pairs(A(k)) : p[1] # name
    BY <1>3, <1>5 DEF NoName
  <2>3. \A i \in LiveAt(A(j)) : A(j)[i].name # name
    <3> TAKE i \in LiveAt(A(j))
    <3>1. <<A(j)[i].name, A(j)[i].ino>> \in Pairs(A(j))
      BY DEF Pairs
    <3>2. <<A(j)[i].name, A(j)[i].ino>>[1] = A(j)[i].name
      OBVIOUS
    <3> QED BY <1>1, <2>2, <3>1, <3>2
  <2>4. \A k \in 1 .. L : Distinct(B(k))
    BY <1>1, <1>2, <2>1, <2>3
  <2>5. Heads(B(1), n, up)
    <3>1. CASE j = 1
      BY <1>1, <1>2, <2>1, <3>1
    <3>2. CASE j # 1
      <4> HIDE DEF L
      <4>1. 1 \in 1 .. L
        BY <2>1, <1>1
      <4> QED BY <1>1, <2>1, <3>2, <4>1
    <3> QED BY <3>1, <3>2
  <2>6. Apart(w, n)
    <3>1. pair[1] = name
      OBVIOUS
    <3> HIDE DEF A, B, pair
    <3>2. \A k, l \in 1 .. L : k # l => \A p \in Pairs(A(k)), q \in Pairs(A(l)) : p[1] # q[1]
      BY <2>1 DEF Apart, A
    <3>3. \A k, l \in 1 .. L : k # l => \A p \in Pairs(B(k)), q \in Pairs(B(l)) : p[1] # q[1]
      <4> SUFFICES ASSUME NEW k \in 1 .. L, NEW l \in 1 .. L, k # l, NEW p \in Pairs(B(k)), NEW q \in Pairs(B(l)),
                          p[1] = q[1]
                   PROVE  FALSE
        OBVIOUS
      <4>1. p \in Pairs(A(k)) \/ (k = j /\ p = pair)
        BY <1>4
      <4>2. q \in Pairs(A(l)) \/ (l = j /\ q = pair)
        BY <1>4
      <4> QED BY <4>1, <4>2, <3>1, <3>2, <2>2
    <3> QED BY <1>1, <3>3 DEF Apart, B
  <2> QED BY <1>1, <2>1, <2>4, <2>5, <2>6 DEF Listed
<1>6. Ent(w, n) = Ent(v, n) \cup {pair}
  <2> HIDE DEF A, B, pair
  <2> QED BY <1>1, <1>3, <1>4
<1> QED BY <1>5, <1>6 DEF Enters

LEMMA LineLoses ==
  ASSUME NEW v, NEW w, NEW n \in Inode, NEW j, NEW s, Relined(v, w, n, j, s), NEW name, NEW child,
         Loses(Line(v, n, j), s, name, child), <<name, child>> \in Pairs(Line(v, n, j))
  PROVE  Drops(v, w, n, name, child)
<1> DEFINE L == Len(List(v, n))
           pair == <<name, child>>
           A(k) == Line(v, n, k)
           B(k) == Line(w, n, k)
<1>1. List(w, n) = List(v, n) /\ j \in 1 .. L /\ B(j) = s /\ \A k \in 1 .. L : k # j => B(k) = A(k)
  BY DEF Relined
<1>2. /\ Distinct(A(j)) => Distinct(s) /\ Pairs(s) = Pairs(A(j)) \ {pair}
      /\ name \notin {".", ".."} => \A m, up \in Inode : Heads(A(j), m, up) => Heads(s, m, up)
  BY DEF Loses
<1>3. Ent(v, n) = UNION {Pairs(A(k)) : k \in 1 .. L} /\ Ent(w, n) = UNION {Pairs(B(k)) : k \in 1 .. L}
  BY <1>1 DEF Ent
<1>4. ASSUME NEW up \in Inode, Listed(v, n, up), name \notin {".", ".."}
      PROVE  Listed(w, n, up) /\ Ent(w, n) = Ent(v, n) \ {pair}
  <2>1. L >= 1 /\ Heads(A(1), n, up) /\ (\A k \in 1 .. L : Distinct(A(k))) /\ Apart(v, n)
    BY <1>4 DEF Listed
  <2>2. Distinct(s) /\ Pairs(s) = Pairs(A(j)) \ {pair}
    BY <1>1, <1>2, <2>1
  <2>3. \A k, l \in 1 .. L : k # l => \A p \in Pairs(A(k)), q \in Pairs(A(l)) : p[1] # q[1]
    BY <2>1 DEF Apart
  <2>4. pair \in Pairs(A(j))
    OBVIOUS
  <2> HIDE DEF pair
  <2>5. \A k \in 1 .. L : Pairs(B(k)) = Pairs(A(k)) \ {pair}
    <3> TAKE k \in 1 .. L
    <3>1. CASE k = j
      BY <1>1, <2>2, <3>1
    <3>2. CASE k # j
      <4>1. pair \notin Pairs(A(k))
        BY <1>1, <2>3, <2>4, <3>2
      <4> QED BY <1>1, <3>2, <4>1
    <3> QED BY <3>1, <3>2
  <2>6. Heads(B(1), n, up)
    <3>1. CASE j = 1
      BY <1>1, <1>2, <1>4, <2>1, <3>1
    <3>2. CASE j # 1
      <4> HIDE DEF L
      <4>1. 1 \in 1 .. L
        BY <2>1, <1>1
      <4> QED BY <1>1, <2>1, <3>2, <4>1
    <3> QED BY <3>1, <3>2
  <2>7. \A k \in 1 .. L : Distinct(B(k))
    BY <1>1, <2>1, <2>2
  <2> HIDE DEF A, B
  <2>8. \A k, l \in 1 .. L : k # l => \A p \in Pairs(B(k)), q \in Pairs(B(l)) : p[1] # q[1]
    BY <2>3, <2>5
  <2>9. Ent(w, n) = Ent(v, n) \ {pair}
    BY <1>3, <2>5
  <2> QED BY <1>1, <2>1, <2>6, <2>7, <2>8, <2>9 DEF Listed, Apart, A, B
<1> QED BY <1>4 DEF Drops

\* w has one line more, with one record.
Grew(v, w, n, r) ==
  /\ List(v, n) \in Seq(Block) /\ (\E phys : List(w, n) = Append(List(v, n), phys))
  /\ \A k \in 1 .. Len(List(v, n)) : Line(w, n, k) = Line(v, n, k)
  /\ Line(w, n, Len(List(v, n)) + 1) = <<r>>

LEMMA LineAdded ==
  ASSUME NEW v, NEW w, NEW n \in Inode, NEW name, NEW child \in Inode, Grew(v, w, n, Record(child, name, Slots))
  PROVE  Enters(v, w, n, name, child)
<1> DEFINE L == Len(List(v, n))
           r == Record(child, name, Slots)
           pair == <<name, child>>
           A(k) == Line(v, n, k)
           B(k) == Line(w, n, k)
<1>1. L \in Nat /\ Len(List(w, n)) = L + 1
  BY LenProperties DEF Grew
<1>2. (\A k \in 1 .. L : B(k) = A(k)) /\ B(L + 1) = <<r>>
  BY DEF Grew
<1>3. r.ino = child /\ r.name = name /\ child # none
  BY InodeGroup DEF Record
<1> HIDE DEF L, r
<1>4. LiveAt(<<r>>) = {1}
  <2>1. Len(<<r>>) = 1 /\ <<r>>[1] = r
    OBVIOUS
  <2> QED BY <1>3, <2>1 DEF LiveAt
<1>5. Pairs(<<r>>) = {pair} /\ Distinct(<<r>>)
  <2>1. <<r>>[1] = r
    OBVIOUS
  <2>2. Pairs(<<r>>) = {<<<<r>>[i].name, <<r>>[i].ino>> : i \in {1}}
    BY <1>4 DEF Pairs
  <2>3. Pairs(<<r>>) = {pair}
    BY <1>3, <2>1, <2>2
  <2> QED BY <1>4, <2>3 DEF Distinct
<1>6. 1 .. L + 1 = (1 .. L) \cup {L + 1}
  BY <1>1
<1>7. Ent(v, n) = UNION {Pairs(A(k)) : k \in 1 .. L} /\ Ent(w, n) = UNION {Pairs(B(k)) : k \in 1 .. L + 1}
  BY <1>1 DEF Ent, L
<1>8. Ent(w, n) = Ent(v, n) \cup {pair}
  <2> HIDE DEF A, B, pair
  <2>1. \A k \in 1 .. L : Pairs(B(k)) = Pairs(A(k))
    BY <1>2
  <2>2. Pairs(B(L + 1)) = {pair}
    BY <1>2, <1>5
  <2> QED BY <1>6, <1>7, <2>1, <2>2
<1>9. ASSUME NEW up \in Inode, NoName(v, n, name), Listed(v, n, up) PROVE Listed(w, n, up)
  <2>1. L >= 1 /\ Heads(A(1), n, up) /\ (\A k \in 1 .. L : Distinct(A(k))) /\ Apart(v, n)
    BY <1>9 DEF Listed, L
  <2>2. Heads(B(1), n, up)
    <3>1. 1 \in 1 .. L
      BY <1>1, <2>1
    <3> QED BY <1>2, <2>1, <3>1
  <2>3. \A k \in 1 .. L + 1 : Distinct(B(k))
    BY <1>2, <1>5, <1>6, <2>1
  <2>4. \A k \in 1 .. L : \A p \in Pairs(A(k)) : p[1] # name
    BY <1>7, <1>9 DEF NoName
  <2>5. Apart(w, n)
    <3>1. pair[1] = name
      OBVIOUS
    <3>2. \A k, l \in 1 .. L : k # l => \A p \in Pairs(A(k)), q \in Pairs(A(l)) : p[1] # q[1]
      BY <2>1 DEF Apart, L
    <3> HIDE DEF A, B, pair
    <3>3. \A k \in 1 .. L + 1 : \A p \in Pairs(B(k)) : IF k = L + 1 THEN p = pair ELSE k \in 1 .. L /\ p \in Pairs(A(k))
      BY <1>2, <1>5, <1>6
    <3>4. \A k, l \in 1 .. L + 1 : k # l => \A p \in Pairs(B(k)), q \in Pairs(B(l)) : p[1] # q[1]
      <4> SUFFICES ASSUME NEW k \in 1 .. L + 1, NEW l \in 1 .. L + 1, k # l, NEW p \in Pairs(B(k)), NEW q \in Pairs(B(l)),
                          p[1] = q[1]
                   PROVE  FALSE
        OBVIOUS
      <4>1. IF k = L + 1 THEN p = pair ELSE k \in 1 .. L /\ p \in Pairs(A(k))
        BY <3>3
      <4>2. IF l = L + 1 THEN q = pair ELSE l \in 1 .. L /\ q \in Pairs(A(l))
        BY <3>3
      <4> QED BY <4>1, <4>2, <3>1, <3>2, <2>4
    <3> QED BY <1>1, <3>4 DEF Apart, B
  <2>6. L + 1 >= 1
    BY <1>1
  <2> QED BY <1>1, <2>2, <2>3, <2>5, <2>6 DEF Listed
<1> QED BY <1>8, <1>9 DEF Enters

\* A block of a directory gets other records.
LineSets(d, e, n, j, s) ==
  /\ Live(e) /\ Ok(e) /\ e.set = d.set /\ World(e.v, {}) /\ Others(d.v, e.v, n) /\ e.v.table = d.v.table
  /\ e.v.inodes = d.v.inodes /\ Recounts(d.v, e.v) /\ Relined(d.v, e.v, n, j, s)

LEMMA LineSetSpec ==
  ASSUME NEW d, Live(d), Ok(d), World(d.v, {}), NEW n \in Inode, d.v.table[n].kind = "dir",
         NEW j \in 1 .. Len(List(d.v, n)), NEW s \in Seq(RecType), LengthOf(s) = Slots,
         NEW e, e = SetBlock(d, List(d.v, n)[j], Records(s))
  PROVE  LineSets(d, e, n, j, s)
<1> DEFINE v == d.v
           w == e.v
           node == v.table[n]
           m == List(v, n)
           b == m[j]
<1>1. Whole(v, node) /\ Folder(v, n)
  BY DEF World, Folder
<1>2. node \in NodeType /\ m \in Seq(Block) /\ Inj(m) /\ \A k \in 1 .. Len(m) : m[k] \in Block
  BY <1>1, FolderIn
<1>3. m = Mapped(v, node)
  BY DEF List
<1>4. Records(s) \in Content
  BY ContentIn
<1>5. Sets(d, e, b, Records(s))
  BY <1>2, <1>4, SetBlockSpec
<1>6. v \in Volume /\ v.data \in [Block -> Content]
  BY DEF World, Volume
<1> HIDE DEF m
<1>7. /\ Live(e) /\ Ok(e) /\ e.set = d.set /\ w \in Volume /\ w.table = v.table /\ w.blocks = v.blocks
      /\ w.inodes = v.inodes /\ w.data = [v.data EXCEPT ![b] = Records(s)] /\ Recounts(v, w)
  BY <1>5 DEF Sets, Steps, Keeps
<1>8. b \in Block
  BY <1>2 DEF m
<1> HIDE DEF b
<1>9. w.data[b] = Records(s) /\ \A c \in Block : c # b => w.data[c] = v.data[c]
  BY <1>6, <1>7, <1>8
<1>10. \A k \in 1 .. Len(m) : k # j => m[k] # b
  BY <1>2 DEF Inj, b, m
<1>11. Rewrote(v, w, n, {b})
  <2>1. {b} \subseteq ToSet(m)
    BY DEF ToSet, b, m
  <2>2. Agree(v, w, Block \ {b})
    BY <1>9 DEF Agree
  <2>3. /\ node.nblk = node.nblk /\ SizeInBlocks(node) = Len(m) /\ AllFilled(v, node)
        /\ node.kind = "none" => node = NoInode
    BY <1>1, <1>3 DEF Whole
  <2>4. \A k \in 1 .. Len(m) : Filled(w.data[m[k]], node, k)
    <3> TAKE k \in 1 .. Len(m)
    <3>1. CASE k = j
      <4>1. m[k] = b /\ Records(s).kind = "dir" /\ Records(s).recs = s
        BY <3>1, Zenon DEF b, Records
      <4> QED BY <1>9, <4>1 DEF Filled
    <3>2. CASE k # j
      <4>1. w.data[m[k]] = v.data[m[k]]
        BY <1>2, <1>9, <1>10, <3>2
      <4> QED BY <1>3, <2>3, <4>1 DEF AllFilled
    <3> QED BY <3>1, <3>2
  <2>5. SameTree(node, node) /\ w.table[n] = node
    BY <1>7 DEF SameTree
  <2> HIDE DEF node
  <2>6. node = v.table[n]
    BY DEF node
  <2> HIDE DEF v, w
  <2>7. \A i \in Inode \ {n} : w.table[i] = v.table[i]
    BY <1>7
  <2>8. w.table[n] = v.table[n] /\ m = Mapped(v, v.table[n])
    BY <1>3, <2>5, <2>6
  <2>9. SameTree(v.table[n], w.table[n]) /\ w.table[n].nblk = v.table[n].nblk /\ w.table[n].size = v.table[n].size
        /\ SizeInBlocks(w.table[n]) = Len(Mapped(v, v.table[n]))
        /\ (w.table[n].kind = "none" => w.table[n] = NoInode)
    BY <2>3, <2>5, <2>6, <2>8
  <2>10. /\ \A k \in 1 .. Len(Mapped(v, v.table[n])) : Filled(w.data[Mapped(v, v.table[n])[k]], w.table[n], k)
         /\ {b} \subseteq ToSet(Mapped(v, v.table[n]))
    BY <2>1, <2>4, <2>5, <2>6, <2>8
  <2> QED BY <1>7, <2>2, <2>7, <2>9, <2>10, Zenon DEF Rewrote
<1>12. World(w, {}) /\ Others(v, w, n) /\ Mapped(w, w.table[n]) = Mapped(v, v.table[n])
  <2>1. World(v, {})
    OBVIOUS
  <2> HIDE DEF v, w
  <2> QED BY <1>11, <2>1, RewrittenWorld
<1>13. Relined(v, w, n, j, s)
  <2>1. List(w, n) = m
    BY <1>3, <1>12 DEF List
  <2>2. Line(w, n, j) = s
    BY <1>9, <2>1 DEF Line, Records, b
  <2>3. \A k \in 1 .. Len(m) : k # j => Line(w, n, k) = Line(v, n, k)
    <3> TAKE k \in 1 .. Len(m)
    <3> HAVE k # j
    <3>1. w.data[m[k]] = v.data[m[k]]
      BY <1>2, <1>9, <1>10, Zenon
    <3> QED BY <2>1, <3>1 DEF Line, m
  <2> QED BY <2>1, <2>2, <2>3 DEF Relined, m
<1> QED BY <1>7, <1>12, <1>13 DEF LineSets

\* From v to w a directory has one entry more.
Gains(v, w, n, name, child) ==
  /\ World(w, {}) /\ w.inodes = v.inodes /\ Recounts(v, w) /\ Others(v, w, n)
  /\ w.table[n].kind = "dir" /\ w.table[n].links = v.table[n].links /\ Enters(v, w, n, name, child)

LEMMA PutInPlace ==
  ASSUME NEW d, Live(d), Ok(d), World(d.v, {}), NEW n \in Inode, d.v.table[n].kind = "dir",
         NEW p, NEW j \in 1 .. Len(List(d.v, n)), p.block = List(d.v, n)[j], p.index \in 1 .. Len(Line(d.v, n, j)),
         Line(d.v, n, j)[p.index].ino = none \/ Line(d.v, n, j)[p.index].len > 1,
         NEW name \in Names, NEW child \in Inode,
         NEW e, e = SetBlock(d, p.block, Records(Inserted(d.v.data[p.block].recs, p.index, name, child)))
  PROVE  Live(e) /\ Ok(e) /\ e.set = d.set /\ Gains(d.v, e.v, n, name, child)
<1> DEFINE recs == Line(d.v, n, j)
           s == Inserted(recs, p.index, name, child)
<1>1. Folder(d.v, n)
  BY DEF World, Folder
<1>2. recs \in Seq(RecType) /\ LengthOf(recs) = Slots
  BY <1>1, FolderIn, Zenon
<1>3. recs = d.v.data[p.block].recs
  BY DEF Line
<1>4. Gets(recs, s, name, child)
  <2> HIDE DEF recs
  <2>1. recs[p.index].ino = none \/ recs[p.index].len > 1
    BY DEF recs
  <2>2. p.index \in 1 .. Len(recs) /\ name \in Names \cup {".", ".."}
    BY DEF recs
  <2> QED BY <1>2, <2>1, <2>2, InsertedGets
<1>5. s \in Seq(RecType) /\ LengthOf(s) = Slots
  BY <1>2, <1>4, Zenon DEF Gets
<1>6. e = SetBlock(d, List(d.v, n)[j], Records(s))
  BY <1>3
<1> HIDE DEF s, recs
<1>7. LineSets(d, e, n, j, s)
  BY <1>5, <1>6, LineSetSpec, Zenon
<1>8. Enters(d.v, e.v, n, name, child)
  BY <1>4, <1>7, LineGets, Zenon DEF LineSets, recs
<1> QED BY <1>7, <1>8, Zenon DEF LineSets, Gains

\* From v to w nothing changes that an inode owns.
Stays(v, w) ==
  World(w, {}) /\ w.inodes = v.inodes /\ Recounts(v, w) /\ w.table = v.table /\ \A n \in Inode : Same(v, w, n)

LEMMA FrameStays ==
  ASSUME NEW v, NEW w, World(v, {}), Frame(v, w, {}, {}), Recounts(v, w)
  PROVE  Stays(v, w)
<1>1. World(w, {}) /\ \A n \in Inode : Same(v, w, n)
  BY WorldFrame
<1>2. w.inodes = v.inodes /\ w.table = v.table
  BY DEF Frame
<1> QED BY <1>1, <1>2 DEF Stays

\* A directory's inode, one block longer.
Longer1(node) == [node EXCEPT !.size = @ + Units, !.nblk = @ + 1]

LEMMA Longer1In ==
  ASSUME NEW node \in NodeType
  PROVE  /\ Longer1(node) \in NodeType /\ Longer1(node).size = node.size + Units /\ Longer1(node).nblk = node.nblk + 1
         /\ SameTree(node, Longer1(node)) /\ Longer1(node).links = node.links /\ Longer1(node).kind = node.kind
<1> DEFINE x == Longer1(node)
           a == node.size + Units
           b == node.nblk + 1
<1>1. x = [node EXCEPT !.size = a, !.nblk = b]
  BY DEF Longer1
<1>2. a \in Nat /\ b \in Nat
  BY Sizes DEF NodeType
<1> HIDE DEF a, b, x
<1>3. x \in NodeType /\ x.size = a /\ x.nblk = b /\ x.links = node.links /\ x.kind = node.kind
      /\ x.depth = node.depth /\ x.root = node.root
  BY <1>1, <1>2 DEF NodeType
<1>4. SameTree(node, x)
  BY <1>3 DEF SameTree
<1> QED BY <1>3, <1>4 DEF x, a, b

\* s is about to attach block b, which holds a record, to directory n.
GrowsAt(d, s, n, b, r) ==
  /\ Live(s) /\ Ok(s) /\ s.set = d.set /\ s.node = d.v.table[n] /\ Frame(d.v, s.v, {}, {b}) /\ Recounts(d.v, s.v)
  /\ b \in Block /\ s.v.data[b] = Records(<<r>>)

Granted(d, e) ==
  /\ Frame(d.v, e.v, {}, {e.out}) /\ Recounts(d.v, e.v) /\ Live(e) /\ e.out \in Block \ d.v.blocks
  /\ e.node = d.node /\ e.set = d.set

LEMMA GrantsOne ==
  ASSUME NEW d, Live(d), NEW e, Grants(d, e), Ok(e)
  PROVE  Granted(d, e)
<1>1. /\ Frame(d.v, e.v, {}, {} \cup {e.out}) /\ Recounts(d.v, e.v) /\ Live(e)
      /\ e.out \in Block \ d.v.blocks /\ e.node = d.node /\ e.set = d.set
  BY GrantsMove
<1>2. {} \cup {e.out} = {e.out}
  OBVIOUS
<1> QED BY <1>1, <1>2 DEF Granted

LEMMA GrantedSet ==
  ASSUME NEW c, Live(c), NEW a, Grants(c, a), Ok(a), NEW rs \in Seq(RecType)
  PROVE  LET s == SetBlock(a, a.out, Records(rs))
         IN  /\ Live(s) /\ Ok(s) /\ s.set = c.set /\ s.node = c.node /\ Frame(c.v, s.v, {}, {a.out})
             /\ Recounts(c.v, s.v) /\ a.out \in Block /\ s.v.data[a.out] = Records(rs)
<1> DEFINE s == SetBlock(a, a.out, Records(rs))
           X == {a.out}
<1>1. Granted(c, a)
  BY GrantsOne
<1>2. /\ Frame(c.v, a.v, {}, X) /\ Recounts(c.v, a.v) /\ Live(a)
      /\ a.out \in Block \ c.v.blocks /\ a.node = c.node /\ a.set = c.set
  BY <1>1 DEF Granted
<1>11. a.out \in X
  OBVIOUS
<1> HIDE DEF X
<1>3. Frame(c.v, a.v, {}, X)
  BY <1>2
<1>4. Records(rs) \in Content
  BY ContentIn
<1>5. Sets(a, s, a.out, Records(rs))
  BY <1>2, <1>4, SetBlockSpec
<1> HIDE DEF s
<1>6. X \subseteq a.v.blocks /\ X \subseteq Block
  <2>1. X \subseteq Block /\ a.v.blocks = (c.v.blocks \ {}) \cup X
    BY <1>3 DEF Frame
  <2> QED BY <2>1
<1>7. /\ Frame(a.v, s.v, X, X) /\ Recounts(a.v, s.v) /\ Live(s) /\ Ok(s)
      /\ s.out = a.out /\ s.node = a.node /\ s.set = a.set /\ s.v.data[a.out] = Records(rs)
  <2> DEFINE k == Records(rs)
  <2>1. Live(a)
    BY <1>2
  <2>2. Sets(a, s, a.out, k)
    BY <1>5
  <2> HIDE DEF k
  <2>3. Holding(a, X, a.out)
    BY <2>1, <1>6, <1>11 DEF Holding
  <2>4. Restores(a, s, X, a.out, k)
    BY <2>2, <2>3, SetsMove
  <2> QED BY <2>4 DEF k, Restores
<1>8. Frame(c.v, s.v, {}, {a.out})
  BY <1>3, <1>7, FrameMore DEF X
<1>9. Recounts(c.v, s.v)
  BY <1>2, <1>7 DEF Recounts
<1>10. /\ Live(s) /\ Ok(s) /\ s.set = c.set /\ s.node = c.node /\ Frame(c.v, s.v, {}, {a.out})
       /\ Recounts(c.v, s.v) /\ a.out \in Block /\ s.v.data[a.out] = Records(rs)
  BY <1>2, <1>7, <1>8, <1>9
<1> QED BY <1>10 DEF s

LEMMA GrowStarts ==
  ASSUME NEW d, Live(d), Ok(d), World(d.v, {}), NEW n \in Inode, NEW goal \in Nat, NEW r \in RecType,
         NEW a, a = allocBlock([d EXCEPT !.node = d.v.table[n]], goal)
  PROVE  \/ ~Ok(a) /\ Live(a) /\ a.v = d.v /\ a.status = "noSpace" /\ a.set = d.set
         \/ Ok(a) /\ GrowsAt(d, SetBlock(a, a.out, Records(<<r>>)), n, a.out, r)
<1> DEFINE c == [d EXCEPT !.node = d.v.table[n]]
<1>1. d.v.table[n] \in NodeType
  BY DEF World, Volume
<1>2. Live(c) /\ c.v = d.v /\ c.status = d.status /\ c.set = d.set /\ c.node = d.v.table[n]
  BY <1>1, NodeSet
<1>3. a = allocBlock(c, goal)
  OBVIOUS
<1> HIDE DEF c
<1>4. Grants(c, a)
  BY <1>2, <1>3, AllocBlockSpec DEF Ok
<1>5. CASE ~Ok(a)
  BY <1>2, <1>4, <1>5 DEF Grants
<1>6. CASE Ok(a)
  <2> DEFINE s == SetBlock(a, a.out, Records(<<r>>))
  <2>1. /\ Live(s) /\ Ok(s) /\ s.set = c.set /\ s.node = c.node /\ Frame(c.v, s.v, {}, {a.out})
        /\ Recounts(c.v, s.v) /\ a.out \in Block /\ s.v.data[a.out] = Records(<<r>>)
    BY <1>2, <1>4, <1>6, GrantedSet, LengthOfOne, ZenonT(40)
  <2> HIDE DEF s
  <2>2. GrowsAt(d, s, n, a.out, r)
    BY <1>2, <2>1, Zenon DEF GrowsAt
  <2> QED BY <1>6, <2>2 DEF s
<1> QED BY <1>5, <1>6

LEMMA GrowPrior ==
  ASSUME NEW d, World(d.v, {}), NEW n \in Inode, d.v.table[n].kind = "dir", NEW s, NEW b, NEW r,
         GrowsAt(d, s, n, b, r)
  PROVE  /\ Prior(s, n, d.v.table[n], {b}) /\ World(s.v, {b}) /\ View(s.v, n, d.v.table[n]) = s.v
         /\ Mapped(s.v, s.node) = List(d.v, n) /\ s.v.table = d.v.table
<1> DEFINE node == d.v.table[n]
<1>1. Live(s) /\ s.node = node /\ Frame(d.v, s.v, {}, {b})
  BY DEF GrowsAt
<1>2. World(s.v, {b}) /\ Same(d.v, s.v, n)
  BY <1>1, WorldFrame
<1>3. s.v.table = d.v.table /\ s.v.inodes = d.v.inodes
  BY <1>1 DEF Frame
<1>4. s.v \in Volume /\ s.v.table[n] = node
  BY <1>2, <1>3 DEF World
<1>5. View(s.v, n, node) = s.v
  BY <1>4, ViewSelf
<1>6. Whole(d.v, node) /\ node \in NodeType /\ n \in d.v.inodes
  <2>1. Whole(d.v, node)
    BY DEF World
  <2>2. node \in NodeType
    BY <2>1 DEF Whole, Shaped
  <2> QED BY <2>1, <2>2 DEF World
<1>7. Mapped(s.v, node) = List(d.v, n)
  <2>1. Agree(d.v, s.v, OwnedBy(d.v, node))
    BY <1>2 DEF Same, Owns
  <2> QED BY <1>6, <2>1, WholeSame DEF List
<1>8. node.size = Len(Mapped(s.v, node)) * Units
  BY <1>6, <1>7 DEF Whole, List
<1>9. World(View(s.v, n, node), {b})
  BY <1>2, <1>5
<1>10. SameTree(node, node) /\ node.kind # "none" /\ n \in s.v.inodes
  BY <1>3, <1>6 DEF SameTree
<1> HIDE DEF node
<1>11. Prior(s, n, node, {b})
  BY <1>1, <1>6, <1>8, <1>9, <1>10 DEF Prior
<1> QED BY <1>1, <1>2, <1>3, <1>5, <1>7, <1>11 DEF node

\* The directory could not get the block.
LEMMA GrowFails ==
  ASSUME NEW d, World(d.v, {}), NEW n \in Inode, d.v.table[n].kind = "dir", NEW s, NEW b, NEW r,
         GrowsAt(d, s, n, b, r), NEW a, Attaches(s, a, b), ~Ok(a), NEW e, e = SaveDirBlock(a, n, b)
  PROVE  Live(e) /\ ~Ok(e) /\ e.set = d.set /\ Stays(d.v, e.v)
<1>1. Live(a) /\ a.set = s.set /\ a.v = s.v /\ a.node = s.node
  BY AttachFails
<1>2. e = FreeAgain(a, {b})
  BY DEF SaveDirBlock
<1>3. World(s.v, {b}) /\ View(s.v, n, d.v.table[n]) = s.v /\ d.v.table[n] \in NodeType
  <2>1. World(s.v, {b}) /\ View(s.v, n, d.v.table[n]) = s.v
    BY GrowPrior
  <2> QED BY <2>1 DEF World, Volume
<1>4. World(View(a.v, n, d.v.table[n]), {b})
  BY <1>1, <1>3
<1>5. Returned(a, e, n, d.v.table[n], b)
  BY <1>1, <1>2, <1>3, <1>4, GivenBack
<1>6. Live(e) /\ e.set = a.set /\ e.status = a.status /\ Recounts(a.v, e.v) /\ Frame(a.v, e.v, {b}, {})
  BY <1>5 DEF Returned
<1>7. s.set = d.set /\ Frame(d.v, s.v, {}, {b}) /\ Recounts(d.v, s.v)
  BY DEF GrowsAt
<1>8. Frame(d.v, e.v, {}, {}) /\ Recounts(d.v, e.v)
  <2>1. Frame(s.v, e.v, {b}, {})
    BY <1>1, <1>6
  <2>2. Frame(d.v, e.v, {}, {})
    BY <1>7, <2>1, FrameMore
  <2> QED BY <1>1, <1>6, <1>7, <2>2 DEF Recounts
<1>9. Stays(d.v, e.v)
  BY <1>8, FrameStays
<1> QED BY <1>1, <1>6, <1>7, <1>9 DEF Ok

LEMMA GrowDone ==
  ASSUME NEW d, World(d.v, {}), NEW n \in Inode, d.v.table[n].kind = "dir", NEW s, NEW b,
         NEW name \in Names, NEW child \in Inode, GrowsAt(d, s, n, b, Record(child, name, Slots)),
         NEW a, Attaches(s, a, b), Ok(a), NEW e, e = SaveDirBlock(a, n, b)
  PROVE  Live(e) /\ Ok(e) /\ e.set = d.set /\ Gains(d.v, e.v, n, name, child)
<1> DEFINE node == d.v.table[n]
           r == Record(child, name, Slots)
           m == List(d.v, n)
           x == Longer1(a.node)
           c == [a EXCEPT !.node.size = @ + Units, !.node.nblk = @ + 1]
           w == View(a.v, n, x)
<1>1. /\ Prior(s, n, node, {b}) /\ World(s.v, {b}) /\ View(s.v, n, node) = s.v /\ Mapped(s.v, s.node) = m
      /\ s.v.table = d.v.table
  BY GrowPrior
<1>2. /\ Live(s) /\ Ok(s) /\ s.set = d.set /\ s.node = node /\ Frame(d.v, s.v, {}, {b}) /\ Recounts(d.v, s.v)
      /\ b \in Block /\ s.v.data[b] = Records(<<r>>)
  BY DEF GrowsAt
<1>3. Live(a) /\ a.set = s.set /\ Grown(s, a) /\ Mapped(a.v, a.node) = Append(Mapped(s.v, s.node), b)
  BY DEF Attaches, Ok
<1>4. e = writeInode(c, n)
  BY DEF SaveDirBlock
<1>5. a.node \in NodeType /\ a.v \in Volume
  BY <1>3 DEF Live, Runs
<1>6. /\ x \in NodeType /\ x.size = a.node.size + Units /\ x.nblk = a.node.nblk + 1
      /\ SameTree(a.node, x) /\ x.links = a.node.links /\ x.kind = a.node.kind
  BY <1>5, Longer1In
<1>7. c = [a EXCEPT !.node = x]
  BY <1>3 DEF Longer1, Live, Runs
<1> HIDE DEF c, x
<1>8. Live(c) /\ c.v = a.v /\ c.status = a.status /\ c.set = a.set /\ c.node = x
  BY <1>3, <1>6, <1>7, NodeSet
<1>9. Does(c, e, View(c.v, n, c.node))
  BY <1>4, <1>8, WriteInodeSpec DEF Ok
<1>10. Live(e) /\ Ok(e) /\ e.v = w /\ e.set = d.set
  BY <1>2, <1>3, <1>8, <1>9 DEF Does, Ok
<1>11. HasView(a.v, n, x, w)
  BY <1>5, <1>6, ViewHas
<1> HIDE DEF w
<1>12. node.size = Len(m) * Units /\ node.kind = "dir" /\ m \in Seq(Block) /\ Len(m) \in Nat
       /\ \A k \in 1 .. Len(m) : m[k] \in Block
  <2>1. Folder(d.v, n)
    BY DEF World, Folder
  <2>2. node.size = Len(m) * Units
    BY <2>1 DEF Folder, Whole, List
  <2> QED BY <2>1, <2>2, FolderIn
<1> HIDE DEF m, node, r
<1>13. Shaped(a.v, a.node) /\ Agree(s.v, a.v, Block \ Leaves(a.node)) /\ Recounts(s.v, a.v)
       /\ a.node.kind = "dir" /\ a.node.links = node.links /\ a.node.size = node.size /\ Keeps(s.v, a.v)
       /\ a.v.inodes = s.v.inodes
  BY <1>2, <1>3, <1>12 DEF Grown
<1>14. b \notin Leaves(a.node)
  <2>1. b \in ToSet(Mapped(a.v, a.node))
    <3>1. ToSet(Append(m, b)) = ToSet(m) \cup {b}
      BY <1>2, <1>12, InjMore
    <3> QED BY <1>1, <1>3, <3>1
  <2> QED BY <1>13, <2>1 DEF Shaped
<1>15. w.data[b] = Records(<<r>>)
  BY <1>2, <1>11, <1>13, <1>14 DEF HasView, Agree
<1>16. Wrote(s, a, w, n, x, b)
  <2>1. x.size = (Len(m) + 1) * Units
    BY <1>6, <1>12, <1>13, Sizes, Times
  <2>2. SizeInBlocks(x) = Len(m) + 1
    BY <1>12, <2>1, SizeOf
  <2>3. Filled(w.data[b], x, Len(m) + 1)
    <3>1. r \in RecType /\ r.len = Slots
      BY Sizes DEF r, Record, RecType
    <3>2. LengthOf(<<r>>) = Slots
      BY <3>1, LengthOfOne
    <3>3. Records(<<r>>).kind = "dir" /\ Records(<<r>>).recs = <<r>>
      BY DEF Records
    <3> QED BY <1>6, <1>13, <1>15, <3>2, <3>3 DEF Filled
  <2>4. Agree(a.v, w, Block \ {b}) /\ w \in Volume /\ w.inodes = a.v.inodes /\ w.blocks = a.v.blocks
        /\ w.table[n] = x /\ \A k \in Inode \ {n} : w.table[k] = a.v.table[k]
    BY <1>11 DEF HasView, Agree
  <2> QED BY <1>1, <1>6, <2>1, <2>2, <2>3, <2>4 DEF Wrote
<1>17. World(w, {}) /\ Lengthens(s.v, w, n, m, b)
  <2>1. b \in {b} /\ {b} \ {b} = {}
    OBVIOUS
  <2>2. World(w, {b} \ {b}) /\ Lengthens(View(s.v, n, node), w, n, Mapped(s.v, s.node), b)
    BY <1>1, <1>3, <1>6, <1>16, <2>1, AttachedWorld
  <2> QED BY <1>1, <2>1, <2>2
<1>18. /\ Mapped(w, w.table[n]) = Append(m, b) /\ Others(s.v, w, n)
       /\ \A k \in 1 .. Len(m) : w.data[m[k]] = s.v.data[m[k]]
  BY <1>17 DEF Lengthens
<1>19. \A i \in Inode : Same(d.v, s.v, i)
  BY <1>2, WorldFrame
<1>20. Others(d.v, w, n)
  <2>1. Others(d.v, s.v, n)
    BY <1>19 DEF Others
  <2> QED BY <1>18, <2>1, OthersMore
<1>21. Grew(d.v, w, n, r)
  <2>1. List(w, n) = Append(m, b)
    BY <1>18 DEF List
  <2>2. \A k \in 1 .. Len(m) : Append(m, b)[k] = m[k]
    BY <1>12
  <2>3. Append(m, b)[Len(m) + 1] = b
    BY <1>12
  <2>4. \A k \in 1 .. Len(m) : Line(w, n, k) = Line(d.v, n, k)
    <3> TAKE k \in 1 .. Len(m)
    <3>1. Same(d.v, s.v, n) /\ d.v \in Volume /\ Whole(d.v, d.v.table[n])
      BY <1>19 DEF World
    <3>2. Line(s.v, n, k) = Line(d.v, n, k) /\ List(s.v, n) = m
      BY <3>1, SameLines DEF m
    <3>3. Line(w, n, k) = w.data[m[k]].recs
      BY <2>1, <2>2 DEF Line
    <3>4. Line(s.v, n, k) = s.v.data[m[k]].recs
      BY <3>2 DEF Line
    <3> QED BY <1>18, <3>2, <3>3, <3>4
  <2>5. Line(w, n, Len(m) + 1) = <<r>>
    BY <1>15, <2>1, <2>3 DEF Line, Records
  <2> QED BY <1>12, <2>1, <2>4, <2>5 DEF Grew, m
<1>22. Enters(d.v, w, n, name, child)
  BY <1>21, LineAdded DEF r
<1>23. w.table[n].kind = "dir" /\ w.table[n].links = d.v.table[n].links
  BY <1>6, <1>11, <1>13 DEF HasView, node
<1>24. w.inodes = d.v.inodes /\ Recounts(d.v, w)
  <2>1. Recounts(a.v, w)
    BY <1>5, <1>6, RecountsView DEF w
  <2>2. Recounts(d.v, w)
    BY <1>2, <1>13, <2>1 DEF Recounts
  <2>3. s.v.inodes = d.v.inodes /\ w.inodes = a.v.inodes
    BY <1>2, <1>11 DEF Frame, HasView
  <2> QED BY <1>13, <2>2, <2>3
<1>25. Gains(d.v, w, n, name, child)
  BY <1>17, <1>20, <1>22, <1>23, <1>24 DEF Gains
<1> QED BY <1>10, <1>25

\* insertEntry: the directory has the entry, or there is no space and nothing done.
Inserts(d, e, n, name, child) ==
  /\ Live(e) /\ e.set = d.set
  /\ (~Ok(e) /\ Stays(d.v, e.v)) \/ (Ok(e) /\ Gains(d.v, e.v, n, name, child))

LEMMA SameStays ==
  ASSUME NEW v, World(v, {})
  PROVE  Stays(v, v)
<1>1. \A n \in Inode : Same(v, v, n)
  BY DEF Same, Agree
<1> QED BY <1>1 DEF Stays, Recounts

LEMMA WholeBlocks ==
  ASSUME NEW n \in Nat
  PROVE  (n * Units) \div Units = n
<1>1. Units \in Nat /\ Units >= 1 /\ 0 \in 0 .. Units - 1
  BY Sizes
<1>2. (n * Units + 0) \div Units = n
  BY <1>1, Divided, Zenon
<1>3. n * Units + 0 = n * Units
  BY <1>1, Times
<1> QED BY <1>2, <1>3, Zenon

LEMMA GrowDirectorySpec ==
  ASSUME NEW d, Live(d), Ok(d), World(d.v, {}), NEW n \in Inode, d.v.table[n].kind = "dir",
         NEW name \in Names, NEW child \in Inode
  PROVE  Inserts(d, GrowDirectory(d, n, name, child), n, name, child)
<1> DEFINE node == d.v.table[n]
           m == List(d.v, n)
           logical == node.size \div Units
           goal == IF logical > 0 THEN Mapped(d.v, node)[logical] + 1 ELSE 0
           r == Record(child, name, Slots)
           a == allocBlock([d EXCEPT !.node = node], goal)
           s == SetBlock(a, a.out, Records(<<r>>))
           b == a.out
           x == appendBlock(s, logical, b)
           e == GrowDirectory(d, n, name, child)
<1>1. e = IF ~Ok(a) THEN a ELSE SaveDirBlock(x, n, b)
  BY DEF GrowDirectory, AddDirBlock
<1>2. Folder(d.v, n)
  BY DEF World, Folder
<1>3. m \in Seq(Block) /\ Len(m) \in Nat /\ (\A k \in 1 .. Len(m) : m[k] \in Block) /\ node.size = Len(m) * Units
  BY <1>2, FolderIn DEF Folder, Whole, List
<1>4. logical = Len(m)
  BY <1>3, WholeBlocks
<1> HIDE DEF logical, e
<1>5. goal \in Nat
  <2>1. CASE logical > 0
    <3>1. m[logical] \in Block
      BY <1>3, <1>4, <2>1
    <3>2. m[logical] \in Nat
      BY <3>1, BlockGroup
    <3> QED BY <2>1, <3>2 DEF List
  <2>2. CASE ~(logical > 0)
    BY <2>2
  <2> QED BY <2>1, <2>2
<1> HIDE DEF goal
<1>6. r \in RecType
  BY Sizes DEF Record, RecType
<1> HIDE DEF r
<1>7. \/ ~Ok(a) /\ Live(a) /\ a.v = d.v /\ a.status = "noSpace" /\ a.set = d.set
      \/ Ok(a) /\ GrowsAt(d, s, n, b, r)
  BY <1>5, <1>6, GrowStarts
<1> HIDE DEF a, s, x, m
<1>8. ASSUME ~Ok(a) PROVE Inserts(d, e, n, name, child)
  <2>1. e = a /\ Live(a) /\ a.v = d.v /\ a.set = d.set
    BY <1>1, <1>7, <1>8
  <2>2. Stays(d.v, a.v)
    BY <2>1, SameStays
  <2> QED BY <1>8, <2>1, <2>2, Zenon DEF Inserts
<1>9. ASSUME Ok(a) PROVE Inserts(d, e, n, name, child)
  <2>1. GrowsAt(d, s, n, b, r)
    BY <1>7, <1>9
  <2>2. Prior(s, n, node, {b}) /\ Mapped(s.v, s.node) = m
    BY <2>1, GrowPrior DEF m
  <2>3. Live(s) /\ Ok(s)
    BY <2>1 DEF GrowsAt
  <2>4. Shaped(s.v, s.node) /\ Loose(s, b)
    BY <2>2, PriorFacts
  <2>5. ~(logical < Len(Mapped(s.v, s.node)))
    BY <1>3, <1>4, <2>2 DEF m
  <2>6. Attaches(s, x, b)
    BY <2>3, <2>4, <2>5, AppendBlockSpec DEF x
  <2>7. e = SaveDirBlock(x, n, b)
    BY <1>1, <1>9
  <2>8. CASE Ok(x)
    <3>1. Live(e) /\ Ok(e) /\ e.set = d.set /\ Gains(d.v, e.v, n, name, child)
      BY <2>1, <2>6, <2>7, <2>8, GrowDone DEF r
    <3> QED BY <3>1, Zenon DEF Inserts
  <2>9. CASE ~Ok(x)
    <3>1. Live(e) /\ ~Ok(e) /\ e.set = d.set /\ Stays(d.v, e.v)
      BY <2>1, <2>6, <2>7, <2>9, GrowFails
    <3> QED BY <3>1, Zenon DEF Inserts
  <2> QED BY <2>8, <2>9
<1>10. Inserts(d, e, n, name, child)
  BY <1>8, <1>9
<1> QED BY <1>10 DEF e

LEMMA InsertEntrySpec ==
  ASSUME NEW d, Live(d), Ok(d), World(d.v, {}), NEW n \in Inode, d.v.table[n].kind = "dir",
         NEW name \in Names, NEW child \in Inode, NEW e, e = insertEntry(d, n, name, child)
  PROVE  Inserts(d, e, n, name, child)
<1> DEFINE p == RoomIn(d.v, Positions(d.v, n))
<1>1. e = InsertEntryAt(d, p, n, name, child)
  BY DEF insertEntry
<1>2. Folder(d.v, n)
  BY DEF World, Folder
<1>3. CASE p = Nowhere
  BY <1>1, <1>3, GrowDirectorySpec DEF InsertEntryAt
<1>4. CASE p # Nowhere
  <2>1. e = SetBlock(d, p.block, Records(Inserted(d.v.data[p.block].recs, p.index, name, child)))
    BY <1>1, <1>4 DEF InsertEntryAt
  <2>2. PICK k \in 1 .. Len(List(d.v, n)) : /\ p.block = List(d.v, n)[k] /\ p.index \in 1 .. Len(Line(d.v, n, k))
                                            /\ Line(d.v, n, k)[p.index].ino = none \/ Line(d.v, n, k)[p.index].len > 1
    BY <1>2, <1>4, RoomSpec, Zenon
  <2> HIDE DEF p
  <2>3. Live(e) /\ Ok(e) /\ e.set = d.set /\ Gains(d.v, e.v, n, name, child)
    BY <2>1, <2>2, PutInPlace
  <2> QED BY <2>3 DEF Inserts
<1> QED BY <1>3, <1>4

\* From v to w a directory has one entry less.
Parts(v, w, n, name, child) ==
  /\ World(w, {}) /\ w.inodes = v.inodes /\ Recounts(v, w) /\ Others(v, w, n) /\ w.table = v.table
  /\ Drops(v, w, n, name, child)

LEMMA RemoveEntrySpec ==
  ASSUME NEW d, Live(d), Ok(d), World(d.v, {}), NEW n \in Inode, d.v.table[n].kind = "dir",
         NEW p, NEW name, NEW child, EntryIs(d.v, n, p, name, child), NEW e, e = removeEntry(d, p)
  PROVE  Live(e) /\ Ok(e) /\ e.set = d.set /\ Parts(d.v, e.v, n, name, child)
<1>1. Folder(d.v, n)
  BY DEF World, Folder
<1>2. PICK j \in 1 .. Len(List(d.v, n)) :
        /\ p.block = List(d.v, n)[j] /\ p.index \in LiveAt(Line(d.v, n, j))
        /\ Line(d.v, n, j)[p.index].name = name /\ Line(d.v, n, j)[p.index].ino = child
  BY DEF EntryIs
<1> DEFINE recs == Line(d.v, n, j)
           s == Removed(recs, p.index)
<1>3. recs \in Seq(RecType) /\ LengthOf(recs) = Slots
  BY <1>1, FolderIn
<1>4. recs = d.v.data[p.block].recs
  BY <1>2, Zenon DEF Line
<1>5. e = SetBlock(d, p.block, Records(s))
  <2> HIDE DEF recs
  <2> QED BY <1>4, Zenon DEF removeEntry, Removed
<1>6. e = SetBlock(d, List(d.v, n)[j], Records(s))
  BY <1>2, <1>5
<1> HIDE DEF s
<1>7. p.index \in LiveAt(recs) /\ recs[p.index].name = name /\ recs[p.index].ino = child
  BY <1>2
<1> HIDE DEF recs
<1>8. Loses(recs, s, name, child)
  BY <1>3, <1>7, RemovedLoses DEF s
<1>9. s \in Seq(RecType) /\ LengthOf(s) = Slots
  BY <1>3, <1>8 DEF Loses
<1>10. LineSets(d, e, n, j, s)
  BY <1>6, <1>9, LineSetSpec
<1>11. <<name, child>> \in Pairs(recs)
  BY <1>7 DEF Pairs
<1>12. Drops(d.v, e.v, n, name, child)
  BY <1>8, <1>10, <1>11, LineLoses DEF LineSets, recs
<1> QED BY <1>10, <1>12 DEF LineSets, Parts

\* An inode with another number of links.
Linked1(node, delta) == [node EXCEPT !.links = Max({0, @ + delta})]

LEMMA Linked1In ==
  ASSUME NEW node \in NodeType, NEW delta \in Int
  PROVE  /\ Linked1(node, delta) \in NodeType /\ SameTree(node, Linked1(node, delta))
         /\ Linked1(node, delta).nblk = node.nblk /\ Linked1(node, delta).size = node.size
         /\ Linked1(node, delta).kind = node.kind
         /\ (node.links + delta >= 0 => Linked1(node, delta).links = node.links + delta)
<1> DEFINE x == Linked1(node, delta)
           l == Max({0, node.links + delta})
<1>1. x = [node EXCEPT !.links = l]
  BY DEF Linked1
<1>2. l \in Nat /\ (node.links + delta >= 0 => l = node.links + delta)
  <2> DEFINE y == node.links + delta
  <2>1. y \in Int /\ l = Max({0, y})
    BY DEF NodeType
  <2> HIDE DEF y, l
  <2>2. l \in Nat /\ (y >= 0 => l = y)
    BY <2>1, AtLeastZero
  <2> QED BY <2>2 DEF y
<1> HIDE DEF l, x
<1>3. x \in NodeType /\ x.size = node.size /\ x.nblk = node.nblk /\ x.links = l /\ x.kind = node.kind
      /\ x.depth = node.depth /\ x.root = node.root
  BY <1>1, <1>2 DEF NodeType
<1>4. SameTree(node, x)
  BY <1>3 DEF SameTree
<1> QED BY <1>2, <1>3, <1>4 DEF x

\* From v to w inode n has another number of links.
Relinks(v, w, n, delta) ==
  /\ World(w, {}) /\ w.inodes = v.inodes /\ Recounts(v, w) /\ Others(v, w, n) /\ w.data = v.data
  /\ SameTree(v.table[n], w.table[n]) /\ w.table[n].size = v.table[n].size
  /\ v.table[n].links + delta >= 0 => w.table[n].links = v.table[n].links + delta

LEMMA AdjustLinksSpec ==
  ASSUME NEW d, Live(d), Ok(d), World(d.v, {}), NEW n \in Inode, d.v.table[n].kind = "dir", NEW delta \in Int,
         NEW e, e = adjustLinks(d, n, delta)
  PROVE  Live(e) /\ Ok(e) /\ e.set = d.set /\ Relinks(d.v, e.v, n, delta)
<1> DEFINE node == d.v.table[n]
           x == Linked1(node, delta)
           c == [d EXCEPT !.node = x]
           w == View(d.v, n, x)
<1>1. Whole(d.v, node) /\ d.v \in Volume /\ node \in NodeType
  BY DEF World, Volume
<1>2. e = writeInode(c, n)
  BY DEF adjustLinks, Linked1
<1> HIDE DEF node, x
<1>3. /\ x \in NodeType /\ SameTree(node, x) /\ x.nblk = node.nblk /\ x.size = node.size /\ x.kind = node.kind
      /\ node.links + delta >= 0 => x.links = node.links + delta
  BY <1>1, Linked1In DEF x
<1>4. Live(c) /\ c.v = d.v /\ c.status = d.status /\ c.set = d.set /\ c.node = x
  BY <1>3, NodeSet
<1> HIDE DEF c
<1>5. Does(c, e, View(c.v, n, c.node))
  BY <1>2, <1>4, WriteInodeSpec DEF Ok
<1>6. Live(e) /\ Ok(e) /\ e.v = w /\ e.set = d.set
  BY <1>4, <1>5 DEF Does, Ok
<1>7. HasView(d.v, n, x, w) /\ Recounts(d.v, w)
  BY <1>1, <1>3, ViewHas, RecountsView
<1> HIDE DEF w
<1>8. w \in Volume /\ w.data = d.v.data /\ w.blocks = d.v.blocks /\ w.inodes = d.v.inodes /\ w.table[n] = x
      /\ \A m \in Inode \ {n} : w.table[m] = d.v.table[m]
  BY <1>7 DEF HasView
<1>9. Rewrote(d.v, w, n, {})
  <2>1. {} \subseteq ToSet(Mapped(d.v, node)) /\ Agree(d.v, w, Block \ {})
    BY <1>8 DEF Agree
  <2>2. node.kind = "dir" /\ x.kind = "dir"
    BY <1>3 DEF node
  <2>3. SizeInBlocks(x) = Len(Mapped(d.v, node))
    BY <1>1, <1>3 DEF Whole, SizeInBlocks
  <2>4. \A k \in 1 .. Len(Mapped(d.v, node)) : Filled(w.data[Mapped(d.v, node)[k]], x, k)
    BY <1>1, <1>8, <2>2 DEF Whole, AllFilled, Filled
  <2> QED BY <1>3, <1>8, <2>1, <2>2, <2>3, <2>4 DEF Rewrote, node
<1>10. World(w, {}) /\ Others(d.v, w, n)
  BY <1>9, RewrittenWorld
<1>11. Relinks(d.v, w, n, delta)
  BY <1>3, <1>7, <1>8, <1>10 DEF Relinks, node
<1> QED BY <1>6, <1>11

================================================================================
