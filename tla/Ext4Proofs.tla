------------------------------ MODULE Ext4Proofs ------------------------------
(***************************************************************************)
(* For every geometry, every set of paths and every text: as long as no    *)
(* write fails, a volume that the driver may write keeps its bitmaps, its  *)
(* counters, its inodes, its directories and its texts consistent,         *)
(* wherever the power may go; and while the power stays, the driver does   *)
(* with its inodes and blocks what FileTree says of paths.                 *)
(***************************************************************************)
EXTENDS Ext4BlockProofs

--------------------------------------------------------------------------------
(* A new inode *)

\* The counters of u are those of the bitmaps if those of v are, with c a
\* directory or a file.
CountsWith(v, u, c, dir) ==
  \A K : K \subseteq v.inodes /\ Counted(v, K) => Counted(u, IF dir THEN K \cup {c} ELSE K)

\* From v to u inode c has been taken, and is still empty.
Reserved(v, u, c, dir) ==
  /\ World(u, {}) /\ c \in Inode \ v.inodes /\ c # rootInode /\ u.inodes = v.inodes \cup {c} /\ u.table = v.table
  /\ u.table[c] = NoInode /\ (\A n \in Inode : Same(v, u, n)) /\ CountsWith(v, u, c, dir)

LEMMA ReservedWorld ==
  ASSUME NEW d, Live(d), World(d.v, {}), NEW dir \in BOOLEAN, NEW i, Reserves(d, i, dir), Ok(i)
  PROVE  Reserved(d.v, i.v, i.out, dir)
<1> DEFINE v == d.v
           u == i.v
           c == i.out
<1>1. /\ c \in Inode \ v.inodes /\ c # rootInode /\ Keeps(v, u) /\ u.inodes = v.inodes \cup {c}
      /\ u.blocks = v.blocks /\ u.data = v.data
      /\ \A K : K \subseteq v.inodes /\ Counted(v, K) => Counted(u, IF dir THEN K \cup {c} ELSE K)
  BY DEF Reserves, Ok
<1> HIDE DEF u, c
<1>2. u \in Volume /\ u.table = v.table
  BY <1>1 DEF Keeps
<1>3. v.table[c] = NoInode
  <2>1. Whole(v, v.table[c]) /\ v.table[c].kind = "none"
    BY <1>1 DEF World
  <2> QED BY <2>1 DEF Whole
<1>4. \A n \in Inode : Agree(v, u, Owns(v, n))
  BY <1>1 DEF Agree
<1>5. v.blocks = (UNION {Owns(v, n) : n \in Inode}) \cup {} /\ \A n \in Inode : Owns(v, n) \cap {} = {}
  BY DEF World
<1>6. \A n \in Inode \ u.inodes : v.table[n].kind = "none"
  BY <1>1 DEF World
<1>7. {} \subseteq Block
  OBVIOUS
<1> HIDE DEF v
<1>8. World(v, {})
  BY DEF v
<1>9. World(u, {}) /\ \A n \in Inode : Owns(u, n) = Owns(v, n) /\ Same(v, u, n)
  BY <1>1, <1>2, <1>4, <1>5, <1>6, <1>7, <1>8, WorldKeeps
<1>10. Reserved(v, u, c, dir)
  BY <1>1, <1>2, <1>3, <1>9 DEF Reserved, CountsWith
<1> QED BY <1>10 DEF v, u, c

\* zeroInodeOnDisk on an inode that is empty.
LEMMA ZeroSpec ==
  ASSUME NEW d, Live(d), Ok(d), NEW n \in Inode, d.v.table[n] = NoInode
  PROVE  Does(d, zeroInodeOnDisk(d, n), d.v)
<1>1. d.v \in Volume
  BY DEF Live, Runs
<1>2. View(d.v, n, NoInode) = d.v
  BY <1>1, ViewSelf
<1>3. zeroInodeOnDisk(d, n) = Put(d, View(d.v, n, NoInode))
  BY DEF zeroInodeOnDisk, View
<1> QED BY <1>1, <1>2, <1>3, PutDoes

\* freeInode on an inode whose blocks are free.
LEMMA WipedWorld ==
  ASSUME NEW x, Live(x), NEW c \in Inode, World(View(x.v, c, NoInode), {}), NEW dir, NEW e, Wipes(x, e, c, dir)
  PROVE  World(e.v, {}) /\ e.v.table[c] = NoInode /\ Others(x.v, e.v, c) /\ e.v.inodes = x.v.inodes \ {c}
<1> DEFINE v == View(x.v, c, NoInode)
           w == e.v
<1>1. /\ w \in Volume /\ w.table = [x.v.table EXCEPT ![c] = NoInode] /\ w.inodes = x.v.inodes \ {c}
      /\ w.blocks = x.v.blocks /\ w.data = x.v.data
  BY DEF Wipes
<1>2. x.v \in Volume
  BY DEF Live, Runs
<1>3. v.table = [x.v.table EXCEPT ![c] = NoInode]
  BY <1>2 DEF View, Volume
<1>4. HasView(x.v, c, NoInode, v)
  BY <1>2, NodeIn, ViewHas
<1>5. World(v, {})
  OBVIOUS
<1> HIDE DEF v, w
<1>6. v.data = x.v.data /\ v.blocks = x.v.blocks /\ v.inodes = x.v.inodes /\ v.table[c] = NoInode
      /\ \A m \in Inode : m # c => v.table[m] = x.v.table[m]
  BY <1>4 DEF HasView
<1>7. w.table = v.table
  BY <1>1, <1>3
<1>8. \A n \in Inode : Agree(v, w, Owns(v, n))
  BY <1>1, <1>6 DEF Agree
<1>9. w.blocks = (UNION {Owns(v, n) : n \in Inode}) \cup {} /\ \A n \in Inode : Owns(v, n) \cap {} = {}
  BY <1>1, <1>5, <1>6 DEF World
<1>10. \A n \in Inode \ w.inodes : v.table[n].kind = "none"
  BY <1>1, <1>5, <1>6 DEF World, NoInode
<1>11. {} \subseteq Block
  OBVIOUS
<1>12. World(w, {})
  BY <1>1, <1>5, <1>7, <1>8, <1>9, <1>10, <1>11, WorldKeeps
<1>13. Others(x.v, w, c)
  BY <1>1, <1>6, <1>7 DEF Others, Same, Agree
<1> QED BY <1>1, <1>6, <1>7, <1>12, <1>13 DEF w

\* The records and the inode of a new directory.
Dots(c, up) == <<Record(c, ".", 1), Record(up, "..", Slots - 1)>>
DirNode(b)  == [NewInode("dir") EXCEPT !.size = Units, !.nblk = 1, !.root = <<b>>]

LEMMA DotsIn ==
  ASSUME NEW c \in Inode, NEW up \in Inode
  PROVE  /\ Dots(c, up) \in Seq(RecType) /\ LengthOf(Dots(c, up)) = Slots /\ Heads(Dots(c, up), c, up)
         /\ Distinct(Dots(c, up)) /\ Pairs(Dots(c, up)) = {<<".", c>>, <<"..", up>>}
<1> DEFINE a == Record(c, ".", 1)
           b == Record(up, "..", Slots - 1)
           s == Dots(c, up)
<1>1. a \in RecType /\ a.ino = c /\ a.name = "." /\ a.len = 1
  BY DEF Record, RecType
<1>2. b \in RecType /\ b.ino = up /\ b.name = ".." /\ b.len = Slots - 1
  BY Sizes DEF Record, RecType
<1>3. s = <<a, b>>
  BY DEF Dots
<1>4. c # none /\ up # none
  BY InodeGroup
<1> HIDE DEF a, b, s
<1>5. s \in Seq(RecType) /\ Len(s) = 2 /\ s[1] = a /\ s[2] = b
  BY <1>1, <1>2, <1>3
<1>6. s = Append(<<a>>, b)
  BY <1>3
<1>7. LengthOf(s) = Slots
  <2>1. <<a>> \in Seq(RecType) /\ LengthOf(<<a>>) = 1
    BY <1>1, LengthOfOne
  <2>2. LengthOf(Append(<<a>>, b)) = LengthOf(<<a>>) + b.len
    BY <1>2, <2>1, LengthSteps
  <2>3. 1 + (Slots - 1) = Slots
    BY Sizes
  <2> QED BY <1>2, <1>6, <2>1, <2>2, <2>3
<1>8. LiveAt(s) = {1, 2}
  BY <1>1, <1>2, <1>4, <1>5 DEF LiveAt
<1>9. Pairs(s) = {<<".", c>>, <<"..", up>>}
  <2>1. Pairs(s) = {<<s[i].name, s[i].ino>> : i \in {1, 2}}
    BY <1>8 DEF Pairs
  <2> QED BY <2>1, <1>1, <1>2, <1>5
<1>10. Distinct(s)
  BY <1>1, <1>2, <1>5, <1>8 DEF Distinct
<1>11. Heads(s, c, up)
  BY <1>1, <1>2, <1>5 DEF Heads
<1> QED BY <1>5, <1>7, <1>9, <1>10, <1>11 DEF s

LEMMA NewDir == NewInode("dir") = [kind |-> "dir", links |-> 2, size |-> 0, nblk |-> 0, depth |-> 0, root |-> <<>>]
<1> DEFINE z == NoInode
<1>1. z = [kind |-> "none", links |-> 0, size |-> 0, nblk |-> 0, depth |-> 0, root |-> <<>>]
  BY DEF NoInode
<1>2. NewInode("dir") = [z EXCEPT !.kind = "dir", !.links = 2]
  BY DEF NewInode
<1> HIDE DEF z
<1> QED BY <1>1, <1>2

LEMMA DirNodeIn ==
  ASSUME NEW b \in Block
  PROVE  /\ DirNode(b) \in NodeType /\ DirNode(b).kind = "dir" /\ DirNode(b).links = 2 /\ DirNode(b).size = Units
         /\ DirNode(b).nblk = 1 /\ DirNode(b).depth = 0 /\ DirNode(b).root = <<b>>
<1>1. <<b>> \in Seq(Block) /\ Units \in Nat
  BY Sizes
<1>2. DirNode(b) = [kind |-> "dir", links |-> 2, size |-> Units, nblk |-> 1, depth |-> 0, root |-> <<b>>]
  <2> DEFINE z == NewInode("dir")
  <2>1. z = [kind |-> "dir", links |-> 2, size |-> 0, nblk |-> 0, depth |-> 0, root |-> <<>>]
    BY NewDir
  <2>2. DirNode(b) = [z EXCEPT !.size = Units, !.nblk = 1, !.root = <<b>>]
    BY DEF DirNode
  <2> HIDE DEF z
  <2> QED BY <2>1, <2>2
<1> QED BY <1>1, <1>2 DEF NodeType

LEMMA DirNodeWhole ==
  ASSUME NEW v, NEW b \in Block, NEW c \in Inode, NEW up \in Inode, v.data[b] = Records(Dots(c, up))
  PROVE  Whole(v, DirNode(b)) /\ Mapped(v, DirNode(b)) = <<b>> /\ OwnedBy(v, DirNode(b)) = {b}
<1> DEFINE z == DirNode(b)
<1>1. /\ z \in NodeType /\ z.kind = "dir" /\ z.size = Units /\ z.nblk = 1 /\ z.depth = 0 /\ z.root = <<b>>
  BY DirNodeIn
<1> HIDE DEF z
<1>2. Mapped(v, z) = <<b>> /\ Leaves(z) = {}
  BY <1>1 DEF Mapped, Leaves
<1>3. ToSet(<<b>>) = {b} /\ Len(<<b>>) = 1 /\ <<b>>[1] = b
  BY DEF ToSet
<1>4. Inj(<<b>>)
  BY <1>3 DEF Inj
<1>5. Fits(<<b>>, RootEntries)
  <2>1. <<b>> \in Seq(Block)
    OBVIOUS
  <2> QED BY <2>1, Sizes, FitsSpec
<1>6. Shaped(v, z)
  BY <1>1, <1>2, <1>4, <1>5 DEF Shaped
<1>7. Cardinality({}) = 0
  BY FS_EmptySet
<1>8. SizeInBlocks(z) = 1 /\ z.size = 1 * Units
  <2>1. z.size = 1 * Units
    BY <1>1, Sizes
  <2> QED BY <2>1, SizeOf
<1>9. AllFilled(v, z)
  <2>1. Records(Dots(c, up)).kind = "dir" /\ Records(Dots(c, up)).recs = Dots(c, up)
    BY DEF Records
  <2>2. LengthOf(Dots(c, up)) = Slots
    BY DotsIn
  <2>3. \A k \in 1 .. 1 : <<b>>[k] = b
    BY <1>3
  <2> QED BY <1>1, <1>2, <1>3, <2>1, <2>2, <2>3 DEF AllFilled, Filled
<1>10. Whole(v, z)
  BY <1>1, <1>2, <1>3, <1>6, <1>7, <1>8, <1>9 DEF Whole
<1>11. OwnedBy(v, z) = {b}
  BY <1>2, <1>3 DEF OwnedBy
<1> QED BY <1>2, <1>10, <1>11 DEF z

\* A new directory has its first block.
FirstDone(d, e, c, up) ==
  /\ Live(e) /\ Ok(e) /\ e.set = d.set /\ e.out \in Block /\ e.node = DirNode(e.out)
  /\ Frame(d.v, e.v, {}, {e.out}) /\ Recounts(d.v, e.v) /\ e.v.data[e.out] = Records(Dots(c, up))

\* The block becomes the first of an empty inode.
LEMMA FirstAppended ==
  ASSUME NEW s, Live(s), Ok(s), s.node = NewInode("dir"), NEW b \in Block
  PROVE  appendBlock(s, 0, b) = [s EXCEPT !.node = [NewInode("dir") EXCEPT !.root = <<b>>]]
<1> DEFINE z == NewInode("dir")
           y == [z EXCEPT !.root = <<b>>]
<1>1. z.depth = 0 /\ z.root = <<>> /\ z \in NodeType
  BY NodeIn DEF NewInode, NoInode
<1>2. Mapped(s.v, z) = <<>>
  BY <1>1 DEF Mapped
<1>3. Append(<<>>, b) = <<b>> /\ Len(<<>>) = 0 /\ <<b>> \in Seq(Block)
  OBVIOUS
<1>4. Fits(<<b>>, RootEntries)
  BY <1>3, Sizes, FitsSpec
<1>5. RootTakes(z, b)
  BY <1>1, <1>3, <1>4 DEF RootTakes
<1> HIDE DEF z
<1>6. appendBlock(s, 0, b) = [s EXCEPT !.node.root = Append(@, b)]
  <2>1. ~(0 < Len(Mapped(s.v, s.node))) /\ s.node.depth # 1 /\ RootTakes(s.node, b)
    BY <1>1, <1>2, <1>3, <1>5 DEF z
  <2> QED BY <2>1, Zenon DEF appendBlock
<1>7. [s EXCEPT !.node.root = Append(@, b)] = [s EXCEPT !.node = y]
  <2>1. s \in Runs /\ s.node = z
    BY DEF Live, z
  <2>2. [s.node EXCEPT !.root = Append(s.node.root, b)] = y
    BY <1>1, <1>3, <2>1
  <2> HIDE DEF y
  <2>3. [s EXCEPT !.node.root = Append(@, b)] = [s EXCEPT !.node = [s.node EXCEPT !.root = Append(s.node.root, b)]]
    BY <2>1 DEF Runs
  <2> QED BY <2>2, <2>3
<1> QED BY <1>6, <1>7 DEF z

LEMMA FirstBlockSpec ==
  ASSUME NEW d, Live(d), Ok(d), d.node = NewInode("dir"), NEW goal \in Nat, NEW c \in Inode, NEW up \in Inode,
         NEW e, e = FirstBlock(allocBlock(d, goal), up, c)
  PROVE  \/ ~Ok(e) /\ Live(e) /\ e.v = d.v /\ e.out = none /\ e.set = d.set
         \/ Ok(e) /\ FirstDone(d, e, c, up)
<1> DEFINE a == allocBlock(d, goal)
           b == a.out
           s == SetBlock(a, b, Records(Dots(c, up)))
           x == appendBlock(s, 0, b)
           z == [NewInode("dir") EXCEPT !.root = <<b>>]
<1>1. Grants(d, a)
  BY AllocBlockSpec
<1>2. e = IF ~Ok(a) THEN [a EXCEPT !.out = none] ELSE MadeDir(x, b)
  BY DEF FirstBlock, Dots
<1> HIDE DEF a, s, x
<1>3. CASE ~Ok(a)
  <2>1. Live(a) /\ a.v = d.v /\ a.set = d.set
    BY <1>1, <1>3 DEF Grants
  <2>2. e = [a EXCEPT !.out = none]
    BY <1>2, <1>3
  <2>3. none \in Nat
    BY DEF none
  <2>4. Live(e) /\ e.v = a.v /\ e.status = a.status /\ e.set = a.set /\ e.out = none
    BY <2>1, <2>2, <2>3, OutSet
  <2> QED BY <1>3, <2>1, <2>4 DEF Ok
<1>4. CASE Ok(a)
  <2>1. Dots(c, up) \in Seq(RecType)
    BY DotsIn
  <2>2. /\ Live(s) /\ Ok(s) /\ s.set = d.set /\ s.node = d.node /\ Frame(d.v, s.v, {}, {b})
        /\ Recounts(d.v, s.v) /\ b \in Block /\ s.v.data[b] = Records(Dots(c, up))
    BY <1>1, <1>4, <2>1, GrantedSet DEF s
  <2>3. x = [s EXCEPT !.node = z]
    BY <2>2, FirstAppended DEF x
  <2>4. e = MadeDir(x, b)
    BY <1>2, <1>4
  <2> HIDE DEF b
  <2>5. z \in NodeType
    <3> DEFINE y == NewInode("dir")
    <3>1. y \in NodeType /\ <<b>> \in Seq(Block)
      BY <2>2, NodeIn
    <3>2. z = [y EXCEPT !.root = <<b>>]
      OBVIOUS
    <3> HIDE DEF y
    <3> QED BY <3>1, <3>2 DEF NodeType
  <2> HIDE DEF z
  <2>6. Live(x) /\ x.v = s.v /\ x.status = s.status /\ x.set = s.set /\ x.node = z
    BY <2>2, <2>3, <2>5, NodeSet
  <2>7. e = [x EXCEPT !.node.size = Units, !.node.nblk = 1, !.out = b]
    BY <2>2, <2>4, <2>6 DEF MadeDir, Ok
  <2>8. DirNode(b) = [z EXCEPT !.size = Units, !.nblk = 1]
    <3> DEFINE y == NewInode("dir")
    <3>1. y = [kind |-> "dir", links |-> 2, size |-> 0, nblk |-> 0, depth |-> 0, root |-> <<>>]
      BY NewDir
    <3>2. DirNode(b) = [y EXCEPT !.size = Units, !.nblk = 1, !.root = <<b>>] /\ z = [y EXCEPT !.root = <<b>>]
      BY DEF DirNode, z
    <3> HIDE DEF y
    <3> QED BY <3>1, <3>2
  <2>9. b \in Nat /\ DirNode(b) \in NodeType
    BY <2>2, BlockGroup, DirNodeIn
  <2>10. Live(e) /\ e.v = x.v /\ e.status = x.status /\ e.set = x.set /\ e.node = DirNode(b) /\ e.out = b
    <3>1. x \in Runs
      BY <2>6 DEF Live
    <3> DEFINE y == DirNode(b)
    <3>2. [x EXCEPT !.node.size = Units, !.node.nblk = 1, !.out = b] = [x EXCEPT !.node = y, !.out = b]
      <4>1. [x.node EXCEPT !.size = Units, !.nblk = 1] = y
        BY <2>6, <2>8
      <4> HIDE DEF y
      <4>2. [x EXCEPT !.node.size = Units, !.node.nblk = 1, !.out = b]
              = [x EXCEPT !.node = [x.node EXCEPT !.size = Units, !.nblk = 1], !.out = b]
        BY <3>1 DEF Runs
      <4> QED BY <4>1, <4>2
    <3> HIDE DEF y
    <3>3. e = [x EXCEPT !.node = y, !.out = b]
      BY <2>7, <3>2
    <3>4. y \in NodeType
      BY <2>9 DEF y
    <3>5. e \in Runs /\ e.kind = x.kind /\ e.left = x.left /\ e.v = x.v /\ e.status = x.status /\ e.set = x.set
          /\ e.node = y /\ e.out = b
      BY <2>9, <3>1, <3>3, <3>4 DEF Runs
    <3> QED BY <2>6, <3>5 DEF Live, y
  <2>11. Ok(e) /\ FirstDone(d, e, c, up)
    BY <2>2, <2>6, <2>10, Zenon DEF FirstDone, Ok
  <2> QED BY <2>11
<1> QED BY <1>3, <1>4

\* From v to w inode c, which was empty, is a new file or directory.
Placed(v, w, c, kind, block, up) ==
  /\ World(w, {}) /\ w.inodes = v.inodes /\ Recounts(v, w) /\ Others(v, w, c)
  /\ w.table[c].kind = kind /\ w.table[c].links = (IF kind = "dir" THEN 2 ELSE 1)
  /\ \/ kind = "file" /\ block = none /\ Owns(w, c) = {} /\ w.table[c].size = 0
     \/ /\ kind = "dir" /\ block \in Block /\ Owns(w, c) = {block} /\ Listed(w, c, up)
        /\ Ent(w, c) = {<<".", c>>, <<"..", up>>}

LEMMA NewFile ==
  /\ NewInode("file") \in NodeType /\ Bare(NewInode("file"))
  /\ NewInode("file").kind = "file" /\ NewInode("file").links = 1
  /\ Bare(NoInode)
<1> DEFINE z == NoInode
           y == NewInode("file")
<1>1. z = [kind |-> "none", links |-> 0, size |-> 0, nblk |-> 0, depth |-> 0, root |-> <<>>] /\ z \in NodeType
  BY NodeIn DEF NoInode
<1>2. y = [z EXCEPT !.kind = "file", !.links = 1] /\ y \in NodeType
  BY NodeIn DEF NewInode
<1> HIDE DEF z, y
<1>3. y = [kind |-> "file", links |-> 1, size |-> 0, nblk |-> 0, depth |-> 0, root |-> <<>>]
  BY <1>1, <1>2
<1>4. Bare(y) /\ y.kind = "file" /\ y.links = 1
  <2>1. y.kind = "file" /\ y.links = 1 /\ y.size = 0 /\ y.nblk = 0 /\ y.depth = 0 /\ y.root = <<>>
    BY <1>3
  <2>2. y.kind # "none"
    BY <2>1
  <2> QED BY <1>2, <2>1, <2>2, Zenon DEF Bare
<1>5. Bare(z)
  BY <1>1 DEF Bare, z
<1> QED BY <1>2, <1>4, <1>5 DEF z, y

LEMMA FilePlaced ==
  ASSUME NEW v, World(v, {}), NEW c \in v.inodes, c \in Inode, v.table[c] = NoInode, NEW up
  PROVE  Placed(v, View(v, c, NewInode("file")), c, "file", none, up)
<1> DEFINE y == NewInode("file")
           w == View(v, c, y)
<1>1. y \in NodeType /\ Bare(y) /\ y.kind = "file" /\ y.links = 1 /\ y.size = 0
  BY NewFile, Zenon DEF Bare
<1> HIDE DEF y
<1>2. v \in Volume
  BY DEF World
<1>3. Owns(v, c) = {}
  BY NewFile, BareWhole DEF Owns
<1>4. World(w, {} \cup Owns(v, c))
  BY <1>1, Detached
<1>5. HasView(v, c, y, w) /\ Recounts(v, w) /\ Near(v, w, c)
  BY <1>1, <1>2, ViewHas, RecountsView, NearView
<1> HIDE DEF w
<1>6. World(w, {})
  <2>1. {} \cup {} = {}
    OBVIOUS
  <2> QED BY <1>3, <1>4, <2>1
<1>7. w.table[c] = y /\ w.inodes = v.inodes
  BY <1>5 DEF HasView
<1>8. Others(v, w, c)
  BY <1>5 DEF Near, Others, Same, Agree
<1>9. Owns(w, c) = {}
  BY <1>1, <1>7, BareWhole DEF Owns
<1>10. Placed(v, w, c, "file", none, up)
  BY <1>1, <1>5, <1>6, <1>7, <1>8, <1>9 DEF Placed
<1> QED BY <1>10 DEF w, y

\* The lines of a new directory.
LEMMA DirLines ==
  ASSUME NEW w, NEW b \in Block, NEW c \in Inode, NEW up \in Inode, w.table[c] = DirNode(b),
         w.data[b] = Records(Dots(c, up))
  PROVE  Listed(w, c, up) /\ Ent(w, c) = {<<".", c>>, <<"..", up>>}
<1>1. List(w, c) = <<b>>
  BY DirNodeWhole DEF List
<1>2. Line(w, c, 1) = Dots(c, up)
  <2>1. <<b>>[1] = b /\ w.data[b].recs = Dots(c, up)
    BY DEF Records
  <2> QED BY <1>1, <2>1 DEF Line
<1>3. /\ Heads(Dots(c, up), c, up) /\ Distinct(Dots(c, up)) /\ Pairs(Dots(c, up)) = {<<".", c>>, <<"..", up>>}
  BY DotsIn
<1>4. Len(List(w, c)) = 1 /\ 1 .. 1 = {1}
  BY <1>1
<1>5. Listed(w, c, up)
  <2>1. \A k, l \in 1 .. 1 : k = l /\ k = 1
    OBVIOUS
  <2>2. Apart(w, c)
    BY <1>4, <2>1 DEF Apart
  <2> QED BY <1>2, <1>3, <1>4, <2>1, <2>2 DEF Listed
<1>6. Ent(w, c) = {<<".", c>>, <<"..", up>>}
  <2>1. Ent(w, c) = UNION {Pairs(Line(w, c, k)) : k \in {1}}
    BY <1>4 DEF Ent
  <2> QED BY <1>2, <1>3, <2>1
<1> QED BY <1>5, <1>6

LEMMA DirPlaced ==
  ASSUME NEW d, World(d.v, {}), NEW c \in Inode, c \in d.v.inodes, d.v.table[c] = NoInode, NEW up \in Inode,
         NEW e, FirstDone(d, e, c, up)
  PROVE  Placed(d.v, View(e.v, c, e.node), c, "dir", e.out, up)
<1> DEFINE v == d.v
           u == e.v
           b == e.out
           y == DirNode(b)
           w == View(u, c, y)
<1>1. /\ Live(e) /\ b \in Block /\ e.node = y /\ Frame(v, u, {}, {b}) /\ Recounts(v, u)
      /\ u.data[b] = Records(Dots(c, up))
  BY DEF FirstDone
<1>2. World(u, {b}) /\ \A n \in Inode : Owns(u, n) = Owns(v, n) /\ Same(v, u, n)
  BY <1>1, WorldFrame
<1>3. u.table = v.table /\ u.inodes = v.inodes /\ u \in Volume
  BY <1>1 DEF Frame
<1>4. y \in NodeType /\ y.kind = "dir" /\ y.links = 2
  BY <1>1, DirNodeIn
<1>5. Owns(u, c) = {}
  BY <1>3, NewFile, BareWhole DEF Owns
<1>6. World(v, {})
  OBVIOUS
<1> HIDE DEF y, b, u, v
<1>7. HasView(u, c, y, w) /\ Recounts(u, w) /\ Near(u, w, c)
  BY <1>3, <1>4, ViewHas, RecountsView, NearView
<1> HIDE DEF w
<1>8. w \in Volume /\ w.data = u.data /\ w.blocks = u.blocks /\ w.inodes = u.inodes /\ w.table[c] = y
  BY <1>7 DEF HasView
<1>9. Whole(w, y) /\ Mapped(w, y) = <<b>> /\ OwnedBy(w, y) = {b}
  BY <1>1, <1>8, DirNodeWhole DEF y
<1>10. Others(u, w, c)
  BY <1>7 DEF Near, Others, Same, Agree
<1>11. /\ Rest(u, c) \cap {b} = {} /\ u.blocks = Rest(u, c) \cup Owns(u, c) \cup {b}
  BY <1>2, RestOf
<1>12. World(w, {})
  <2>1. OwnedBy(w, y) \cap Rest(u, c) = {} /\ {} \cap OwnedBy(w, y) = {} /\ {} \cap Rest(u, c) = {} /\ {} \subseteq Block
    BY <1>9, <1>11
  <2>2. w.blocks = Rest(u, c) \cup OwnedBy(w, y) \cup {}
    BY <1>5, <1>8, <1>9, <1>11
  <2>3. \A m \in Inode \ w.inodes : m # c => u.table[m].kind = "none"
    BY <1>2, <1>8 DEF World
  <2>4. c \in w.inodes
    BY <1>3, <1>8 DEF v
  <2> QED BY <1>2, <1>8, <1>9, <1>10, <2>1, <2>2, <2>3, <2>4, WorldSwap
<1>13. Others(v, w, c)
  <2>1. Others(v, u, c)
    BY <1>2 DEF Others
  <2> QED BY <1>6, <1>10, <2>1, OthersMore
<1>14. Listed(w, c, up) /\ Ent(w, c) = {<<".", c>>, <<"..", up>>}
  BY <1>1, <1>8, DirLines DEF y
<1>15. Recounts(v, w) /\ w.inodes = v.inodes /\ Owns(w, c) = {b}
  BY <1>1, <1>3, <1>7, <1>8, <1>9 DEF Recounts, Owns
<1>16. Placed(v, w, c, "dir", b, up)
  BY <1>1, <1>4, <1>8, <1>12, <1>13, <1>14, <1>15 DEF Placed
<1> QED BY <1>1, <1>16 DEF v, u, b, w

Kinds == {"file", "dir"}

\* The new inode as writeInode leaves it.
NodeMade(z, m, c, kind, up) ==
  /\ Live(m) /\ Ok(m)
  /\ Live(writeInode(m, c)) /\ Ok(writeInode(m, c)) /\ writeInode(m, c).set = z.set
  /\ Placed(z.v, writeInode(m, c).v, c, kind, m.out, up)

LEMMA NewNodeSpec ==
  ASSUME NEW z, Live(z), Ok(z), World(z.v, {}), NEW c \in Inode, c \in z.v.inodes, z.v.table[c] = NoInode,
         NEW up \in Inode, NEW kind \in Kinds, NEW m, m = NewNode(z, up, c, kind)
  PROVE  \/ ~Ok(m) /\ Live(m) /\ m.v = z.v /\ m.out = none /\ m.set = z.set
         \/ Ok(m) /\ NodeMade(z, m, c, kind, up)
<1>1. CASE kind = "file"
  <2> DEFINE y == NewInode("file")
             x == [z EXCEPT !.node = y]
  <2>1. y \in NodeType
    BY NewFile
  <2>2. m = [z EXCEPT !.node = y, !.out = none]
    BY <1>1 DEF NewNode
  <2>3. m = [x EXCEPT !.out = none]
    BY <2>2 DEF Live, Runs
  <2> HIDE DEF y
  <2>4. Live(x) /\ x.v = z.v /\ x.status = z.status /\ x.set = z.set /\ x.node = y
    BY <2>1, NodeSet
  <2> HIDE DEF x
  <2>5. none \in Nat
    BY DEF none
  <2>6. Live(m) /\ m.v = x.v /\ m.status = x.status /\ m.set = x.set /\ m.node = x.node /\ m.out = none
    BY <2>3, <2>4, <2>5, OutSet
  <2> DEFINE w == writeInode(m, c)
  <2>7. Does(m, w, View(m.v, c, m.node))
    BY <2>4, <2>6, WriteInodeSpec DEF Ok
  <2> HIDE DEF w
  <2>8. Live(w) /\ Ok(w) /\ w.set = z.set /\ w.v = View(z.v, c, y)
    BY <2>4, <2>6, <2>7 DEF Does, Ok
  <2>9. Placed(z.v, View(z.v, c, y), c, "file", none, up)
    BY FilePlaced DEF y
  <2>10. Ok(m) /\ NodeMade(z, m, c, kind, up)
    BY <1>1, <2>4, <2>6, <2>8, <2>9 DEF NodeMade, w, Ok
  <2> QED BY <2>10
<1>2. CASE kind = "dir"
  <2> DEFINE y == NewInode("dir")
             x == [z EXCEPT !.node = y]
             goal == GroupOfInode(c) * Span
  <2>1. y \in NodeType
    BY NodeIn
  <2>2. m = FirstBlock(allocBlock(x, goal), up, c)
    BY <1>2 DEF NewNode
  <2> HIDE DEF y
  <2>3. Live(x) /\ x.v = z.v /\ x.status = z.status /\ x.set = z.set /\ x.node = y
    BY <2>1, NodeSet
  <2>4. goal \in Nat
    <3>1. GroupOfInode(c) \in Nat
      BY InodeGroup, Sizes DEF Group
    <3> QED BY <3>1, Sizes, Times
  <2> HIDE DEF x, goal
  <2>5. \/ ~Ok(m) /\ Live(m) /\ m.v = x.v /\ m.out = none /\ m.set = x.set
        \/ Ok(m) /\ FirstDone(x, m, c, up)
    BY <2>2, <2>3, <2>4, FirstBlockSpec DEF y, Ok
  <2>6. CASE ~Ok(m)
    BY <2>3, <2>5, <2>6
  <2>7. CASE Ok(m)
    <3>1. FirstDone(x, m, c, up)
      BY <2>5, <2>7
    <3>2. Live(m) /\ m.set = x.set
      BY <3>1 DEF FirstDone
    <3>3. Placed(x.v, View(m.v, c, m.node), c, "dir", m.out, up)
      BY <2>3, <3>1, DirPlaced
    <3> DEFINE w == writeInode(m, c)
    <3>4. Does(m, w, View(m.v, c, m.node))
      BY <2>7, <3>2, WriteInodeSpec
    <3> HIDE DEF w
    <3>5. Live(w) /\ Ok(w) /\ w.set = z.set /\ w.v = View(m.v, c, m.node)
      BY <2>3, <2>7, <3>2, <3>4 DEF Does, Ok
    <3>6. NodeMade(z, m, c, kind, up)
      BY <1>2, <2>3, <2>7, <3>2, <3>3, <3>5 DEF NodeMade, w
    <3> QED BY <2>7, <3>6
  <2> QED BY <2>6, <2>7
<1> QED BY <1>1, <1>2 DEF Kinds

\* Another status.
LEMMA StatusSet ==
  ASSUME NEW d, Live(d), NEW s \in Statuses \cup {"cut"}, NEW e, e = [d EXCEPT !.status = s]
  PROVE  Live(e) /\ e.v = d.v /\ e.status = s /\ e.set = d.set /\ e.node = d.node /\ e.out = d.out
BY DEF Live, Runs

\* GiveBack: the new inode is free again, and the error stays.
GivesBack(x, e, c, kind) ==
  /\ Live(e) /\ e.status = x.status /\ e.set = x.set
  /\ World(e.v, {}) /\ e.v.table[c] = NoInode /\ Others(x.v, e.v, c) /\ e.v.inodes = x.v.inodes \ {c}
  /\ \A K : (c \in K <=> kind = "dir") /\ Counted(x.v, K) => Counted(e.v, K \ {c})

LEMMA GiveBackSpec ==
  ASSUME NEW x, Live(x), NEW c \in Inode, c # rootInode, NEW kind, World(View(x.v, c, NoInode), {}),
         c \in x.v.inodes, NEW e, e = GiveBack(x, c, kind)
  PROVE  GivesBack(x, e, c, kind)
<1> DEFINE y == [x EXCEPT !.status = "ok"]
           dir == kind = "dir"
           f == freeInode(y, c, dir)
<1>1. "ok" \in Statuses \cup {"cut"} /\ x.status \in Statuses \cup {"cut"}
  BY DEF Live, Runs, Statuses
<1>2. Live(y) /\ y.v = x.v /\ y.status = "ok" /\ y.set = x.set
  BY <1>1, StatusSet
<1>3. e = [f EXCEPT !.status = x.status]
  BY DEF GiveBack
<1>4. dir \in BOOLEAN
  OBVIOUS
<1> HIDE DEF y, dir
<1>5. Wipes(y, f, c, dir)
  BY <1>2, <1>4, FreeInodeSpec DEF Ok
<1> HIDE DEF f
<1>6. World(View(y.v, c, NoInode), {})
  BY <1>2
<1>7. World(f.v, {}) /\ f.v.table[c] = NoInode /\ Others(y.v, f.v, c) /\ f.v.inodes = y.v.inodes \ {c}
  BY <1>2, <1>5, <1>6, WipedWorld
<1>8. /\ Live(f) /\ f.set = y.set
      /\ c \in y.v.inodes => \A K : (c \in K <=> dir) /\ Counted(y.v, K) => Counted(f.v, K \ {c})
  BY <1>5 DEF Wipes, Steps
<1>9. Live(e) /\ e.v = f.v /\ e.status = x.status /\ e.set = f.set
  BY <1>1, <1>3, <1>8, StatusSet
<1>10. \A K : (c \in K <=> kind = "dir") /\ Counted(x.v, K) => Counted(e.v, K \ {c})
  BY <1>2, <1>8, <1>9 DEF dir
<1> QED BY <1>2, <1>7, <1>8, <1>9, <1>10 DEF GivesBack

LEMMA SameMore ==
  ASSUME NEW u, NEW v, NEW w, NEW X, World(u, X), NEW n \in Inode, Same(u, v, n), Same(v, w, n)
  PROVE  Same(u, w, n)
<1>1. Whole(u, u.table[n])
  BY DEF World
<1>2. Agree(u, v, OwnedBy(u, u.table[n])) /\ v.table[n] = u.table[n]
  BY DEF Same, Owns
<1>3. OwnedBy(v, u.table[n]) = OwnedBy(u, u.table[n])
  BY <1>1, <1>2, WholeSame
<1> QED BY <1>2, <1>3 DEF Same, Owns, Agree

\* From v to w nothing changes that the commands can tell.
RecountsIn(v, w) == \A K \in SUBSET v.inodes : Counted(v, K) => Counted(w, K)
Restored(v, w) == World(w, {}) /\ w.inodes = v.inodes /\ RecountsIn(v, w) /\ \A n \in Inode : Same(v, w, n)

LEMMA StaysRestored ==
  ASSUME NEW v, NEW w, Stays(v, w)
  PROVE  Restored(v, w)
BY DEF Stays, Restored, Recounts, RecountsIn

\* From u to x an inode was made and its blocks, if any, were freed again.
Unmade(u, x, c) ==
  /\ Live(x) /\ World(View(x.v, c, NoInode), {}) /\ x.v.inodes = u.inodes /\ Recounts(u, x.v) /\ Others(u, x.v, c)

\* What is left of a node that could not be made: nothing.
LEMMA Undone ==
  ASSUME NEW v, World(v, {}), NEW u, NEW c, NEW kind, Reserved(v, u, c, kind = "dir"), NEW x, Unmade(u, x, c),
         NEW e, e = GiveBack(x, c, kind)
  PROVE  Live(e) /\ e.status = x.status /\ e.set = x.set /\ Restored(v, e.v)
<1> DEFINE dir == kind = "dir"
<1>1. /\ World(u, {}) /\ c \in Inode \ v.inodes /\ c # rootInode /\ u.inodes = v.inodes \cup {c}
      /\ u.table = v.table /\ u.table[c] = NoInode /\ (\A n \in Inode : Same(v, u, n))
      /\ \A K : K \subseteq v.inodes /\ Counted(v, K) => Counted(u, IF dir THEN K \cup {c} ELSE K)
  BY DEF Reserved, CountsWith
<1>2. Live(x) /\ World(View(x.v, c, NoInode), {}) /\ x.v.inodes = u.inodes /\ Recounts(u, x.v) /\ Others(u, x.v, c)
  BY DEF Unmade
<1>3. c \in x.v.inodes /\ c \in Inode
  BY <1>1, <1>2
<1>4. GivesBack(x, e, c, kind)
  BY <1>1, <1>2, <1>3, GiveBackSpec
<1>5. /\ Live(e) /\ e.status = x.status /\ e.set = x.set
      /\ World(e.v, {}) /\ e.v.table[c] = NoInode /\ Others(x.v, e.v, c) /\ e.v.inodes = x.v.inodes \ {c}
      /\ \A K : (c \in K <=> dir) /\ Counted(x.v, K) => Counted(e.v, K \ {c})
  BY <1>4 DEF GivesBack
<1>6. e.v.inodes = v.inodes
  BY <1>1, <1>2, <1>5
<1>7. RecountsIn(v, e.v)
  <2> SUFFICES ASSUME NEW K \in SUBSET v.inodes, Counted(v, K) PROVE Counted(e.v, K)
    BY DEF RecountsIn
  <2> DEFINE J == IF dir THEN K \cup {c} ELSE K
  <2>1. Counted(u, J)
    BY <1>1
  <2>2. Counted(x.v, J)
    BY <1>2, <2>1 DEF Recounts
  <2>3. (c \in J <=> dir) /\ J \ {c} = K
    BY <1>1
  <2> HIDE DEF J
  <2>4. Counted(e.v, J \ {c})
    BY <1>5, <2>2, <2>3
  <2> QED BY <2>3, <2>4
<1>8. Others(u, e.v, c)
  BY <1>1, <1>2, <1>3, <1>5, OthersMore
<1>9. \A n \in Inode : Same(v, e.v, n)
  <2> SUFFICES ASSUME NEW n \in Inode PROVE Same(v, e.v, n)
    OBVIOUS
  <2>1. CASE n # c
    <3>1. Same(v, u, n) /\ Same(u, e.v, n)
      BY <1>1, <1>8, <2>1 DEF Others
    <3> QED BY <3>1, SameMore
  <2>2. CASE n = c
    <3>1. Owns(v, c) = {} /\ v.table[c] = e.v.table[c]
      BY <1>1, <1>5, NewFile, BareWhole DEF Owns
    <3> QED BY <2>2, <3>1 DEF Same, Agree
  <2> QED BY <2>1, <2>2
<1> QED BY <1>5, <1>6, <1>7, <1>9 DEF Restored

\* From v to w directory p has got a new file or directory, and delta links more.
Made(v, w, p, name, c, kind, delta) ==
  /\ World(w, {}) /\ c \in Inode \ v.inodes /\ c # rootInode /\ p # c /\ w.inodes = v.inodes \cup {c}
  /\ CountsWith(v, w, c, kind = "dir")
  /\ \A m \in Inode : m # c /\ m # p => Same(v, w, m)
  /\ w.table[p].kind = "dir" /\ w.table[p].links = v.table[p].links + delta
  /\ Enters(v, w, p, name, c)
  /\ w.table[c].kind = kind /\ w.table[c].links = (IF kind = "dir" THEN 2 ELSE 1)
  /\ kind = "dir" => Listed(w, c, p) /\ Ent(w, c) = {<<".", c>>, <<"..", p>>}
  /\ kind = "file" => w.table[c].size = 0

LEMMA MadeEntered ==
  ASSUME NEW v, World(v, {}), NEW p \in Inode, v.table[p].kind = "dir", NEW u, NEW c, NEW kind \in Kinds,
         Reserved(v, u, c, kind = "dir"), NEW a, NEW block, Placed(u, a, c, kind, block, p),
         NEW w, NEW name, Gains(a, w, p, name, c)
  PROVE  Made(v, w, p, name, c, kind, 0)
<1>1. /\ World(u, {}) /\ c \in Inode \ v.inodes /\ c # rootInode /\ u.inodes = v.inodes \cup {c}
      /\ u.table = v.table /\ u.table[c] = NoInode /\ (\A n \in Inode : Same(v, u, n))
      /\ CountsWith(v, u, c, kind = "dir")
  BY DEF Reserved
<1>2. /\ World(a, {}) /\ a.inodes = u.inodes /\ Recounts(u, a) /\ Others(u, a, c)
      /\ a.table[c].kind = kind /\ a.table[c].links = (IF kind = "dir" THEN 2 ELSE 1)
      /\ kind = "dir" => Listed(a, c, p) /\ Ent(a, c) = {<<".", c>>, <<"..", p>>}
      /\ kind = "file" => a.table[c].size = 0
  BY DEF Placed
<1>3. /\ World(w, {}) /\ w.inodes = a.inodes /\ Recounts(a, w) /\ Others(a, w, p)
      /\ w.table[p].kind = "dir" /\ w.table[p].links = a.table[p].links /\ Enters(a, w, p, name, c)
  BY DEF Gains
<1>4. p # c
  BY <1>1 DEF NoInode
<1>5. CountsWith(v, w, c, kind = "dir")
  BY <1>1, <1>2, <1>3 DEF CountsWith, Recounts
<1>6. \A m \in Inode : m # c => Same(v, a, m)
  BY <1>1, <1>2, SameMore DEF Others
<1>7. \A m \in Inode : m # c /\ m # p => Same(v, w, m)
  BY <1>3, <1>6, SameMore DEF Others
<1>8. Same(v, a, p) /\ v \in Volume /\ Whole(v, v.table[p])
  BY <1>4, <1>6 DEF World
<1>9. Ent(a, p) = Ent(v, p) /\ \A up : Listed(v, p, up) => Listed(a, p, up)
  BY <1>8, SameLines
<1>10. Enters(v, w, p, name, c)
  BY <1>3, <1>9 DEF Enters, NoName
<1>11. a.table[p].links = v.table[p].links /\ v.table[p].links \in Nat
  <2>1. v.table[p] \in NodeType
    BY <1>8 DEF Whole, Shaped
  <2> QED BY <1>8, <2>1 DEF Same, NodeType
<1>12. w.table[p].links = v.table[p].links + 0
  BY <1>3, <1>11
<1>13. Same(a, w, c) /\ a \in Volume /\ Whole(a, a.table[c]) /\ c \in Inode
  BY <1>1, <1>2, <1>3, <1>4 DEF Others, World
<1>14. Ent(w, c) = Ent(a, c) /\ (\A up : Listed(a, c, up) => Listed(w, c, up)) /\ w.table[c] = a.table[c]
  BY <1>13, SameLines DEF Same
<1>15. w.table[c].kind = kind /\ w.table[c].links = (IF kind = "dir" THEN 2 ELSE 1)
       /\ (kind = "dir" => Listed(w, c, p) /\ Ent(w, c) = {<<".", c>>, <<"..", p>>})
       /\ (kind = "file" => w.table[c].size = 0)
  BY <1>2, <1>14
<1>16. w.inodes = v.inodes \cup {c}
  BY <1>1, <1>2, <1>3
<1> QED BY <1>1, <1>3, <1>4, <1>5, <1>7, <1>10, <1>12, <1>15, <1>16 DEF Made

\* The lines of a directory whose inode has another number of links.
LEMMA RelinkLines ==
  ASSUME NEW v, NEW w, NEW n, w.data = v.data, SameTree(v.table[n], w.table[n])
  PROVE  List(w, n) = List(v, n) /\ Ent(w, n) = Ent(v, n) /\ \A up : Listed(v, n, up) <=> Listed(w, n, up)
<1>1. List(w, n) = List(v, n)
  BY DEF List, Mapped, SameTree
<1>2. \A k : Line(w, n, k) = Line(v, n, k)
  BY <1>1 DEF Line
<1>3. Ent(w, n) = Ent(v, n)
  BY <1>1, <1>2 DEF Ent
<1>4. Apart(w, n) <=> Apart(v, n)
  BY <1>1, <1>2 DEF Apart
<1>5. \A up : Listed(v, n, up) <=> Listed(w, n, up)
  BY <1>1, <1>2, <1>4 DEF Listed
<1> QED BY <1>1, <1>3, <1>5

LEMMA MadeLinked ==
  ASSUME NEW v, World(v, {}), NEW q, NEW w, NEW p \in Inode, NEW name, NEW c, NEW kind, Made(v, q, p, name, c, kind, 0),
         Relinks(q, w, p, 1)
  PROVE  Made(v, w, p, name, c, kind, 1)
<1>1. /\ World(q, {}) /\ c \in Inode \ v.inodes /\ c # rootInode /\ p # c /\ q.inodes = v.inodes \cup {c}
      /\ CountsWith(v, q, c, kind = "dir")
      /\ \A m \in Inode : m # c /\ m # p => Same(v, q, m)
      /\ q.table[p].kind = "dir" /\ q.table[p].links = v.table[p].links + 0
      /\ Enters(v, q, p, name, c)
      /\ q.table[c].kind = kind /\ q.table[c].links = (IF kind = "dir" THEN 2 ELSE 1)
      /\ kind = "dir" => Listed(q, c, p) /\ Ent(q, c) = {<<".", c>>, <<"..", p>>}
      /\ kind = "file" => q.table[c].size = 0
  BY DEF Made
<1>2. /\ World(w, {}) /\ w.inodes = q.inodes /\ Recounts(q, w) /\ Others(q, w, p) /\ w.data = q.data
      /\ SameTree(q.table[p], w.table[p])
      /\ q.table[p].links + 1 >= 0 => w.table[p].links = q.table[p].links + 1
  BY DEF Relinks
<1>3. CountsWith(v, w, c, kind = "dir")
  BY <1>1, <1>2 DEF CountsWith, Recounts
<1>4. \A m \in Inode : m # c /\ m # p => Same(v, w, m)
  BY <1>1, <1>2, SameMore DEF Others
<1>5. w.table[p].kind = "dir" /\ w.table[p].links = v.table[p].links + 1
  <2>1. v.table[p].links \in Nat
    BY DEF World, Whole, Shaped, NodeType
  <2>2. w.table[p].links = v.table[p].links + 1
    BY <1>1, <1>2, <2>1
  <2>3. w.table[p].kind = "dir"
    BY <1>1, <1>2 DEF SameTree
  <2> QED BY <2>2, <2>3
<1>6. Enters(v, w, p, name, c)
  <2>1. Ent(w, p) = Ent(q, p) /\ \A up : Listed(q, p, up) <=> Listed(w, p, up)
    BY <1>2, RelinkLines
  <2> QED BY <1>1, <2>1 DEF Enters
<1>7. Same(q, w, c) /\ q \in Volume /\ Whole(q, q.table[c]) /\ c \in Inode
  BY <1>1, <1>2 DEF Others, World
<1>8. Ent(w, c) = Ent(q, c) /\ (\A up : Listed(q, c, up) => Listed(w, c, up)) /\ w.table[c] = q.table[c]
  BY <1>7, SameLines DEF Same
<1>9. w.table[c].kind = kind /\ w.table[c].links = (IF kind = "dir" THEN 2 ELSE 1)
      /\ (kind = "dir" => Listed(w, c, p) /\ Ent(w, c) = {<<".", c>>, <<"..", p>>})
      /\ (kind = "file" => w.table[c].size = 0)
  BY <1>1, <1>8
<1> QED BY <1>1, <1>2, <1>3, <1>4, <1>5, <1>6, <1>9 DEF Made

\* makeNode: the parent has the new node, or there is no space and nothing done.
Links(kind) == IF kind = "dir" THEN 1 ELSE 0
Makes(d, e, p, name, kind) ==
  /\ Live(e) /\ e.set = d.set
  /\ (~Ok(e) /\ Restored(d.v, e.v)) \/ (Ok(e) /\ Made(d.v, e.v, p, name, e.out, kind, Links(kind)))

\* The entry could not be written: what was placed is unmade.
LEMMA UnmadePlaced ==
  ASSUME NEW u, World(u, {}), NEW c \in Inode, c \in u.inodes, NEW kind, NEW a, NEW block, NEW p,
         Placed(u, a, c, kind, block, p), NEW q, Live(q), Stays(a, q.v),
         NEW x, x = (IF block # none THEN FreeAgain(q, {block}) ELSE q)
  PROVE  Unmade(u, x, c) /\ x.status = q.status /\ x.set = q.set
<1>1. /\ World(a, {}) /\ a.inodes = u.inodes /\ Recounts(u, a) /\ Others(u, a, c)
      /\ \/ block = none /\ Owns(a, c) = {}
         \/ block \in Block /\ Owns(a, c) = {block}
  BY DEF Placed
<1>2. World(q.v, {}) /\ q.v.inodes = a.inodes /\ Recounts(a, q.v) /\ Same(a, q.v, c) /\ Others(a, q.v, c)
  BY DEF Stays, Others
<1>3. Owns(q.v, c) = Owns(a, c)
  <2>1. Whole(a, a.table[c])
    BY <1>1 DEF World
  <2> QED BY <1>2, <2>1, WholeSame DEF Same, Owns
<1>4. World(View(q.v, c, NoInode), Owns(q.v, c))
  <2>1. Bare(NoInode) /\ NoInode.kind = "none"
    BY NewFile DEF NoInode
  <2>2. World(View(q.v, c, NoInode), {} \cup Owns(q.v, c))
    BY <1>2, <2>1, Detached
  <2> QED BY <2>2
<1>5. Others(u, q.v, c) /\ q.v.inodes = u.inodes /\ Recounts(u, q.v)
  BY <1>1, <1>2, OthersMore DEF Recounts
<1>6. CASE block = none
  <2>1. x = q /\ Owns(q.v, c) = {}
    BY <1>1, <1>3, <1>6, BlockGroup
  <2> QED BY <1>4, <1>5, <2>1 DEF Unmade
<1>7. CASE block # none
  <2>1. x = FreeAgain(q, {block}) /\ World(View(q.v, c, NoInode), {block})
    BY <1>1, <1>3, <1>4, <1>7
  <2>2. Returned(q, x, c, NoInode, block)
    BY <2>1, NodeIn, GivenBack
  <2>3. /\ World(View(x.v, c, NoInode), {}) /\ Others(q.v, x.v, c) /\ x.v.inodes = q.v.inodes
        /\ Recounts(q.v, x.v) /\ Live(x) /\ x.set = q.set /\ x.status = q.status
    BY <2>2 DEF Returned
  <2>4. Others(u, x.v, c) /\ x.v.inodes = u.inodes /\ Recounts(u, x.v)
    BY <1>5, <2>3, OthersMore DEF Recounts
  <2> QED BY <2>3, <2>4 DEF Unmade
<1> QED BY <1>6, <1>7

LEMMA EnteredSpec ==
  ASSUME NEW d, World(d.v, {}), NEW p \in Inode, d.v.table[p].kind = "dir", NEW u, NEW c, NEW kind \in Kinds,
         Reserved(d.v, u, c, kind = "dir"), NEW m, NEW block, m.set = d.set, Placed(u, m.v, c, kind, block, p),
         NEW name, NEW q, Inserts(m, q, p, name, c), NEW e, e = Entered(q, block, c, p, kind)
  PROVE  Makes(d, e, p, name, kind)
<1> DEFINE v == d.v
           a == m.v
<1>1. World(u, {}) /\ c \in Inode /\ c \in u.inodes
  BY DEF Reserved
<1>0. Live(q) /\ q.set = d.set /\ ((~Ok(q) /\ Stays(a, q.v)) \/ (Ok(q) /\ Gains(a, q.v, p, name, c)))
  BY DEF Inserts
<1>01. World(v, {}) /\ v.table[p].kind = "dir" /\ Reserved(v, u, c, kind = "dir") /\ Placed(u, a, c, kind, block, p)
  OBVIOUS
<1> HIDE DEF v, a
<1> SUFFICES /\ Live(e) /\ e.set = q.set
             /\ (~Ok(e) /\ Restored(v, e.v)) \/ (Ok(e) /\ Made(v, e.v, p, name, e.out, kind, Links(kind)))
  BY <1>0 DEF Makes, v
<1>2. CASE ~Ok(q)
  <2> DEFINE x == IF block # none THEN FreeAgain(q, {block}) ELSE q
  <2>1. e = GiveBack(x, c, kind)
    BY <1>2 DEF Entered
  <2>2. Unmade(u, x, c) /\ x.status = q.status /\ x.set = q.set
    <3>1. Stays(a, q.v) /\ Live(q)
      BY <1>0, <1>2
    <3> DEFINE y == x
    <3>2. y = (IF block # none THEN FreeAgain(q, {block}) ELSE q)
      OBVIOUS
    <3> HIDE DEF y
    <3>3. Unmade(u, y, c) /\ y.status = q.status /\ y.set = q.set
      BY <1>01, <1>1, <3>1, <3>2, UnmadePlaced
    <3> QED BY <3>3 DEF y
  <2> HIDE DEF x
  <2>3. Live(e) /\ e.status = x.status /\ e.set = x.set /\ Restored(v, e.v)
    BY <1>01, <2>1, <2>2, Undone
  <2> QED BY <1>2, <2>2, <2>3 DEF Ok
<1>3. CASE Ok(q)
  <2>0. Gains(a, q.v, p, name, c)
    BY <1>0, <1>3
  <2>1. Made(v, q.v, p, name, c, kind, 0) /\ World(q.v, {})
    BY <1>01, <2>0, MadeEntered DEF Gains
  <2>2. c \in Nat
    BY <1>1, InodeGroup
  <2>3. CASE kind = "dir"
    <3> DEFINE l == adjustLinks(q, p, 1)
               s == [l EXCEPT !.status = "ok"]
    <3>1. e = [l EXCEPT !.status = "ok", !.out = c]
      BY <1>3, <2>3 DEF Entered
    <3>2. q.v.table[p].kind = "dir" /\ 1 \in Int
      BY <2>1 DEF Made
    <3>3. Live(l) /\ Ok(l) /\ l.set = q.set /\ Relinks(q.v, l.v, p, 1)
      BY <1>0, <1>3, <2>1, <3>2, AdjustLinksSpec
    <3> HIDE DEF l
    <3>4. Made(v, l.v, p, name, c, kind, 1)
      BY <1>01, <2>1, <3>3, MadeLinked
    <3>5. "ok" \in Statuses \cup {"cut"}
      BY DEF Statuses
    <3>6. Live(s) /\ s.v = l.v /\ s.status = "ok" /\ s.set = l.set
      BY <3>3, <3>5, StatusSet
    <3>7. e = [s EXCEPT !.out = c]
      BY <3>1, <3>3 DEF Live, Runs
    <3> HIDE DEF s
    <3>8. Live(e) /\ e.v = s.v /\ e.status = s.status /\ e.set = s.set /\ e.out = c
      BY <2>2, <3>6, <3>7, OutSet
    <3> QED BY <2>3, <3>3, <3>4, <3>6, <3>8 DEF Ok, Links
  <2>4. CASE kind # "dir"
    <3>1. e = [q EXCEPT !.out = c]
      BY <1>3, <2>4 DEF Entered
    <3>2. Live(e) /\ e.v = q.v /\ e.status = q.status /\ e.set = q.set /\ e.out = c
      BY <1>0, <2>2, <3>1, OutSet
    <3> QED BY <1>3, <2>1, <2>4, <3>2 DEF Ok, Links
  <2> QED BY <2>3, <2>4
<1> QED BY <1>2, <1>3

LEMMA MakeNodeSpec ==
  ASSUME NEW d, Live(d), Ok(d), World(d.v, {}), NEW p \in Inode, d.v.table[p].kind = "dir", NEW name \in Names,
         NEW kind \in Kinds, NEW e, e = makeNode(d, p, name, kind)
  PROVE  Makes(d, e, p, name, kind)
<1> DEFINE dir == kind = "dir"
           i == allocInode(d, p, dir)
           c == i.out
           z == zeroInodeOnDisk(i, c)
           m == NewNode(z, p, c, kind)
           a == writeInode(m, c)
           q == insertEntry(a, p, name, c)
<1>1. e = Furnish(i, p, name, kind)
  BY DEF makeNode
<1>2. Reserves(d, i, dir)
  BY AllocInodeSpec
<1> HIDE DEF i
<1>3. CASE ~Ok(i)
  <2>1. e = i /\ i.v = d.v /\ Live(i) /\ i.set = d.set
    BY <1>1, <1>2, <1>3 DEF Furnish, Reserves
  <2>2. Restored(d.v, d.v)
    BY SameStays, StaysRestored
  <2> QED BY <1>3, <2>1, <2>2 DEF Makes
<1>4. CASE Ok(i)
  <2>1. Reserved(d.v, i.v, c, dir) /\ Live(i) /\ i.set = d.set
    <3>1. Reserved(d.v, i.v, i.out, dir)
      BY <1>2, <1>4, ReservedWorld
    <3> QED BY <1>2, <3>1 DEF Reserves
  <2>2. e = Enter(m, c, p, name, kind)
    BY <1>1, <1>4 DEF Furnish
  <2> HIDE DEF c
  <2>3. World(i.v, {}) /\ c \in Inode /\ c \in i.v.inodes /\ i.v.table[c] = NoInode /\ i.v.table = d.v.table
    BY <2>1 DEF Reserved
  <2>4. Does(i, z, i.v)
    BY <1>4, <2>1, <2>3, ZeroSpec
  <2> HIDE DEF z
  <2>5. Live(z) /\ Ok(z) /\ z.v = i.v /\ z.set = d.set
    BY <1>4, <2>1, <2>4 DEF Does, Ok
  <2>6. \/ ~Ok(m) /\ Live(m) /\ m.v = z.v /\ m.out = none /\ m.set = z.set
        \/ Ok(m) /\ NodeMade(z, m, c, kind, p)
    BY <2>3, <2>5, NewNodeSpec
  <2> HIDE DEF m
  <2>7. CASE ~Ok(m)
    <3>1. e = GiveBack(m, c, kind) /\ Live(m) /\ m.v = i.v /\ m.set = d.set
      BY <2>2, <2>5, <2>6, <2>7 DEF Enter
    <3>2. View(i.v, c, NoInode) = i.v
      <4>1. i.v \in Volume
        BY <2>3 DEF World
      <4> QED BY <2>3, <4>1, ViewSelf
    <3>3. Unmade(i.v, m, c)
      BY <2>3, <3>1, <3>2, SameStays DEF Unmade, Stays, Others
    <3>4. Live(e) /\ e.status = m.status /\ e.set = m.set /\ Restored(d.v, e.v)
      BY <2>1, <3>1, <3>3, Undone
    <3> QED BY <2>7, <3>1, <3>4 DEF Makes, Ok
  <2>8. CASE Ok(m)
    <3>1. Live(a) /\ Ok(a) /\ a.set = z.set /\ Placed(z.v, a.v, c, kind, m.out, p)
      BY <2>6, <2>8 DEF NodeMade
    <3>2. e = Entered(q, m.out, c, p, kind)
      BY <2>2, <2>8 DEF Enter
    <3> HIDE DEF a
    <3>3. World(a.v, {}) /\ a.v.table[p].kind = "dir"
      <4>1. World(a.v, {}) /\ Others(i.v, a.v, c)
        BY <2>5, <3>1 DEF Placed
      <4>2. p # c
        BY <2>3 DEF NoInode
      <4> QED BY <2>3, <4>1, <4>2 DEF Others, Same
    <3>4. Inserts(a, q, p, name, c)
      BY <2>3, <3>1, <3>3, InsertEntrySpec
    <3> HIDE DEF q
    <3>5. Placed(i.v, a.v, c, kind, m.out, p) /\ a.set = d.set
      BY <2>5, <3>1
    <3> QED BY <2>1, <3>2, <3>4, <3>5, EnteredSpec
  <2> QED BY <2>7, <2>8
<1> QED BY <1>3, <1>4

--------------------------------------------------------------------------------
(* Names, inodes and links *)

\* The subdirectories of n in a set T of entries <<directory, name, inode>>.
Subs(T, D, n) == {e \in T : e[1] = n /\ e[3] \in D}

\* U are the inodes in use, D the directories, heads the pairs of a directory
\* and what its ".." is.
Forest(T, U, D, links, heads) ==
  /\ rootInode \in D /\ D \subseteq U /\ U \subseteq Inode /\ T \subseteq D \X Names \X (U \ {rootInode})
  /\ \A n \in U \ {rootInode} : \E e \in T : e[3] = n
  /\ \A e, f \in T : e[3] = f[3] => e = f
  /\ \A n \in D : \E up \in Inode : /\ <<n, up>> \in heads /\ (n = rootInode => up = rootInode)
                                    /\ n # rootInode => \E name \in Names : <<up, name, n>> \in T
  /\ \A n \in U : links[n] = IF n \in D THEN 2 + Cardinality(Subs(T, D, n)) ELSE 1

LEMMA ForestFinite ==
  ASSUME NEW T, NEW U, NEW D, NEW links, NEW heads, Forest(T, U, D, links, heads)
  PROVE  IsFiniteSet(T) /\ \A n : IsFiniteSet(Subs(T, D, n)) /\ Cardinality(Subs(T, D, n)) \in Nat
<1> DEFINE W == U \ {rootInode}
           pick == [n \in W |-> CHOOSE e \in T : e[3] = n]
<1>1. IsFiniteSet(W)
  BY Finite, FS_Subset DEF Forest
<1>2. T \subseteq {pick[n] : n \in W}
  <2> SUFFICES ASSUME NEW e \in T PROVE e \in {pick[n] : n \in W}
    OBVIOUS
  <2>1. e[3] \in W /\ \A f \in T : f[3] = e[3] => f = e
    BY DEF Forest
  <2>2. pick[e[3]] \in T /\ pick[e[3]][3] = e[3]
    BY <2>1
  <2> QED BY <2>1, <2>2
<1>3. IsFiniteSet(T)
  <2> DEFINE R == {pick[n] : n \in W}
  <2>1. pick \in Surjection(W, R)
    BY DEF Surjection
  <2> HIDE DEF pick, W
  <2>2. T \subseteq R
    BY <1>2
  <2> HIDE DEF R
  <2>3. IsFiniteSet(R)
    BY <1>1, <2>1, FS_Surjection
  <2> QED BY <2>2, <2>3, FS_Subset
<1>4. \A n : Subs(T, D, n) \subseteq T
  BY DEF Subs
<1> QED BY <1>3, <1>4, FS_Subset, FS_CardinalityType

\* Links and heads that say the same of the inodes in use.
LEMMA ForestKeeps ==
  ASSUME NEW T, NEW U, NEW D, NEW l, NEW h, Forest(T, U, D, l, h), NEW l2, NEW h2,
         \A n \in U : l2[n] = l[n], \A n \in D, up \in Inode : <<n, up>> \in h => <<n, up>> \in h2
  PROVE  Forest(T, U, D, l2, h2)
BY DEF Forest

\* Inode c is put into directory p.
Planted(T, U, D, l, h, T2, U2, D2, l2, h2, p, name, c, kind) ==
  /\ p \in D /\ name \in Names /\ c \in Inode \ U /\ T2 = T \cup {<<p, name, c>>} /\ U2 = U \cup {c}
  /\ D2 = (IF kind = "dir" THEN D \cup {c} ELSE D)
  /\ (\A n \in U : n # p => l2[n] = l[n]) /\ l2[p] = l[p] + Links(kind)
  /\ l2[c] = (IF kind = "dir" THEN 2 ELSE 1)
  /\ \A n \in D, up \in Inode : <<n, up>> \in h => <<n, up>> \in h2
  /\ kind = "dir" => <<c, p>> \in h2

LEMMA ForestGrows ==
  ASSUME NEW T, NEW U, NEW D, NEW l, NEW h, Forest(T, U, D, l, h), NEW T2, NEW U2, NEW D2, NEW l2, NEW h2,
         NEW p, NEW name, NEW c, NEW kind \in Kinds, Planted(T, U, D, l, h, T2, U2, D2, l2, h2, p, name, c, kind)
  PROVE  Forest(T2, U2, D2, l2, h2)
<1> DEFINE x == <<p, name, c>>
<1>1. /\ rootInode \in D /\ D \subseteq U /\ U \subseteq Inode /\ T \subseteq D \X Names \X (U \ {rootInode})
      /\ \A n \in U \ {rootInode} : \E e \in T : e[3] = n
      /\ \A e, f \in T : e[3] = f[3] => e = f
  BY DEF Forest
<1>2. p \in D /\ name \in Names /\ c \in Inode /\ c \notin U /\ T2 = T \cup {x} /\ U2 = U \cup {c}
      /\ (D2 = IF kind = "dir" THEN D \cup {c} ELSE D) /\ (kind = "dir" => <<c, p>> \in h2)
      /\ \A n \in D, up \in Inode : <<n, up>> \in h => <<n, up>> \in h2
  BY DEF Planted
<1>3. x \in D \X Names \X {c} /\ x[1] = p /\ x[2] = name /\ x[3] = c
  BY <1>2
<1>4. \A e \in T : e[1] \in D /\ e[3] \in U \ {rootInode} /\ e[3] # c /\ e[1] # c
  BY <1>1, <1>2
<1>5. T2 \subseteq D2 \X Names \X (U2 \ {rootInode})
  <2>1. D \subseteq D2 /\ c # rootInode
    BY <1>1, <1>2
  <2>2. T \subseteq D2 \X Names \X (U2 \ {rootInode})
    BY <1>1, <1>2, <2>1
  <2>3. x \in D2 \X Names \X (U2 \ {rootInode})
    BY <1>2, <2>1
  <2> HIDE DEF x
  <2> QED BY <1>2, <2>2, <2>3
<1> HIDE DEF x
<1>6. (\A n \in U2 \ {rootInode} : \E e \in T2 : e[3] = n) /\ \A e, f \in T2 : e[3] = f[3] => e = f
  BY <1>1, <1>2, <1>3, <1>4
<1>7. \A n \in D2 : \E up \in Inode : /\ <<n, up>> \in h2 /\ (n = rootInode => up = rootInode)
                                      /\ n # rootInode => \E a \in Names : <<up, a, n>> \in T2
  <2> SUFFICES ASSUME NEW n \in D2
               PROVE  \E up \in Inode : /\ <<n, up>> \in h2 /\ (n = rootInode => up = rootInode)
                                        /\ n # rootInode => \E a \in Names : <<up, a, n>> \in T2
    OBVIOUS
  <2>1. CASE n \in D
    <3>1. PICK up \in Inode : /\ <<n, up>> \in h /\ (n = rootInode => up = rootInode)
                              /\ n # rootInode => \E a \in Names : <<up, a, n>> \in T
      BY <2>1 DEF Forest
    <3>2. \A a : <<up, a, n>> \in T => <<up, a, n>> \in T2
      BY <1>2
    <3>3. <<n, up>> \in h2
      BY <2>1, <3>1 DEF Planted
    <3>4. (n = rootInode => up = rootInode) /\ (n # rootInode => \E a \in Names : <<up, a, n>> \in T2)
      BY <3>1, <3>2
    <3> QED BY <3>3, <3>4
  <2>2. CASE n \notin D
    <3>1. n = c /\ kind = "dir"
      BY <1>2, <2>2
    <3>2. p \in Inode /\ c # rootInode /\ <<p, name, c>> \in T2
      BY <1>1, <1>2 DEF x
    <3> QED BY <1>2, <3>1, <3>2
  <2> QED BY <2>1, <2>2
<1>8. \A n : n # p => Subs(T2, D2, n) = Subs(T, D, n)
  BY <1>2, <1>3, <1>4 DEF Subs
<1>9. Subs(T, D, c) = {} /\ c # p
  BY <1>1, <1>2, <1>4 DEF Subs
<1>10. Subs(T2, D2, p) = IF kind = "dir" THEN Subs(T, D, p) \cup {x} ELSE Subs(T, D, p)
  BY <1>1, <1>2, <1>3, <1>4 DEF Subs
<1>11. Cardinality(Subs(T2, D2, p)) = Cardinality(Subs(T, D, p)) + Links(kind)
  <2>1. IsFiniteSet(Subs(T, D, p)) /\ Cardinality(Subs(T, D, p)) \in Nat /\ x \notin Subs(T, D, p)
    <3>1. x \notin Subs(T, D, p)
      BY <1>3, <1>4 DEF Subs
    <3> QED BY <3>1, ForestFinite
  <2> QED BY <1>10, <2>1, FS_AddElement DEF Links
<1>12. \A n \in U2 : l2[n] = IF n \in D2 THEN 2 + Cardinality(Subs(T2, D2, n)) ELSE 1
  <2> SUFFICES ASSUME NEW n \in U2 PROVE l2[n] = IF n \in D2 THEN 2 + Cardinality(Subs(T2, D2, n)) ELSE 1
    OBVIOUS
  <2>1. CASE n = c
    <3>1. Cardinality(Subs(T2, D2, n)) = 0
      BY <1>8, <1>9, <2>1, FS_EmptySet
    <3>2. l2[c] = IF kind = "dir" THEN 2 ELSE 1
      BY DEF Planted
    <3>3. c \in D2 <=> kind = "dir"
      BY <1>1, <1>2
    <3> QED BY <2>1, <3>1, <3>2, <3>3
  <2>2. CASE n = p
    <3>1. l[p] = 2 + Cardinality(Subs(T, D, p)) /\ Cardinality(Subs(T, D, p)) \in Nat /\ l2[p] = l[p] + Links(kind)
      <4>1. l2[p] = l[p] + Links(kind)
        BY DEF Planted
      <4>2. l[p] = 2 + Cardinality(Subs(T, D, p))
        BY <1>1, <1>2 DEF Forest
      <4> QED BY <4>1, <4>2, ForestFinite
    <3>2. p \in D2 /\ Links(kind) \in Nat
      BY <1>2 DEF Links
    <3> QED BY <1>11, <2>2, <3>1, <3>2
  <2>3. CASE n # c /\ n # p
    <3>1. n \in U /\ l2[n] = l[n] /\ (n \in D2 <=> n \in D)
      BY <1>2, <2>3 DEF Planted
    <3>2. l[n] = IF n \in D THEN 2 + Cardinality(Subs(T, D, n)) ELSE 1
      BY <3>1 DEF Forest
    <3> QED BY <1>8, <2>3, <3>1, <3>2
  <2> QED BY <2>1, <2>2, <2>3
<1>13. rootInode \in D2 /\ D2 \subseteq U2 /\ U2 \subseteq Inode
  BY <1>1, <1>2
<1> QED BY <1>5, <1>6, <1>7, <1>12, <1>13 DEF Forest

\* Inode c, which has no entries, is taken out of directory p.
Pulled(T, U, D, l, h, T2, U2, D2, l2, h2, p, name, c, kind) ==
  /\ <<p, name, c>> \in T /\ (kind = "dir" <=> c \in D) /\ (\A e \in T : e[1] # c)
  /\ T2 = T \ {<<p, name, c>>} /\ U2 = U \ {c} /\ D2 = D \ {c}
  /\ (\A n \in U2 : n # p => l2[n] = l[n]) /\ l2[p] = l[p] - Links(kind)
  /\ \A n \in D2, up \in Inode : <<n, up>> \in h => <<n, up>> \in h2

LEMMA ForestShrinks ==
  ASSUME NEW T, NEW U, NEW D, NEW l, NEW h, Forest(T, U, D, l, h), NEW T2, NEW U2, NEW D2, NEW l2, NEW h2,
         NEW p, NEW name, NEW c, NEW kind, Pulled(T, U, D, l, h, T2, U2, D2, l2, h2, p, name, c, kind)
  PROVE  Forest(T2, U2, D2, l2, h2)
<1> DEFINE x == <<p, name, c>>
<1>1. /\ rootInode \in D /\ D \subseteq U /\ U \subseteq Inode /\ T \subseteq D \X Names \X (U \ {rootInode})
      /\ \A n \in U \ {rootInode} : \E e \in T : e[3] = n
      /\ \A e, f \in T : e[3] = f[3] => e = f
  BY DEF Forest
<1>2. x \in T /\ (kind = "dir" <=> c \in D) /\ (\A e \in T : e[1] # c) /\ T2 = T \ {x} /\ U2 = U \ {c} /\ D2 = D \ {c}
      /\ \A n \in D2, up \in Inode : <<n, up>> \in h => <<n, up>> \in h2
  BY DEF Pulled
<1>3. x[1] = p /\ x[3] = c
  OBVIOUS
<1>30. c # rootInode /\ c \in U /\ p \in D /\ p # c
  BY <1>1, <1>2, <1>3
<1> HIDE DEF x
<1>4. \A e \in T2 : e \in T /\ e[1] \in D2 /\ e[3] # c
  BY <1>1, <1>2, <1>3
<1>5. T2 \subseteq D2 \X Names \X (U2 \ {rootInode})
  <2> SUFFICES ASSUME NEW e \in T2 PROVE e \in D2 \X Names \X (U2 \ {rootInode})
    OBVIOUS
  <2>1. e \in D \X Names \X (U \ {rootInode}) /\ e[1] \in D2 /\ e[3] # c
    BY <1>1, <1>4
  <2> QED BY <1>2, <2>1
<1>6. (\A n \in U2 \ {rootInode} : \E e \in T2 : e[3] = n) /\ \A e, f \in T2 : e[3] = f[3] => e = f
  BY <1>1, <1>2, <1>3
<1>7. \A n \in D2 : \E up \in Inode : /\ <<n, up>> \in h2 /\ (n = rootInode => up = rootInode)
                                      /\ n # rootInode => \E a \in Names : <<up, a, n>> \in T2
  <2> SUFFICES ASSUME NEW n \in D2
               PROVE  \E up \in Inode : /\ <<n, up>> \in h2 /\ (n = rootInode => up = rootInode)
                                        /\ n # rootInode => \E a \in Names : <<up, a, n>> \in T2
    OBVIOUS
  <2>1. PICK up \in Inode : /\ <<n, up>> \in h /\ (n = rootInode => up = rootInode)
                            /\ n # rootInode => \E a \in Names : <<up, a, n>> \in T
    BY <1>2 DEF Forest
  <2>2. n # c
    BY <1>2
  <2>3. \A a : <<up, a, n>> \in T => <<up, a, n>> \in T2
    <3> SUFFICES ASSUME NEW a, <<up, a, n>> \in T PROVE <<up, a, n>> \in T2
      OBVIOUS
    <3>1. <<up, a, n>> # x
      BY <1>3, <2>2
    <3> QED BY <1>2, <3>1
  <2>4. <<n, up>> \in h2
    BY <2>1 DEF Pulled
  <2>5. (n = rootInode => up = rootInode) /\ (n # rootInode => \E a \in Names : <<up, a, n>> \in T2)
    BY <2>1, <2>3
  <2> QED BY <2>4, <2>5
<1>8. \A n : n # p => Subs(T2, D2, n) = Subs(T, D, n)
  <2> SUFFICES ASSUME NEW n, n # p PROVE Subs(T2, D2, n) = Subs(T, D, n)
    OBVIOUS
  <2> QED BY <1>1, <1>2, <1>3, <1>4 DEF Subs
<1>9. Subs(T2, D2, p) = (IF kind = "dir" THEN Subs(T, D, p) \ {x} ELSE Subs(T, D, p))
      /\ (kind = "dir" => x \in Subs(T, D, p))
  BY <1>1, <1>2, <1>3, <1>4 DEF Subs
<1>10. Cardinality(Subs(T, D, p)) \in Nat
       /\ Cardinality(Subs(T2, D2, p)) = Cardinality(Subs(T, D, p)) - Links(kind)
  <2>1. IsFiniteSet(Subs(T, D, p)) /\ Cardinality(Subs(T, D, p)) \in Nat
    BY ForestFinite
  <2> HIDE DEF Subs
  <2> QED BY <1>9, <2>1, FS_RemoveElement DEF Links
<1>11. \A n \in U2 : l2[n] = IF n \in D2 THEN 2 + Cardinality(Subs(T2, D2, n)) ELSE 1
  <2> SUFFICES ASSUME NEW n \in U2 PROVE l2[n] = IF n \in D2 THEN 2 + Cardinality(Subs(T2, D2, n)) ELSE 1
    OBVIOUS
  <2>1. CASE n = p
    <3>1. l[p] = 2 + Cardinality(Subs(T, D, p)) /\ l2[p] = l[p] - Links(kind) /\ p \in D2
      BY <1>1, <1>2, <1>30 DEF Forest, Pulled
    <3>2. Links(kind) \in Nat
      BY DEF Links
    <3> QED BY <1>10, <2>1, <3>1, <3>2
  <2>2. CASE n # p
    <3>1. n \in U /\ n # c /\ l2[n] = l[n] /\ (n \in D2 <=> n \in D)
      BY <1>2, <2>2 DEF Pulled
    <3>2. l[n] = IF n \in D THEN 2 + Cardinality(Subs(T, D, n)) ELSE 1
      BY <3>1 DEF Forest
    <3> QED BY <1>8, <2>2, <3>1, <3>2
  <2> QED BY <2>1, <2>2
<1>12. rootInode \in D2 /\ D2 \subseteq U2 /\ U2 \subseteq Inode
  BY <1>1, <1>2, <1>30
<1> QED BY <1>5, <1>6, <1>7, <1>11, <1>12 DEF Forest

\* The entries of directories D, which list pairs of a name and an inode in E.
KidsOf(D, E) == {e \in D \X Names \X Inode : <<e[2], e[3]>> \in E[e[1]]}
EntOf(v)   == [n \in Inode |-> Ent(v, n)]
Kids(v)    == KidsOf(Dirs(v), EntOf(v))
LinksOf(v) == [n \in Inode |-> v.table[n].links]
HeadsOf(v) == {h \in Inode \X Inode : Listed(v, h[1], h[2])}

\* Directory p has the name of c in F, and c may be a new directory.
OneMore(D, E, D2, F, p, name, c) ==
  /\ D \in SUBSET Inode /\ p \in D /\ name \in Names /\ c \in Inode /\ c \notin D
  /\ (\A n \in D : n # p => F[n] = E[n]) /\ F[p] = E[p] \cup {<<name, c>>}
  /\ D2 = D \/ (D2 = D \cup {c} /\ \E up : F[c] = {<<".", c>>, <<"..", up>>})

LEMMA KidsGrow ==
  ASSUME NEW D, NEW E, NEW D2, NEW F, NEW p, NEW name, NEW c, OneMore(D, E, D2, F, p, name, c)
  PROVE  KidsOf(D2, F) = KidsOf(D, E) \cup {<<p, name, c>>}
<1>0. /\ D \in SUBSET Inode /\ p \in D /\ name \in Names /\ c \in Inode /\ c \notin D
      /\ (\A n \in D : n # p => F[n] = E[n]) /\ F[p] = E[p] \cup {<<name, c>>}
      /\ D2 = D \/ (D2 = D \cup {c} /\ \E up : F[c] = {<<".", c>>, <<"..", up>>})
  BY DEF OneMore
<1>1. \A e \in D \X Names \X Inode : e \in KidsOf(D2, F) <=> e \in KidsOf(D, E) \cup {<<p, name, c>>}
  <2> SUFFICES ASSUME NEW e \in D \X Names \X Inode
               PROVE  <<e[2], e[3]>> \in F[e[1]] <=> <<e[2], e[3]>> \in E[e[1]] \/ e = <<p, name, c>>
    BY <1>0 DEF KidsOf
  <2>1. e = <<e[1], e[2], e[3]>>
    OBVIOUS
  <2>2. CASE e[1] # p
    BY <1>0, <2>1, <2>2
  <2>3. CASE e[1] = p
    BY <1>0, <2>1, <2>3
  <2> QED BY <2>2, <2>3
<1>2. \A e \in KidsOf(D2, F) : e \in D \X Names \X Inode
  <2> SUFFICES ASSUME NEW e \in KidsOf(D2, F), e[1] = c PROVE FALSE
    BY <1>0 DEF KidsOf
  <2>1. PICK up : F[c] = {<<".", c>>, <<"..", up>>}
    BY <1>0 DEF KidsOf
  <2>2. e[2] \in Names /\ <<e[2], e[3]>> \in F[c]
    BY DEF KidsOf
  <2>3. e[2] \in {".", ".."}
    BY <2>1, <2>2
  <2> QED BY <2>2, <2>3, Ext4Assumption
<1>3. KidsOf(D, E) \cup {<<p, name, c>>} \subseteq D \X Names \X Inode
  BY <1>0 DEF KidsOf
<1> QED BY <1>1, <1>2, <1>3

\* Directory p has no longer the name of c in F, and c had no names.
OneLess(D, E, F, p, name, c) ==
  /\ D \in SUBSET Inode /\ p \in D
  /\ (\A n \in D : n # p => F[n] = E[n]) /\ F[p] = E[p] \ {<<name, c>>}
  /\ \A e \in KidsOf(D, E) : e[1] # c

LEMMA KidsShrink ==
  ASSUME NEW D, NEW E, NEW F, NEW p, NEW name, NEW c, OneLess(D, E, F, p, name, c)
  PROVE  KidsOf(D \ {c}, F) = KidsOf(D, E) \ {<<p, name, c>>}
<1>0. /\ D \in SUBSET Inode /\ p \in D
      /\ (\A n \in D : n # p => F[n] = E[n]) /\ F[p] = E[p] \ {<<name, c>>}
      /\ \A e \in KidsOf(D, E) : e[1] # c
  BY DEF OneLess
<1>1. \A e \in D \X Names \X Inode :
        <<e[2], e[3]>> \in F[e[1]] <=> <<e[2], e[3]>> \in E[e[1]] /\ e # <<p, name, c>>
  <2> SUFFICES ASSUME NEW e \in D \X Names \X Inode
               PROVE  <<e[2], e[3]>> \in F[e[1]] <=> <<e[2], e[3]>> \in E[e[1]] /\ e # <<p, name, c>>
    OBVIOUS
  <2>1. e = <<e[1], e[2], e[3]>>
    OBVIOUS
  <2>2. CASE e[1] # p
    BY <1>0, <2>1, <2>2
  <2>3. CASE e[1] = p
    BY <1>0, <2>1, <2>3
  <2> QED BY <2>2, <2>3
<1>2. \A e : e \in (D \ {c}) \X Names \X Inode <=> e \in D \X Names \X Inode /\ e[1] # c
  OBVIOUS
<1> QED BY <1>0, <1>1, <1>2 DEF KidsOf

\* The inode bitmap, the names and the link counts tell one tree.
Treed(v) == v.inodes = Used(v) /\ Forest(Kids(v), Used(v), Dirs(v), LinksOf(v), HeadsOf(v))
Sound(v) == World(v, {}) /\ Counted(v, Dirs(v)) /\ Treed(v)

\* From v to w the texts may change, and nothing else.
Kept(v, w) ==
  /\ World(w, {}) /\ w.inodes = v.inodes /\ RecountsIn(v, w)
  /\ \A n \in Inode : w.table[n].kind = v.table[n].kind /\ w.table[n].links = v.table[n].links
  /\ \A n \in Inode : v.table[n].kind = "dir" =>
       Ent(w, n) = Ent(v, n) /\ \A up \in Inode : Listed(v, n, up) => Listed(w, n, up)

LEMMA KeptSound ==
  ASSUME NEW v, NEW w, Sound(v), Kept(v, w)
  PROVE  Sound(w) /\ Kids(w) = Kids(v) /\ Used(w) = Used(v)
<1>1. Used(w) = Used(v) /\ Dirs(w) = Dirs(v) /\ LinksOf(w) = LinksOf(v)
  BY DEF Kept, Used, Dirs, LinksOf
<1>2. Kids(w) = Kids(v)
  <2>1. Dirs(v) \subseteq Inode /\ \A n \in Dirs(v) : EntOf(w)[n] = EntOf(v)[n]
    BY DEF Kept, Dirs, EntOf
  <2> QED BY <1>1, <2>1 DEF Kids, KidsOf
<1>3. \A n \in Dirs(v), up \in Inode : <<n, up>> \in HeadsOf(v) => <<n, up>> \in HeadsOf(w)
  BY DEF Kept, Dirs, HeadsOf
<1>4. Forest(Kids(w), Used(w), Dirs(w), LinksOf(w), HeadsOf(w))
  BY <1>1, <1>2, <1>3, ForestKeeps DEF Sound, Treed
<1>5. Counted(w, Dirs(w))
  <2>1. Dirs(v) \in SUBSET v.inodes
    BY DEF Sound, Treed, Dirs, Used
  <2> QED BY <1>1, <2>1 DEF Kept, RecountsIn, Sound
<1> QED BY <1>1, <1>2, <1>4, <1>5 DEF Sound, Treed, Kept

LEMMA RestoredKept ==
  ASSUME NEW v, NEW w, World(v, {}), Restored(v, w)
  PROVE  Kept(v, w)
<1>1. \A n \in Inode : w.table[n] = v.table[n]
  BY DEF Restored, Same
<1>2. \A n \in Inode : Ent(w, n) = Ent(v, n) /\ \A up : Listed(v, n, up) => Listed(w, n, up)
  BY SameLines DEF World, Restored
<1> QED BY <1>1, <1>2 DEF Restored, Kept

LEMMA FileKept ==
  ASSUME NEW v, NEW w, NEW n \in Inode, World(v, {}), v.table[n].kind = "file", FileStep(v, w, n)
  PROVE  Kept(v, w)
<1>1. \A m \in Inode : w.table[m].kind = v.table[m].kind /\ w.table[m].links = v.table[m].links
  BY DEF FileStep, Others, Same
<1>2. \A m \in Inode : v.table[m].kind = "dir" =>
        Ent(w, m) = Ent(v, m) /\ \A up \in Inode : Listed(v, m, up) => Listed(w, m, up)
  BY SameLines DEF World, FileStep, Others
<1> QED BY <1>1, <1>2 DEF FileStep, Kept, Recounts, RecountsIn

\* An unused inode has no kind, and the other way round.
LEMMA UsedIn ==
  ASSUME NEW v, Sound(v)
  PROVE  /\ v.inodes = Used(v) /\ v \in Volume /\ Dirs(v) \subseteq Used(v) /\ Used(v) \subseteq Inode
         /\ \A n \in Inode : Whole(v, v.table[n]) /\ v.table[n] \in NodeType
         /\ Counted(v, Dirs(v)) /\ Forest(Kids(v), Used(v), Dirs(v), LinksOf(v), HeadsOf(v))
BY DEF Sound, Treed, World, Whole, Shaped, Used, Dirs

LEMMA MadeSound ==
  ASSUME NEW v, NEW w, Sound(v), NEW p \in Inode, v.table[p].kind = "dir", NEW name \in Names, NEW c,
         NEW kind \in Kinds, Made(v, w, p, name, c, kind, Links(kind)), NoName(v, p, name)
  PROVE  /\ Sound(w) /\ Kids(w) = Kids(v) \cup {<<p, name, c>>} /\ Used(w) = Used(v) \cup {c}
         /\ c \in Inode \ Used(v) /\ p \in Dirs(v)
<1>1. /\ World(w, {}) /\ c \in Inode \ v.inodes /\ c # rootInode /\ p # c /\ w.inodes = v.inodes \cup {c}
      /\ CountsWith(v, w, c, kind = "dir")
      /\ \A m \in Inode : m # c /\ m # p => Same(v, w, m)
      /\ w.table[p].kind = "dir" /\ w.table[p].links = v.table[p].links + Links(kind)
      /\ Enters(v, w, p, name, c)
      /\ w.table[c].kind = kind /\ w.table[c].links = (IF kind = "dir" THEN 2 ELSE 1)
      /\ kind = "dir" => Listed(w, c, p) /\ Ent(w, c) = {<<".", c>>, <<"..", p>>}
  BY DEF Made
<1>2. /\ v.inodes = Used(v) /\ v \in Volume /\ Dirs(v) \subseteq Used(v) /\ Used(v) \subseteq Inode
      /\ \A n \in Inode : Whole(v, v.table[n]) /\ v.table[n] \in NodeType
      /\ Counted(v, Dirs(v)) /\ Forest(Kids(v), Used(v), Dirs(v), LinksOf(v), HeadsOf(v))
  BY UsedIn
<1> DEFINE U2 == Used(v) \cup {c}
           D2 == IF kind = "dir" THEN Dirs(v) \cup {c} ELSE Dirs(v)
<1>3. \A m \in Inode : m # c => w.table[m].kind = v.table[m].kind
  BY <1>1 DEF Same
<1>4. Used(w) = U2 /\ Dirs(w) = D2 /\ c \notin Used(v) /\ p \in Dirs(v)
  BY <1>1, <1>2, <1>3 DEF Used, Dirs, Kinds
<1>5. \A m \in Dirs(v) : m # p => Ent(w, m) = Ent(v, m) /\ \A up : Listed(v, m, up) => Listed(w, m, up)
  <2> SUFFICES ASSUME NEW m \in Dirs(v), m # p
               PROVE  Ent(w, m) = Ent(v, m) /\ \A up : Listed(v, m, up) => Listed(w, m, up)
    OBVIOUS
  <2>1. m \in Inode /\ Same(v, w, m)
    BY <1>1, <1>2, <1>4
  <2> QED BY <1>2, <2>1, SameLines
<1>6. Ent(w, p) = Ent(v, p) \cup {<<name, c>>} /\ \A up \in Inode : Listed(v, p, up) => Listed(w, p, up)
  BY <1>1 DEF Enters
<1>7. Kids(w) = Kids(v) \cup {<<p, name, c>>}
  <2> DEFINE D == Dirs(v)
             E == EntOf(v)
             F == EntOf(w)
  <2>1. D \in SUBSET Inode /\ p \in D /\ c \in Inode /\ c \notin D
    BY <1>1, <1>2, <1>4
  <2>2. (\A n \in D : n # p => F[n] = E[n]) /\ F[p] = E[p] \cup {<<name, c>>}
    BY <1>5, <1>6, <2>1 DEF EntOf
  <2>3. D2 = D \/ (D2 = D \cup {c} /\ \E up : F[c] = {<<".", c>>, <<"..", up>>})
    BY <1>1, <2>1 DEF EntOf
  <2> HIDE DEF D, E, F, D2
  <2>30. OneMore(D, E, D2, F, p, name, c)
    BY <2>1, <2>2, <2>3 DEF OneMore
  <2>4. KidsOf(D2, F) = KidsOf(D, E) \cup {<<p, name, c>>}
    BY <2>30, KidsGrow
  <2> QED BY <1>4, <2>4 DEF Kids, D, E, F
<1>8. Planted(Kids(v), Used(v), Dirs(v), LinksOf(v), HeadsOf(v), Kids(w), Used(w), Dirs(w), LinksOf(w), HeadsOf(w),
              p, name, c, kind)
  <2>1. (\A n \in Used(v) : n # p => LinksOf(w)[n] = LinksOf(v)[n]) /\ LinksOf(w)[p] = LinksOf(v)[p] + Links(kind)
        /\ LinksOf(w)[c] = (IF kind = "dir" THEN 2 ELSE 1)
    BY <1>1, <1>2 DEF LinksOf, Same
  <2>2. \A n \in Dirs(v), up \in Inode : <<n, up>> \in HeadsOf(v) => <<n, up>> \in HeadsOf(w)
    BY <1>5, <1>6 DEF HeadsOf
  <2>3. kind = "dir" => <<c, p>> \in HeadsOf(w)
    BY <1>1 DEF HeadsOf
  <2> QED BY <1>1, <1>4, <1>7, <2>1, <2>2, <2>3 DEF Planted
<1>9. Forest(Kids(w), Used(w), Dirs(w), LinksOf(w), HeadsOf(w))
  BY <1>2, <1>8, ForestGrows
<1>10. Counted(w, Dirs(w))
  BY <1>1, <1>2, <1>4 DEF CountsWith
<1>11. w.inodes = Used(w)
  BY <1>1, <1>2, <1>4
<1> QED BY <1>1, <1>4, <1>7, <1>9, <1>10, <1>11 DEF Sound, Treed

\* A directory that dirIsEmpty finds empty.
LEMMA EmptyDir ==
  ASSUME NEW v, NEW n, Folder(v, n), dirIsEmpty(v, n)
  PROVE  \A q \in Ent(v, n) : q[1] \in {".", ".."}
<1> SUFFICES ASSUME NEW q \in Ent(v, n) PROVE q[1] \in {".", ".."}
  OBVIOUS
<1>1. PICK k \in 1 .. Len(List(v, n)) : q \in Pairs(Line(v, n, k))
  BY DEF Ent
<1>2. PICK i \in LiveAt(Line(v, n, k)) : q = <<Line(v, n, k)[i].name, Line(v, n, k)[i].ino>>
  BY <1>1 DEF Pairs
<1> DEFINE b == List(v, n)[k]
           p == [block |-> b, index |-> i]
<1>3. b \in Block /\ Line(v, n, k) \in Seq(RecType)
  BY <1>1, FolderIn
<1>4. i \in 1 .. Len(Line(v, n, k)) /\ i \in Nat /\ Line(v, n, k)[i].ino # none
  BY <1>2, <1>3 DEF LiveAt
<1>5. IsPlace(v, n, p)
  BY <1>1, <1>3, <1>4 DEF IsPlace, PlaceIn
<1>6. At(v, p) = Line(v, n, k)[i]
  BY DEF At, Line
<1>7. p \in ToSet(Positions(v, n))
  BY <1>5, PositionsAre
<1> HIDE DEF p
<1>8. At(v, p).name \in {".", ".."}
  BY <1>4, <1>6, <1>7 DEF dirIsEmpty
<1> QED BY <1>2, <1>6, <1>8

\* From v to w directory p has lost a file or directory, and gets delta links.
Gone(v, w, p, name, c, dir, delta) ==
  /\ World(w, {}) /\ w.inodes = v.inodes \ {c}
  /\ \A K : (c \in K <=> dir) /\ Counted(v, K) => Counted(w, K \ {c})
  /\ \A m \in Inode : m # c /\ m # p => Same(v, w, m)
  /\ w.table[c] = NoInode /\ w.table[p].kind = "dir" /\ w.table[p].links = v.table[p].links + delta
  /\ Drops(v, w, p, name, c)

LEMMA EraseSpec ==
  ASSUME NEW d, Live(d), Ok(d), World(d.v, {}), NEW p \in Inode, d.v.table[p].kind = "dir", NEW name,
         NEW found, NEW c \in Inode, found.ino = c, EntryIs(d.v, p, found.pos, name, c), p # c, c # rootInode,
         c \in d.v.inodes, NEW e, e = Erase(d, found, d.v.table[c])
  PROVE  Live(e) /\ Ok(e) /\ e.set = d.set /\ Gone(d.v, e.v, p, name, c, d.v.table[c].kind = "dir", 0)
<1> DEFINE v == d.v
           node == v.table[c]
           dir == node.kind = "dir"
           r == removeEntry(d, found.pos)
           f == FreeBlocksOf(r, node)
<1>1. e = freeInode(f, c, dir) /\ dir \in BOOLEAN
  BY DEF Erase
<1>2. Live(r) /\ Ok(r) /\ r.set = d.set /\ Parts(v, r.v, p, name, c)
  BY RemoveEntrySpec
<1> HIDE DEF r
<1>3. /\ World(r.v, {}) /\ r.v.inodes = v.inodes /\ Recounts(v, r.v) /\ Others(v, r.v, p) /\ r.v.table = v.table
      /\ Drops(v, r.v, p, name, c)
  BY <1>2 DEF Parts
<1>4. Bare(NoInode) /\ NoInode.kind = "none" /\ node = r.v.table[c]
  BY <1>3, NewFile DEF NoInode
<1>5. f = FreeBlocksOf(r, r.v.table[c])
  BY <1>4
<1> HIDE DEF f, node
<1>6. /\ Live(f) /\ Ok(f) /\ World(View(f.v, c, NoInode), {}) /\ Others(r.v, f.v, c) /\ f.v.table = r.v.table
      /\ f.v.inodes = r.v.inodes /\ Recounts(r.v, f.v) /\ f.set = r.set
  BY <1>2, <1>3, <1>4, <1>5, FreedWorld
<1> HIDE DEF dir
<1>7. Wipes(f, e, c, dir)
  BY <1>1, <1>6, FreeInodeSpec
<1>8. World(e.v, {}) /\ e.v.table[c] = NoInode /\ Others(f.v, e.v, c) /\ e.v.inodes = f.v.inodes \ {c}
  BY <1>6, <1>7, WipedWorld, SMTT(40)
<1>9. /\ Live(e) /\ Ok(e) /\ e.set = f.set
      /\ c \in f.v.inodes => \A K : (c \in K <=> dir) /\ Counted(f.v, K) => Counted(e.v, K \ {c})
  BY <1>7 DEF Wipes, Steps
<1>10. \A K : (c \in K <=> dir) /\ Counted(v, K) => Counted(e.v, K \ {c})
  BY <1>3, <1>6, <1>9 DEF Recounts
<1>11. Others(r.v, e.v, c)
  BY <1>3, <1>6, <1>8, OthersMore
<1>12. \A m \in Inode : m # c /\ m # p => Same(v, e.v, m)
  BY <1>3, <1>11, SameMore DEF Others
<1>13. Same(r.v, e.v, p) /\ r.v \in Volume /\ Whole(r.v, r.v.table[p])
  BY <1>3, <1>11 DEF Others, World
<1>14. Ent(e.v, p) = Ent(r.v, p) /\ \A up : Listed(r.v, p, up) => Listed(e.v, p, up)
  BY <1>13, SameLines
<1>15. Drops(v, e.v, p, name, c)
  BY <1>3, <1>14 DEF Drops
<1>16. e.v.table[p] = v.table[p] /\ v.table[p].links \in Nat
  <2>1. v.table[p] \in NodeType
    BY DEF World, Whole, Shaped
  <2> QED BY <1>3, <1>13, <2>1 DEF Same, NodeType
<1>17. e.v.table[p].links = v.table[p].links + 0
  BY <1>16
<1>18. e.v.inodes = v.inodes \ {c}
  BY <1>3, <1>6, <1>8
<1>19. e.v.table[p].kind = "dir"
  BY <1>16, Zenon
<1>20. Gone(v, e.v, p, name, c, dir, 0)
  BY <1>8, <1>10, <1>12, <1>15, <1>17, <1>18, <1>19, Zenon DEF Gone
<1> QED BY <1>2, <1>6, <1>9, <1>20 DEF dir, node

LEMMA GoneLinked ==
  ASSUME NEW v, World(v, {}), NEW q, NEW w, NEW p \in Inode, NEW name, NEW c \in Inode, p # c,
         Gone(v, q, p, name, c, TRUE, 0), v.table[p].links >= 1, Relinks(q, w, p, -1)
  PROVE  Gone(v, w, p, name, c, TRUE, -1)
<1>1. /\ World(q, {}) /\ q.inodes = v.inodes \ {c}
      /\ \A K : (c \in K <=> TRUE) /\ Counted(v, K) => Counted(q, K \ {c})
      /\ \A m \in Inode : m # c /\ m # p => Same(v, q, m)
      /\ q.table[c] = NoInode /\ q.table[p].kind = "dir" /\ q.table[p].links = v.table[p].links + 0
      /\ Drops(v, q, p, name, c)
  BY DEF Gone
<1>2. /\ World(w, {}) /\ w.inodes = q.inodes /\ Recounts(q, w) /\ Others(q, w, p) /\ w.data = q.data
      /\ SameTree(q.table[p], w.table[p])
      /\ q.table[p].links + -1 >= 0 => w.table[p].links = q.table[p].links + -1
  BY DEF Relinks
<1>3. \A K : (c \in K <=> TRUE) /\ Counted(v, K) => Counted(w, K \ {c})
  BY <1>1, <1>2 DEF Recounts
<1>4. \A m \in Inode : m # c /\ m # p => Same(v, w, m)
  BY <1>1, <1>2, SameMore DEF Others
<1>5. w.table[p].links = v.table[p].links + -1
  <2>1. v.table[p].links \in Nat
    BY DEF World, Whole, Shaped, NodeType
  <2> QED BY <1>1, <1>2, <2>1
<1>6. w.table[p].kind = "dir" /\ w.table[c] = NoInode
  BY <1>1, <1>2 DEF SameTree, Others, Same
<1>7. Drops(v, w, p, name, c)
  <2>1. Ent(w, p) = Ent(q, p) /\ \A up : Listed(q, p, up) <=> Listed(w, p, up)
    BY <1>2, RelinkLines
  <2> QED BY <1>1, <2>1 DEF Drops
<1> QED BY <1>1, <1>2, <1>3, <1>4, <1>5, <1>6, <1>7 DEF Gone

\* From v to w the tree has lost a leaf.
Pruned(v, w, p, name, c) ==
  Sound(w) /\ Kids(w) = Kids(v) \ {<<p, name, c>>} /\ Used(w) = Used(v) \ {c} /\ <<p, name, c>> \in Kids(v)

LEMMA GoneSound ==
  ASSUME NEW v, NEW w, Sound(v), NEW p \in Inode, v.table[p].kind = "dir", NEW name \in Names, NEW c \in Inode,
         NEW kind \in Kinds, v.table[c].kind = kind, <<name, c>> \in Ent(v, p), \A e \in Kids(v) : e[1] # c,
         Gone(v, w, p, name, c, kind = "dir", -Links(kind))
  PROVE  Pruned(v, w, p, name, c)
<1>1. /\ World(w, {}) /\ w.inodes = v.inodes \ {c}
      /\ \A K : (c \in K <=> kind = "dir") /\ Counted(v, K) => Counted(w, K \ {c})
      /\ \A m \in Inode : m # c /\ m # p => Same(v, w, m)
      /\ w.table[c] = NoInode /\ w.table[p].kind = "dir" /\ w.table[p].links = v.table[p].links + -Links(kind)
      /\ Drops(v, w, p, name, c)
  BY DEF Gone
<1>2. /\ v.inodes = Used(v) /\ v \in Volume /\ Dirs(v) \subseteq Used(v) /\ Used(v) \subseteq Inode
      /\ \A n \in Inode : Whole(v, v.table[n]) /\ v.table[n] \in NodeType
      /\ Counted(v, Dirs(v)) /\ Forest(Kids(v), Used(v), Dirs(v), LinksOf(v), HeadsOf(v))
  BY UsedIn
<1>3. p \in Dirs(v) /\ c \in Used(v) /\ (c \in Dirs(v) <=> kind = "dir")
  BY DEF Dirs, Used, Kinds
<1>4. <<p, name, c>> \in Kids(v) /\ p # c
  <2>1. <<p, name, c>> \in Dirs(v) \X Names \X Inode
    BY <1>3
  <2>2. <<p, name, c>> \in Kids(v)
    BY <2>1 DEF Kids, KidsOf, EntOf
  <2>3. <<p, name, c>>[1] = p
    OBVIOUS
  <2> QED BY <2>2, <2>3
<1>5. \A m \in Inode : m # c => w.table[m].kind = v.table[m].kind
  BY <1>1 DEF Same
<1>6. Used(w) = Used(v) \ {c} /\ Dirs(w) = Dirs(v) \ {c}
  BY <1>1, <1>2, <1>5 DEF Used, Dirs, NoInode
<1>7. \A m \in Dirs(v) : m # p /\ m # c => Ent(w, m) = Ent(v, m) /\ \A up : Listed(v, m, up) => Listed(w, m, up)
  <2> SUFFICES ASSUME NEW m \in Dirs(v), m # p, m # c
               PROVE  Ent(w, m) = Ent(v, m) /\ \A up : Listed(v, m, up) => Listed(w, m, up)
    OBVIOUS
  <2>1. m \in Inode /\ Same(v, w, m)
    BY <1>1, <1>2
  <2> QED BY <1>2, <2>1, SameLines
<1>8. name \notin {".", ".."}
  BY Ext4Assumption
<1>9. Ent(w, p) = Ent(v, p) \ {<<name, c>>} /\ \A up \in Inode : Listed(v, p, up) => Listed(w, p, up)
  <2>1. PICK up \in Inode : <<p, up>> \in HeadsOf(v)
    BY <1>2, <1>3 DEF Forest
  <2>2. Listed(v, p, up)
    BY <2>1 DEF HeadsOf
  <2> QED BY <1>1, <1>8, <2>2 DEF Drops
<1>10. Kids(w) = Kids(v) \ {<<p, name, c>>}
  <2> DEFINE D == Dirs(v)
             E == EntOf(v)
             F == [EntOf(w) EXCEPT ![c] = E[c]]
  <2>1. D \in SUBSET Inode /\ p \in D
    BY <1>2, <1>3
  <2>2. (\A n \in D : n # p => F[n] = E[n]) /\ F[p] = E[p] \ {<<name, c>>}
    BY <1>4, <1>7, <1>9, <2>1 DEF EntOf
  <2>3. KidsOf(D \ {c}, F) = KidsOf(D \ {c}, EntOf(w))
    <3>1. \A n \in D \ {c} : F[n] = EntOf(w)[n]
      BY <2>1 DEF EntOf
    <3> QED BY <3>1 DEF KidsOf
  <2>4. \A e \in KidsOf(D, E) : e[1] # c
    BY DEF Kids
  <2> HIDE DEF D, E, F
  <2>5. OneLess(D, E, F, p, name, c)
    BY <2>1, <2>2, <2>4 DEF OneLess
  <2>6. KidsOf(D \ {c}, F) = KidsOf(D, E) \ {<<p, name, c>>}
    BY <2>5, KidsShrink
  <2> QED BY <1>6, <2>3, <2>6 DEF Kids, D, E
<1>11. Pulled(Kids(v), Used(v), Dirs(v), LinksOf(v), HeadsOf(v), Kids(w), Used(w), Dirs(w), LinksOf(w), HeadsOf(w),
              p, name, c, kind)
  <2>1. (\A n \in Used(w) : n # p => LinksOf(w)[n] = LinksOf(v)[n])
    BY <1>1, <1>2, <1>6 DEF LinksOf, Same
  <2>2. LinksOf(w)[p] = LinksOf(v)[p] - Links(kind)
    <3>1. v.table[p].links \in Nat /\ Links(kind) \in Nat
      BY <1>2 DEF NodeType, Links
    <3> QED BY <1>1, <3>1 DEF LinksOf
  <2>3. \A n \in Dirs(w), up \in Inode : <<n, up>> \in HeadsOf(v) => <<n, up>> \in HeadsOf(w)
    BY <1>6, <1>7, <1>9 DEF HeadsOf
  <2> QED BY <1>3, <1>4, <1>6, <1>10, <2>1, <2>2, <2>3 DEF Pulled
<1>12. Forest(Kids(w), Used(w), Dirs(w), LinksOf(w), HeadsOf(w))
  BY <1>2, <1>11, ForestShrinks
<1>13. Counted(w, Dirs(w)) /\ w.inodes = Used(w)
  BY <1>1, <1>2, <1>3, <1>6
<1> QED BY <1>1, <1>4, <1>6, <1>10, <1>12, <1>13 DEF Sound, Treed, Pruned

--------------------------------------------------------------------------------
(* Commands *)

\* A command ends with a sound volume, and has marked it if it changed it.
Done(d, e) == Live(e) /\ Sound(e.v) /\ (e.set \/ (e.v = d.v /\ e.set = d.set))

LEMMA SoundWorld ==
  ASSUME NEW v, Sound(v)
  PROVE  World(v, {}) /\ v \in Volume
BY DEF Sound, World

\* The clean bit is in no inode, bitmap or counter.
Cleaned(v, b) == [v EXCEPT !.clean = b]

LEMMA CleanSound ==
  ASSUME NEW v, Sound(v), NEW b \in BOOLEAN
  PROVE  /\ Sound(Cleaned(v, b)) /\ Cleaned(v, b).table = v.table /\ Cleaned(v, b).data = v.data
         /\ Cleaned(v, b).clean = b
<1> DEFINE w == Cleaned(v, b)
<1>1. World(v, {}) /\ v \in Volume
  BY SoundWorld
<1>2. /\ w \in Volume /\ w.table = v.table /\ w.data = v.data /\ w.inodes = v.inodes /\ w.blocks = v.blocks
      /\ w.groups = v.groups /\ w.free = v.free /\ w.clean = b
  BY <1>1 DEF Volume, Cleaned
<1> HIDE DEF w
<1>3. Frame(v, w, {}, {}) /\ Recounts(v, w)
  BY <1>1, <1>2 DEF Frame, Agree, Recounts, Counted, World
<1>4. Sound(w)
  BY <1>1, <1>3, FrameStays, StaysRestored, RestoredKept, KeptSound
<1> QED BY <1>2, <1>4 DEF w

Marked(d, m) == /\ Live(m) /\ Ok(m) /\ m.set /\ Sound(m.v)
                /\ m.v.table = d.v.table /\ m.v.data = d.v.data

LEMMA MarkSpec ==
  ASSUME NEW d, Live(d), Ok(d), Sound(d.v), NEW m, m = markDirty(d)
  PROVE  Marked(d, m)
<1>1. CASE d.set
  BY <1>1 DEF markDirty, Marked
<1>2. CASE ~d.set
  <2> DEFINE w == Cleaned(d.v, FALSE)
             x == Put(d, w)
  <2>1. m = [x EXCEPT !.set = Ok(x)]
    BY <1>2 DEF markDirty, MarkSet, Cleaned
  <2>2. Sound(w) /\ w.table = d.v.table /\ w.data = d.v.data
    BY CleanSound
  <2> HIDE DEF w
  <2>3. Does(d, x, w)
    BY <2>2, PutDoes, SoundWorld
  <2> HIDE DEF x
  <2>4. Live(x) /\ Ok(x) /\ x.v = w
    BY <2>3 DEF Does, Ok
  <2>5. m = [x EXCEPT !.set = TRUE]
    BY <2>1, <2>4
  <2>6. Live(m) /\ m.v = x.v /\ m.status = x.status /\ m.set
    BY <2>4, <2>5 DEF Live, Runs
  <2> QED BY <2>2, <2>4, <2>6 DEF Marked, Ok
<1> QED BY <1>1, <1>2

LEMMA MarkedLines ==
  ASSUME NEW d, NEW m, Marked(d, m)
  PROVE  /\ \A n : Ent(m.v, n) = Ent(d.v, n)
         /\ \A n, name, f : Finds(d.v, n, name, f) => Finds(m.v, n, name, f)
<1>1. \A n : List(m.v, n) = List(d.v, n) /\ Ent(m.v, n) = Ent(d.v, n)
  BY RelinkLines DEF Marked, SameTree
<1>2. \A n, k : Line(m.v, n, k) = Line(d.v, n, k)
  BY <1>1 DEF Line, Marked
<1> QED BY <1>1, <1>2 DEF Finds, EntryIs, NoName, Marked

\* A name of a directory leads to an inode in use.
LEMMA FoundUsed ==
  ASSUME NEW v, Sound(v), NEW n \in Inode, NEW name \in Names, NEW f, Finds(v, n, name, f), f.status = "ok"
  PROVE  /\ f.ino \in v.inodes /\ v.table[f.ino].kind \in Kinds /\ f.ino \in Inode \ {rootInode}
         /\ v.table[n].kind = "dir" /\ EntryIs(v, n, f.pos, name, f.ino) /\ <<name, f.ino>> \in Ent(v, n)
         /\ v.table[n].links >= 1
<1>1. /\ v.table[n].kind = "dir" /\ EntryIs(v, n, f.pos, name, f.ino)
      /\ f.ino \in Inode /\ <<name, f.ino>> \in Ent(v, n)
  BY DEF Finds
<1>2. <<n, name, f.ino>> \in Kids(v)
  <2>1. <<n, name, f.ino>> \in Dirs(v) \X Names \X Inode
    BY <1>1 DEF Dirs
  <2> QED BY <1>1, <2>1 DEF Kids, KidsOf, EntOf
<1>20. Forest(Kids(v), Used(v), Dirs(v), LinksOf(v), HeadsOf(v)) /\ Used(v) = v.inodes
  BY UsedIn
<1>3. f.ino \in Used(v) \ {rootInode} /\ Used(v) = v.inodes
  <2>1. <<n, name, f.ino>> \in Dirs(v) \X Names \X (Used(v) \ {rootInode})
    BY <1>2, <1>20 DEF Forest
  <2> QED BY <1>20, <2>1
<1>4. v.table[f.ino].kind \in Kinds
  <2>1. v.table[f.ino] \in NodeType /\ v.table[f.ino].kind # "none"
    BY <1>1, <1>3, UsedIn DEF Used
  <2> QED BY <2>1 DEF NodeType, Kinds
<1>5. v.table[n].links >= 1
  <2>1. n \in Dirs(v) /\ LinksOf(v)[n] = v.table[n].links
    BY <1>1 DEF Dirs, LinksOf
  <2>2. LinksOf(v)[n] = 2 + Cardinality(Subs(Kids(v), Dirs(v), n))
    BY <1>20, <2>1 DEF Forest
  <2>3. Cardinality(Subs(Kids(v), Dirs(v), n)) \in Nat
    BY <1>20, ForestFinite
  <2> QED BY <2>1, <2>2, <2>3
<1> QED BY <1>1, <1>3, <1>4, <1>5

\* makeNode on a volume marked dirty.
LEMMA MakeDone ==
  ASSUME NEW d, NEW m, Marked(d, m), NEW p \in Inode, NEW name \in Names, NEW f, Finds(d.v, p, name, f),
         f.status = "notFound", NEW kind \in Kinds, NEW e, e = makeNode(m, p, name, kind)
  PROVE  Live(e) /\ e.set /\ Sound(e.v) /\ (Ok(e) => e.out \in Inode /\ e.v.table[e.out].kind = kind)
<1>1. Live(m) /\ Ok(m) /\ m.set /\ Sound(m.v) /\ World(m.v, {})
  BY SoundWorld DEF Marked
<1>10. Finds(m.v, p, name, f)
  BY MarkedLines
<1>2. m.v.table[p].kind = "dir" /\ NoName(m.v, p, name)
  BY <1>10 DEF Finds
<1>3. Makes(m, e, p, name, kind)
  BY <1>1, <1>2, MakeNodeSpec
<1>4. CASE ~Ok(e)
  BY <1>1, <1>3, <1>4, RestoredKept, KeptSound DEF Makes
<1>5. CASE Ok(e)
  <2>1. Made(m.v, e.v, p, name, e.out, kind, Links(kind)) /\ Live(e) /\ e.set
    BY <1>1, <1>3, <1>5 DEF Makes
  <2>2. Sound(e.v)
    BY <1>1, <1>2, <2>1, MadeSound
  <2> QED BY <2>1, <2>2 DEF Made
<1> QED BY <1>4, <1>5

\* The text of a file, on a volume marked dirty.
LEMMA WriteDone ==
  ASSUME NEW m, Live(m), Ok(m), m.set, Sound(m.v), NEW n \in Inode, m.v.table[n].kind = "file", NEW len \in Nat,
         NEW append \in BOOLEAN, NEW e, e = WriteNode(m, n, m.v.table[n], len, append)
  PROVE  Live(e) /\ e.set /\ Sound(e.v)
<1>1. Live(e) /\ FileStep(m.v, e.v, n) /\ e.set = m.set
  BY SoundWorld, WriteNodeSpec
<1> QED BY <1>1, SoundWorld, FileKept, KeptSound

LEMMA FailDone ==
  ASSUME NEW d, NEW m, Live(m), Ok(m), Sound(m.v), m.set \/ m = d, NEW s \in Statuses
  PROVE  Done(d, Fail(m, s))
BY FailDoes DEF Done

\* What a command is given: the parent of its path, and what that has there.
Given(d, path, parent, found) ==
  /\ Live(d) /\ Ok(d) /\ d.v = vol /\ Sound(vol) /\ parent.status \in Statuses
  /\ parent.status = "ok" =>
       parent.ino \in Inode /\ Last(path.comps) \in Names /\ Finds(vol, parent.ino, Last(path.comps), found)

LEMMA FoundStatus ==
  ASSUME NEW v, NEW n, NEW name, NEW f, Finds(v, n, name, f)
  PROVE  f.status \in {"ok", "notFound", "notDirectory"} /\ f.status \in Statuses
BY DEF Finds, Statuses

LEMMA WriteFileDone ==
  ASSUME NEW d, NEW path, NEW parent, NEW found, Given(d, path, parent, found), NEW n \in Nat, NEW append \in BOOLEAN
  PROVE  Done(d, writeFile(d, path, n, append, parent, found))
<1> DEFINE m == markDirty(d)
           name == Last(path.comps)
           e == writeFile(d, path, n, append, parent, found)
<1>1. CASE parent.status # "ok"
  BY <1>1, FailDone DEF Given, writeFile
<1>2. CASE parent.status = "ok"
  <2>1. /\ Live(d) /\ Ok(d) /\ d.v = vol /\ Sound(d.v) /\ parent.ino \in Inode /\ name \in Names
        /\ Finds(d.v, parent.ino, name, found)
    BY <1>2 DEF Given
  <2>2. Marked(d, m)
    BY <2>1, MarkSpec
  <2>3. e = WriteMarked(m, path, n, append, parent, found)
    BY <1>2 DEF writeFile
  <2> HIDE DEF m, e, name
  <2>4. Live(m) /\ Ok(m) /\ m.set /\ Sound(m.v) /\ m.v.table = vol.table /\ Finds(m.v, parent.ino, name, found)
    BY <2>1, <2>2, MarkedLines DEF Marked
  <2>5. CASE found.status = "notFound"
    <3> DEFINE x == makeNode(m, parent.ino, name, "file")
    <3>1. e = WriteMade(x, n, append)
      BY <2>3, <2>4, <2>5 DEF WriteMarked, name
    <3>2. "file" \in Kinds
      BY DEF Kinds
    <3>3. Live(x) /\ x.set /\ Sound(x.v) /\ (Ok(x) => x.out \in Inode /\ x.v.table[x.out].kind = "file")
      BY <2>1, <2>2, <2>5, <3>2, MakeDone
    <3> HIDE DEF x
    <3> QED BY <3>1, <3>3, WriteDone DEF WriteMade, Done, e
  <2>6. CASE found.status = "notDirectory"
    BY <2>3, <2>4, <2>6, FailDone, FoundStatus DEF WriteMarked, e
  <2>7. CASE found.status = "ok"
    <3>1. vol.table[found.ino].kind \in Kinds /\ found.ino \in Inode
      BY <2>1, <2>7, FoundUsed
    <3>2. CASE vol.table[found.ino].kind = "dir"
      BY <2>3, <2>4, <2>7, <3>2, FailDone DEF WriteMarked, e, Statuses
    <3>3. CASE vol.table[found.ino].kind = "file"
      <4>1. e = WriteNode(m, found.ino, m.v.table[found.ino], n, append)
        BY <2>3, <2>4, <2>7, <3>3 DEF WriteMarked
      <4> QED BY <2>4, <3>1, <3>3, <4>1, WriteDone DEF Done, e
    <3> QED BY <3>1, <3>2, <3>3 DEF Kinds
  <2> QED BY <2>1, <2>5, <2>6, <2>7, FoundStatus DEF e
<1> QED BY <1>1, <1>2

LEMMA CreateFileDone ==
  ASSUME NEW d, NEW path, NEW parent, NEW found, Given(d, path, parent, found)
  PROVE  Done(d, createFile(d, path, parent, found))
<1> DEFINE e == createFile(d, path, parent, found)
<1>1. CASE parent.status # "ok"
  BY <1>1, FailDone DEF Given, createFile
<1>2. CASE parent.status = "ok"
  <2>1. /\ Live(d) /\ Ok(d) /\ Sound(d.v) /\ parent.ino \in Inode /\ Last(path.comps) \in Names
        /\ Finds(d.v, parent.ino, Last(path.comps), found)
    BY <1>2 DEF Given
  <2> HIDE DEF e
  <2>2. CASE found.status = "notFound"
    <3>1. e = makeNode(markDirty(d), parent.ino, Last(path.comps), "file") /\ "file" \in Kinds
      BY <1>2, <2>2 DEF createFile, e, Kinds
    <3>2. Live(e) /\ e.set /\ Sound(e.v)
      BY <2>1, <2>2, <3>1, MarkSpec, MakeDone
    <3> QED BY <3>2 DEF Done, e
  <2>3. CASE found.status # "notFound"
    <3>1. \E s \in Statuses : e = Fail(d, s)
      BY <1>2, <2>1, <2>3, FoundStatus DEF createFile, e, Statuses
    <3> QED BY <2>1, <3>1, FailDone DEF e
  <2> QED BY <2>2, <2>3 DEF e
<1> QED BY <1>1, <1>2

LEMMA CreateDirectoryDone ==
  ASSUME NEW d, NEW path, NEW parent, NEW found, Given(d, path, parent, found)
  PROVE  Done(d, createDirectory(d, path, parent, found))
<1> DEFINE e == createDirectory(d, path, parent, found)
           m == markDirty(d)
<1>1. CASE parent.status # "ok"
  BY <1>1, FailDone DEF Given, createDirectory
<1>2. CASE parent.status = "ok"
  <2>1. /\ Live(d) /\ Ok(d) /\ Sound(d.v) /\ parent.ino \in Inode /\ Last(path.comps) \in Names
        /\ Finds(d.v, parent.ino, Last(path.comps), found)
    BY <1>2 DEF Given
  <2>2. Marked(d, m)
    BY <2>1, MarkSpec
  <2>3. e = MakeMarked(m, path, parent, found)
    BY <1>2 DEF createDirectory
  <2> HIDE DEF e, m
  <2>4. CASE found.status = "notFound"
    <3>1. e = makeNode(m, parent.ino, Last(path.comps), "dir") /\ "dir" \in Kinds
      BY <2>2, <2>3, <2>4 DEF MakeMarked, Kinds, Marked
    <3>2. Live(e) /\ e.set /\ Sound(e.v)
      BY <2>1, <2>2, <2>4, <3>1, MakeDone
    <3> QED BY <3>2 DEF Done, e
  <2>5. CASE found.status # "notFound"
    <3>1. \E s \in Statuses : e = Fail(m, s)
      BY <2>1, <2>2, <2>3, <2>5, FoundStatus DEF MakeMarked, Marked, Statuses
    <3> QED BY <2>2, <3>1, FailDone DEF e, Marked
  <2> QED BY <2>4, <2>5 DEF e
<1> QED BY <1>1, <1>2

\* From m to x a file, or an empty directory, is gone from directory p.
Erased(m, x, p, name, c, kind) ==
  /\ Done(m, x) /\ Ok(x) /\ Gone(m.v, x.v, p, name, c, kind = "dir", -Links(kind))
  /\ Pruned(m.v, x.v, p, name, c) /\ \A y \in Kids(m.v) : y[1] # c

\* What Erase, and for a directory adjustLinks, make of a volume.
LEMMA EraseDone ==
  ASSUME NEW m, Live(m), Ok(m), m.set, Sound(m.v), NEW p \in Inode, NEW name \in Names, NEW found,
         Finds(m.v, p, name, found), found.status = "ok", NEW kind, kind = m.v.table[found.ino].kind,
         kind = "dir" => \A q \in Ent(m.v, found.ino) : q[1] \in {".", ".."}
  PROVE  LET e == Erase(m, found, m.v.table[found.ino])
         IN  Erased(m, IF kind = "file" THEN e ELSE adjustLinks(e, p, -1), p, name, found.ino, kind)
<1> DEFINE v == m.v
           c == found.ino
           e == Erase(m, found, v.table[c])
           dir == v.table[c].kind = "dir"
<1>1. /\ c \in v.inodes /\ kind \in Kinds /\ c \in Inode /\ c # rootInode
      /\ v.table[p].kind = "dir" /\ EntryIs(v, p, found.pos, name, c) /\ <<name, c>> \in Ent(v, p)
      /\ v.table[p].links >= 1
  BY FoundUsed
<1>2. \A x \in Kids(v) : x[1] # c
  <2> SUFFICES ASSUME NEW x \in Kids(v), x[1] = c PROVE FALSE
    OBVIOUS
  <2>1. x[1] \in Dirs(v) /\ x[2] \in Names /\ <<x[2], x[3]>> \in Ent(v, c)
    BY <1>1 DEF Kids, KidsOf, EntOf
  <2>2. kind = "dir" /\ <<x[2], x[3]>>[1] = x[2]
    BY <2>1 DEF Dirs
  <2>3. x[2] \in {".", ".."}
    BY <2>1, <2>2
  <2> QED BY <2>1, <2>3, Ext4Assumption
<1>3. p # c
  <2>1. <<p, name, c>> \in Dirs(v) \X Names \X Inode /\ <<p, name, c>>[1] = p
    BY <1>1 DEF Dirs
  <2>2. <<p, name, c>> \in Kids(v)
    BY <1>1, <2>1 DEF Kids, KidsOf, EntOf
  <2> QED BY <1>2, <2>1, <2>2
<1>4. Live(e) /\ Ok(e) /\ e.set = m.set /\ Gone(v, e.v, p, name, c, dir, 0) /\ World(v, {})
  BY <1>1, <1>3, EraseSpec, SoundWorld
<1> HIDE DEF v, c, e
<1>5. Sound(v) /\ m.set /\ kind = v.table[c].kind
  BY DEF v, c
<1>6. CASE kind = "file"
  <2>1. Gone(v, e.v, p, name, c, kind = "dir", -Links(kind))
    BY <1>4, <1>5, <1>6 DEF Links
  <2>2. Pruned(v, e.v, p, name, c)
    BY <1>1, <1>2, <1>5, <2>1, GoneSound, SMTT(40)
  <2>3. Erased(m, e, p, name, c, kind)
    BY <1>2, <1>4, <1>5, <2>1, <2>2 DEF Erased, Done, Pruned, v
  <2> QED BY <1>6, <2>3 DEF e, v, c
<1>7. CASE kind = "dir"
  <2> DEFINE f == adjustLinks(e, p, -1)
  <2>1. World(e.v, {}) /\ e.v.table[p].kind = "dir" /\ -1 \in Int
    BY <1>4 DEF Gone
  <2>2. Live(f) /\ Ok(f) /\ f.set = e.set /\ Relinks(e.v, f.v, p, -1)
    BY <1>4, <2>1, AdjustLinksSpec
  <2>3. Gone(v, e.v, p, name, c, TRUE, 0)
    BY <1>4, <1>5, <1>7
  <2> HIDE DEF f
  <2>4. Gone(v, f.v, p, name, c, TRUE, -1)
    BY <1>1, <1>3, <1>4, <2>2, <2>3, GoneLinked
  <2>5. Gone(v, f.v, p, name, c, kind = "dir", -Links(kind))
    BY <1>7, <2>4 DEF Links
  <2>6. Pruned(v, f.v, p, name, c)
    BY <1>1, <1>2, <1>5, <2>5, GoneSound
  <2>7. Erased(m, f, p, name, c, kind)
    BY <1>2, <1>4, <1>5, <2>2, <2>5, <2>6 DEF Erased, Done, Pruned, v
  <2> QED BY <1>7, <2>7 DEF e, v, c, f
<1> QED BY <1>1, <1>6, <1>7 DEF Kinds

LEMMA RemoveDone ==
  ASSUME NEW d, NEW path, NEW parent, NEW found, Given(d, path, parent, found)
  PROVE  Done(d, remove(d, parent, found))
<1> DEFINE m == markDirty(d)
           e == remove(d, parent, found)
           node == vol.table[found.ino]
<1>1. Live(d) /\ Ok(d) /\ d.v = vol /\ Sound(d.v) /\ parent.status \in Statuses /\ "invalidName" \in Statuses
  BY DEF Given, Statuses
<1>2. CASE parent.status # "ok" \/ found.status # "ok" \/ Protected(found.ino)
  <2>1. \E s \in Statuses : e = Fail(d, s)
    BY <1>1, <1>2, FoundStatus DEF Given, remove
  <2> QED BY <1>1, <2>1, FailDone
<1>3. CASE ~(parent.status # "ok" \/ found.status # "ok" \/ Protected(found.ino))
  <2>1. /\ parent.ino \in Inode /\ Last(path.comps) \in Names /\ Finds(d.v, parent.ino, Last(path.comps), found)
        /\ found.status = "ok"
    BY <1>1, <1>3 DEF Given
  <2>2. e = RemoveMarked(m, parent, found, node)
    BY <1>3 DEF remove
  <2>3. Marked(d, m)
    BY <1>1, MarkSpec
  <2> HIDE DEF m, e
  <2>4. /\ Live(m) /\ Ok(m) /\ m.set /\ Sound(m.v) /\ node = m.v.table[found.ino]
        /\ Finds(m.v, parent.ino, Last(path.comps), found) /\ \A n : Ent(m.v, n) = Ent(vol, n)
    BY <1>1, <2>1, <2>3, MarkedLines DEF Marked
  <2>5. node.kind \in Kinds /\ found.ino \in Inode
    BY <2>1, <2>4, FoundUsed
  <2>6. CASE node.kind = "dir" /\ ~dirIsEmpty(vol, found.ino)
    BY <2>2, <2>4, <2>6, FailDone DEF RemoveMarked, Statuses, e
  <2>7. CASE ~(node.kind = "dir" /\ ~dirIsEmpty(vol, found.ino))
    <3> DEFINE x == Erase(m, found, m.v.table[found.ino])
    <3>1. node.kind = "dir" => \A q \in Ent(m.v, found.ino) : q[1] \in {".", ".."}
      <4>1. node.kind = "dir" => Folder(vol, found.ino) /\ dirIsEmpty(vol, found.ino)
        BY <1>1, <2>5, <2>7, SoundWorld DEF Folder, World
      <4> QED BY <2>4, <4>1, EmptyDir
    <3>2. e = IF node.kind = "file" THEN x ELSE adjustLinks(x, parent.ino, -1)
      BY <2>2, <2>4, <2>5, <2>7 DEF RemoveMarked, Kinds
    <3> HIDE DEF node
    <3>3. Done(m, e)
      BY <2>1, <2>4, <3>1, <3>2, EraseDone DEF Erased
    <3> QED BY <2>4, <3>3 DEF Done, e
  <2> QED BY <2>6, <2>7 DEF e
<1> QED BY <1>2, <1>3

--------------------------------------------------------------------------------
(* Paths *)

\* What a walk along a path comes to.
Walks == [status: {"notFound", "notDirectory"}] \cup [status: {"ok"}, ino: Inode]
           \cup [status: {"ok"}, pos: PlaceIn, ino: Inode]

LEMMA WalkIn ==
  ASSUME NEW at \in Walks
  PROVE  /\ at.status \in {"ok", "notFound", "notDirectory"} /\ (at.status = "ok" => at.ino \in Inode)
         /\ \A s : [at EXCEPT !.status = s].status = s /\ (at.status = "ok" => [at EXCEPT !.status = s].ino = at.ino)
BY DEF Walks

LEMMA EntryWalks ==
  ASSUME NEW v, World(v, {}), NEW n \in Inode, NEW name
  PROVE  findEntry(v, n, name) \in Walks
<1> DEFINE f == findEntry(v, n, name)
           P == Positions(v, n)
           p0 == FirstIn(P, {p \in ToSet(P) : At(v, p).ino # none /\ At(v, p).name = name})
<1>1. Finds(v, n, name, f)
  BY FindSpec
<1>2. f = [status |-> "notDirectory"] \/ f = EntryAt(v, p0)
  BY DEF findEntry, EntryIn
<1> HIDE DEF f, p0
<1>3. CASE f = [status |-> "notDirectory"] \/ f = [status |-> "notFound"]
  BY <1>3 DEF Walks, f
<1>4. CASE f = [status |-> "ok", pos |-> p0, ino |-> At(v, p0).ino]
  <2>1. f.status = "ok" /\ f.pos = p0 /\ f.ino = At(v, p0).ino
    BY <1>4
  <2>2. p0 \in PlaceIn /\ At(v, p0).ino \in Inode
    BY <1>1, <2>1 DEF Finds, EntryIs
  <2> QED BY <1>4, <2>2 DEF Walks, f
<1> QED BY <1>2, <1>3, <1>4 DEF EntryAt

\* Where a walk is after each of the components.
WalkRun(path, comps, f) ==
  /\ f = [k \in 0 .. Len(comps) |-> IF k = 0 THEN WalkStart(path) ELSE Step(f[k - 1], comps[k])]
  /\ Walk(path, comps) = f[Len(comps)] /\ \A k \in 0 .. Len(comps) : f[k] \in Walks
Walked(path, comps) == \E f : WalkRun(path, comps, f)

LEMMA WalkSpec ==
  ASSUME Sound(vol), cwd \in Inode, NEW path, NEW comps, Len(comps) \in Nat
  PROVE  Walk(path, comps) \in Walks /\ Walked(path, comps)
<1> DEFINE N == Len(comps)
           c == WalkStart(path)
           P(f) == f = [k \in 0 .. N |-> IF k = 0 THEN c ELSE Step(f[k - 1], comps[k])]
           f0 == CHOOSE f : P(f)
           T == {n \in Nat : \E f : f = [k \in 0 .. n |-> IF k = 0 THEN c ELSE Step(f[k - 1], comps[k])]}
<1>1. c \in Walks
  BY Finite DEF Walks, WalkStart
<1>2. ASSUME NEW at \in Walks, NEW comp PROVE Step(at, comp) \in Walks
  BY WalkIn, SoundWorld, EntryWalks DEF Step
<1> HIDE DEF c
<1>3. 0 \in T
  <2> DEFINE g == [k \in 0 .. 0 |-> c]
  <2>1. g = [k \in 0 .. 0 |-> IF k = 0 THEN c ELSE Step(g[k - 1], comps[k])]
    OBVIOUS
  <2> QED BY <2>1
<1>4. ASSUME NEW n \in T PROVE n + 1 \in T
  <2>1. PICK f : f = [k \in 0 .. n |-> IF k = 0 THEN c ELSE Step(f[k - 1], comps[k])]
    OBVIOUS
  <2> DEFINE g == [k \in 0 .. n + 1 |-> IF k = n + 1 THEN Step(f[n], comps[k]) ELSE f[k]]
             h == [k \in 0 .. n + 1 |-> IF k = 0 THEN c ELSE Step(g[k - 1], comps[k])]
  <2>2. ASSUME NEW k \in 0 .. n + 1 PROVE g[k] = h[k]
    <3>1. CASE k = n + 1
      <4>1. k # 0 /\ k - 1 \in 0 .. n + 1 /\ k - 1 # n + 1 /\ k - 1 = n
        BY <3>1
      <4>2. g[k - 1] = f[n] /\ g[k] = Step(f[n], comps[k])
        BY <3>1, <4>1
      <4> QED BY <4>1, <4>2, Zenon
    <3>2. CASE k = 0
      <4>1. k # n + 1 /\ k \in 0 .. n
        BY <3>2
      <4> QED BY <2>1, <3>2, <4>1, Zenon
    <3>3. CASE k # 0 /\ k # n + 1
      <4>1. k \in 0 .. n /\ k - 1 \in 0 .. n + 1 /\ k - 1 # n + 1
        BY <3>3
      <4>2. f[k] = Step(f[k - 1], comps[k])
        BY <2>1, <3>3, <4>1, Zenon
      <4>3. g[k] = f[k] /\ g[k - 1] = f[k - 1]
        BY <3>3, <4>1, Zenon
      <4> QED BY <3>3, <4>2, <4>3, Zenon
    <3> QED BY <3>1, <3>2, <3>3
  <2>3. g = h
    BY <2>2, Zenon
  <2>4. n + 1 \in Nat
    OBVIOUS
  <2> HIDE DEF g
  <2> QED BY <2>3, <2>4
<1>5. T = Nat
  <2>1. T \in SUBSET Nat
    OBVIOUS
  <2> HIDE DEF T
  <2> QED BY <1>3, <1>4, <2>1, HandedOn
<1>6. P(f0)
  <2>1. \E f : P(f)
    BY <1>5
  <2> HIDE DEF P
  <2> QED BY <2>1
<1>7. Walk(path, comps) = f0[N]
  BY Zenon DEF Walk, f0, c, N
<1> HIDE DEF f0, T
<1> DEFINE V == {k \in Nat : k \in 0 .. N => f0[k] \in Walks}
<1>8. 0 \in V
  <2>1. 0 \in 0 .. N
    OBVIOUS
  <2> QED BY <1>1, <1>6, <2>1
<1>9. ASSUME NEW k \in V PROVE k + 1 \in V
  <2> SUFFICES ASSUME k + 1 \in 0 .. N PROVE f0[k + 1] \in Walks
    OBVIOUS
  <2>1. k \in 0 .. N /\ k + 1 # 0 /\ (k + 1) - 1 = k
    BY <1>9
  <2>2. f0[k + 1] = Step(f0[(k + 1) - 1], comps[k + 1])
    BY <1>6, <2>1, Zenon
  <2> QED BY <1>2, <1>9, <2>1, <2>2
<1>10. V = Nat
  <2>1. V \in SUBSET Nat
    OBVIOUS
  <2> HIDE DEF V
  <2> QED BY <1>8, <1>9, <2>1, HandedOn
<1>11. \A k \in 0 .. N : f0[k] \in Walks
  BY <1>10
<1>12. WalkRun(path, comps, f0)
  BY <1>6, <1>7, <1>11, Zenon DEF WalkRun, c, N
<1>13. Walked(path, comps)
  BY <1>12, Zenon DEF Walked
<1> QED BY <1>7, <1>11, <1>13

\* What the text of a path is after each of its components.
TextRun(path, f) ==
  /\ f = [k \in 0 .. Len(path.comps) |-> IF k = 0 THEN (IF path.abs THEN <<>> ELSE cwdPath)
                                         ELSE Edited(f[k - 1], path.comps[k])]
  /\ PathText(path) = f[Len(path.comps)] /\ \A k \in 0 .. Len(path.comps) : f[k] \in Seq(Names)
Spelled(path) == \E f : TextRun(path, f)

LEMMA TextSpec ==
  ASSUME cwdPath \in Seq(Names), NEW path \in Paths
  PROVE  PathText(path) \in Seq(Names) /\ Spelled(path)
<1> DEFINE N == Len(path.comps)
           S == Seq(Names)
           c == IF path.abs THEN <<>> ELSE cwdPath
           F == [x \in S \X Nat |-> IF x[2] \in 1 .. N THEN Edited(x[1], path.comps[x[2]]) ELSE x[1]]
           P(f) == f = [k \in 0 .. N |-> IF k = 0 THEN c ELSE Edited(f[k - 1], path.comps[k])]
           f0 == CHOOSE f : P(f)
<1>1. N \in Nat /\ c \in S /\ path.comps \in Seq(Names \cup {".."})
  <2>1. path.comps \in Seq(Names \cup {".."}) /\ path.abs \in BOOLEAN
    BY Ext4Assumption
  <2> QED BY <2>1, LenProperties
<1>2. ASSUME NEW s \in S, NEW k \in 1 .. N PROVE Edited(s, path.comps[k]) \in S
  <2>1. path.comps[k] \in Names \cup {".."}
    BY <1>1
  <2>2. s # <<>> => Front(s) \in S
    BY DEF Front
  <2> QED BY <2>1, <2>2 DEF Edited
<1> HIDE DEF c
<1>3. F \in [S \X Nat -> S]
  BY <1>2
<1>4. ASSUME NEW s \in S, NEW k \in 1 .. N PROVE F[<<s, k>>] = Edited(s, path.comps[k])
  <2>1. k \in Nat /\ <<s, k>> \in S \X Nat /\ <<s, k>>[1] = s /\ <<s, k>>[2] = k
    BY <1>1
  <2> QED BY <2>1, Zenon
<1> HIDE DEF F, N, S
<1>5. PICK h \in [0 .. N -> S] : IsRun(h, c, N, F)
  BY <1>1, <1>3, Iterated
<1>6. \A k \in 0 .. N : h[k] = IF k = 0 THEN c ELSE F[<<h[k - 1], k>>]
  BY <1>5, Zenon DEF IsRun
<1>7. P(h)
  <2>1. ASSUME NEW k \in 0 .. N PROVE h[k] = IF k = 0 THEN c ELSE Edited(h[k - 1], path.comps[k])
    <3>1. CASE k = 0
      BY <1>6, <3>1
    <3>2. CASE k # 0
      <4>1. k - 1 \in 0 .. N /\ k \in 1 .. N
        BY <1>1, <3>2
      <4>2. h[k - 1] \in S
        BY <4>1
      <4>3. h[k] = F[<<h[k - 1], k>>]
        BY <1>6, <3>2, Zenon
      <4> QED BY <1>4, <3>2, <4>1, <4>2, <4>3, Zenon
    <3> QED BY <3>1, <3>2
  <2>2. h = [k \in 0 .. N |-> h[k]]
    OBVIOUS
  <2> QED BY <2>1, <2>2, Zenon
<1>8. P(f0)
  <2> HIDE DEF P
  <2> QED BY <1>7
<1>9. PathText(path) = f0[N]
  BY Zenon DEF PathText, f0, c, N
<1> HIDE DEF f0
<1> DEFINE V == {k \in Nat : k \in 0 .. N => f0[k] \in S}
<1>10. 0 \in V
  <2>1. 0 \in 0 .. N
    BY <1>1
  <2>2. f0[0] = c
    BY <1>8, <2>1, Zenon
  <2> QED BY <1>1, <2>2
<1>11. ASSUME NEW k \in V PROVE k + 1 \in V
  <2> SUFFICES ASSUME k + 1 \in 0 .. N PROVE f0[k + 1] \in S
    OBVIOUS
  <2>1. k \in 0 .. N /\ k + 1 # 0 /\ (k + 1) - 1 = k /\ k + 1 \in 1 .. N
    BY <1>1, <1>11
  <2>2. f0[k + 1] = Edited(f0[(k + 1) - 1], path.comps[k + 1])
    BY <1>8, <2>1, Zenon
  <2> QED BY <1>2, <1>11, <2>1, <2>2
<1>12. V = Nat
  <2>1. V \in SUBSET Nat
    OBVIOUS
  <2> HIDE DEF V
  <2> QED BY <1>10, <1>11, <2>1, HandedOn
<1>13. N \in V /\ N \in 0 .. N
  BY <1>1, <1>12
<1>14. \A k \in 0 .. N : f0[k] \in S
  BY <1>12
<1>15. TextRun(path, f0)
  BY <1>8, <1>9, <1>14, Zenon DEF TextRun, c, N, S
<1>16. Spelled(path)
  BY <1>15, Zenon DEF Spelled
<1> QED BY <1>9, <1>13, <1>16 DEF S

\* resolveParent, and what the parent has under the last component of the path.
Resolved(path, parent, found) ==
  /\ parent.status \in Statuses
  /\ parent.status = "ok" =>
       parent.ino \in Inode /\ Last(path.comps) \in Names /\ Finds(vol, parent.ino, Last(path.comps), found)

LEMMA ParentSpec ==
  ASSUME Sound(vol), cwd \in Inode, NEW path \in Paths, NEW parent, parent = resolveParent(path)
  PROVE  Resolved(path, parent, LastIn(parent, path))
<1> DEFINE comps == path.comps
           at == Walk(path, Front(comps))
<1>1. comps \in Seq(Names \cup {".."})
  BY Ext4Assumption
<1>2. "invalidName" \in Statuses /\ {"ok", "notFound", "notDirectory"} \subseteq Statuses
  BY DEF Statuses
<1>3. CASE comps = <<>>
  BY <1>2, <1>3 DEF resolveParent, Resolved
<1>4. CASE comps # <<>>
  <2>1. Len(Front(comps)) \in Nat /\ Last(comps) \in Names \cup {".."}
    BY <1>1, <1>4 DEF Front, Last
  <2>2. at \in Walks
    BY <2>1, WalkSpec
  <2>3. parent = NotDots(at, path)
    BY <1>4 DEF resolveParent
  <2> HIDE DEF at, comps
  <2>4. CASE at.status = "ok" /\ Last(comps) = ".."
    <3>1. parent = [at EXCEPT !.status = "invalidName"]
      BY <2>3, <2>4 DEF NotDots, comps
    <3>2. parent.status = "invalidName"
      BY <2>2, <3>1, WalkIn
    <3> QED BY <1>2, <3>2 DEF Resolved
  <2>5. CASE ~(at.status = "ok" /\ Last(comps) = "..")
    <3>1. parent = at
      BY <2>3, <2>5 DEF NotDots, comps
    <3>2. CASE at.status # "ok"
      BY <1>2, <2>2, <3>1, <3>2, WalkIn DEF Resolved
    <3>3. CASE at.status = "ok"
      <4>1. parent.ino \in Inode /\ Last(path.comps) \in Names
        BY <2>1, <2>2, <2>5, <3>1, <3>3, WalkIn DEF comps
      <4>2. Finds(vol, parent.ino, Last(path.comps), LastIn(parent, path))
        BY <4>1, SoundWorld, FindSpec DEF LastIn
      <4> QED BY <1>2, <3>1, <3>3, <4>1, <4>2 DEF Resolved
    <3> QED BY <3>2, <3>3
  <2> QED BY <2>4, <2>5
<1> QED BY <1>3, <1>4

--------------------------------------------------------------------------------
(* What a sound volume gives its readers *)

LEMMA SoundBlocks ==
  ASSUME NEW v, Sound(v)
  PROVE  BlocksMatch(v)
<1>1. World(v, {})
  BY SoundWorld
<1>2. \A n \in Inode : Owned(v, n) = Owns(v, n)
  BY DEF Owned, Owns, OwnedBy
<1>3. v.blocks = UNION {Owned(v, n) : n \in Used(v)}
  <2>1. ASSUME NEW n \in Inode \ Used(v) PROVE Owns(v, n) = {}
    <3>1. v.table[n].kind = "none" /\ Whole(v, v.table[n])
      BY <1>1 DEF Used, World
    <3>2. v.table[n] = NoInode
      BY <3>1 DEF Whole
    <3>3. Mapped(v, NoInode) = <<>> /\ Leaves(NoInode) = {}
      BY DEF Mapped, Leaves, NoInode
    <3>4. ToSet(<<>>) = {}
      BY DEF ToSet
    <3> QED BY <3>2, <3>3, <3>4 DEF Owns, OwnedBy
  <2>2. v.blocks = UNION {Owns(v, n) : n \in Inode}
    BY <1>1 DEF World
  <2>3. Used(v) \subseteq Inode
    BY DEF Used
  <2> QED BY <1>2, <2>1, <2>2, <2>3
<1>4. \A n, m \in Used(v) : n # m => Owned(v, n) \cap Owned(v, m) = {}
  BY <1>1, <1>2 DEF World, Used
<1>5. ASSUME NEW n \in Used(v), NEW node, node = v.table[n], NEW mapped, mapped = Mapped(v, node)
      PROVE  /\ node.nblk = Len(mapped) + Cardinality(Leaves(node))
             /\ node.nblk = Cardinality(Owned(v, n)) /\ Len(mapped) = SizeInBlocks(node)
  <2>1. n \in Inode /\ Whole(v, node) /\ v \in Volume
    BY <1>1, <1>5 DEF Used, World
  <2>2. Shaped(v, node) /\ node.nblk = Len(mapped) + Cardinality(Leaves(node)) /\ Len(mapped) = SizeInBlocks(node)
    BY <1>5, <2>1 DEF Whole
  <2>3. Cardinality(OwnedBy(v, node)) = Len(mapped) + Cardinality(Leaves(node))
    BY <1>5, <2>1, <2>2, MappedIn
  <2> QED BY <1>5, <2>2, <2>3 DEF Owned, OwnedBy
<1> QED BY <1>3, <1>4, <1>5, Zenon DEF BlocksMatch

LEMMA SoundCounts ==
  ASSUME NEW v, Sound(v)
  PROVE  CountersMatch(v)
<1>1. v \in Volume /\ Counted(v, Dirs(v))
  BY UsedIn
<1>2. /\ \A g \in Group : v.groups[g] \in [blocks: Nat, inodes: Nat, dirs: Nat]
      /\ v.free \in [blocks: Nat, inodes: Nat]
  BY <1>1 DEF Volume, Counts
<1>3. \A g \in Group : v.groups[g] =
        [blocks |-> Cardinality(BlocksOf(g) \ v.blocks), inodes |-> Cardinality(InodesOf(g) \ v.inodes),
         dirs   |-> Cardinality(InodesOf(g) \cap Dirs(v))]
  BY <1>1, <1>2 DEF Counted
<1>4. v.free = [blocks |-> Cardinality(Block \ v.blocks), inodes |-> Cardinality(Inode \ v.inodes)]
  BY <1>1, <1>2 DEF Counted
<1> QED BY <1>3, <1>4, Zenon DEF CountersMatch

LEMMA SoundContent ==
  ASSUME NEW v, Sound(v)
  PROVE  ContentMatches(v)
<1> SUFFICES ASSUME NEW n \in Used(v), NEW k \in 1 .. SizeInBlocks(v.table[n]),
                    NEW mapped, mapped = Mapped(v, v.table[n]), NEW content, content = v.data[mapped[k]]
             PROVE  /\ k <= Len(mapped)
                    /\ IF n \in Dirs(v) THEN content.kind = "dir" /\ LengthOf(content.recs) = Slots
                       ELSE /\ content.kind = "text"
                            /\ content.units >= Min({Units, v.table[n].size - (k - 1) * Units})
  BY Zenon DEF ContentMatches
<1>1. n \in Inode /\ Whole(v, v.table[n])
  BY UsedIn
<1>2. Len(mapped) = SizeInBlocks(v.table[n]) /\ AllFilled(v, v.table[n])
  BY <1>1 DEF Whole
<1>3. Filled(content, v.table[n], k)
  BY <1>2 DEF AllFilled
<1>4. k <= Len(mapped)
  BY <1>2
<1>5. n \in Dirs(v) <=> v.table[n].kind = "dir"
  BY <1>1 DEF Dirs
<1> QED BY <1>3, <1>4, <1>5 DEF Filled

LEMMA SoundTypes ==
  ASSUME NEW v, Sound(v)
  PROVE  /\ v.blocks \subseteq Block /\ v.inodes \subseteq Inode /\ v.clean \in BOOLEAN
         /\ \A n \in Inode : LET node == v.table[n] IN
              /\ node.kind \in {"none", "file", "dir"} /\ node.depth \in {0, 1}
              /\ {node.links, node.size, node.nblk} \subseteq Nat
              /\ ToSet(node.root) \subseteq Block
              /\ IF node.depth = 0 THEN Fits(node.root, RootEntries) ELSE Len(node.root) <= RootEntries
         /\ \A b \in Block : v.data[b].kind = "leaf" => Fits(v.data[b].blocks, LeafEntries)
<1>1. v \in Volume
  BY UsedIn
<1>2. ASSUME NEW n \in Inode, NEW node, node = v.table[n]
      PROVE  /\ node.kind \in {"none", "file", "dir"} /\ node.depth \in {0, 1}
             /\ {node.links, node.size, node.nblk} \subseteq Nat
             /\ ToSet(node.root) \subseteq Block
             /\ IF node.depth = 0 THEN Fits(node.root, RootEntries) ELSE Len(node.root) <= RootEntries
  <2>1. node \in NodeType /\ Whole(v, node)
    BY <1>2, UsedIn
  <2>2. Shaped(v, node)
    BY <2>1 DEF Whole
  <2>3. ToSet(node.root) \subseteq Block
    BY <2>1 DEF NodeType, ToSet
  <2> QED BY <2>1, <2>2, <2>3 DEF NodeType, Shaped
<1>3. \A b \in Block : v.data[b].kind = "leaf" => Fits(v.data[b].blocks, LeafEntries)
  BY <1>1, LeafIn
<1> QED BY <1>1, <1>2, <1>3, Zenon DEF Volume

\* What a flattened sequence begins with.
LEMMA FlattenedFirst ==
  ASSUME NEW S, NEW seqs \in Seq(Seq(S)), Len(seqs) >= 1, NEW i \in 1 .. Len(seqs[1])
  PROVE  FlattenSeq(seqs)[i] = seqs[1][i]
<1>1. PICK h \in [0 .. Len(seqs) -> Seq(S)] : Joined(seqs, h)
  BY JoinExists
<1>2. FlattenSeq(seqs) = h[Len(seqs)]
  BY <1>1, FlattenIs
<1>3. Len(seqs) \in Nat /\ \A k \in 1 .. Len(seqs) : seqs[k] \in Seq(S)
  BY LenProperties, ElementOfSeq
<1>4. \A k \in 0 .. Len(seqs) : h[k] \in Seq(S) /\ Len(h[k]) \in Nat
  BY LenProperties
<1> DEFINE V == {k \in Nat : k + 1 <= Len(seqs) => i <= Len(h[k + 1]) /\ h[k + 1][i] = seqs[1][i]}
<1>5. 0 \in V
  <2>1. 1 \in 1 .. Len(seqs) /\ seqs[1] \in Seq(S)
    BY <1>3
  <2>2. \A k \in 1 .. Len(seqs) : h[k] = h[k - 1] \o seqs[k]
    BY <1>1, Zenon DEF Joined
  <2>3. h[1] = h[0] \o seqs[1] /\ h[0] = <<>>
    <3>1. h[1] = h[1 - 1] \o seqs[1]
      BY <2>1, <2>2, Zenon
    <3>2. 1 - 1 = 0
      OBVIOUS
    <3> QED BY <1>1, <3>1, <3>2, Zenon DEF Joined
  <2>4. h[1] = seqs[1]
    BY <2>1, <2>3, ConcatEmptySeq
  <2> QED BY <2>4
<1>6. ASSUME NEW k \in V PROVE k + 1 \in V
  <2> SUFFICES ASSUME (k + 1) + 1 <= Len(seqs)
               PROVE  i <= Len(h[(k + 1) + 1]) /\ h[(k + 1) + 1][i] = seqs[1][i]
    OBVIOUS
  <2> DEFINE s == h[k + 1]
             t == seqs[(k + 1) + 1]
  <2>1. (k + 1) + 1 \in 1 .. Len(seqs) /\ ((k + 1) + 1) - 1 = k + 1 /\ k + 1 \in 0 .. Len(seqs) /\ k + 1 <= Len(seqs)
    BY <1>3
  <2>2. h[(k + 1) + 1] = s \o t
    BY <1>1, <2>1, Zenon DEF Joined
  <2>3. s \in Seq(S) /\ t \in Seq(S) /\ i <= Len(s) /\ s[i] = seqs[1][i]
    BY <1>3, <1>4, <2>1
  <2> HIDE DEF s, t
  <2>4. i \in 1 .. Len(s)
    BY <2>3, LenProperties
  <2>5. (s \o t)[i] = s[i] /\ i <= Len(s \o t)
    BY <2>3, <2>4
  <2> QED BY <2>2, <2>3, <2>5
<1>7. V = Nat
  <2>1. V \in SUBSET Nat
    OBVIOUS
  <2> HIDE DEF V
  <2> QED BY <1>5, <1>6, <2>1, HandedOn
<1>8. Len(seqs) - 1 \in Nat /\ (Len(seqs) - 1) + 1 = Len(seqs)
  BY <1>3
<1>9. Len(seqs) - 1 \in V
  BY <1>7, <1>8
<1> QED BY <1>2, <1>8, <1>9

\* "." and ".." come first.
LEMMA FirstTwo ==
  ASSUME NEW v, NEW n, Folder(v, n), NEW up, Listed(v, n, up)
  PROVE  LET first == At(v, Positions(v, n)[1])
             second == At(v, Positions(v, n)[2])
         IN  first.name = "." /\ first.ino = n /\ second.name = ".." /\ second.ino = up
<1> DEFINE m == List(v, n)
           s == PlacesOf(v, m)
<1>1. Len(m) >= 1 /\ Heads(Line(v, n, 1), n, up)
  BY DEF Listed
<1>2. 1 \in 1 .. Len(m)
  BY <1>1, FolderIn
<1>3. /\ s \in Seq(Seq(PlaceIn)) /\ Len(s) = Len(m) /\ Positions(v, n) = FlattenSeq(s)
      /\ \A k \in 1 .. Len(m) : /\ Len(s[k]) = Len(Line(v, n, k))
                                /\ \A i \in 1 .. Len(Line(v, n, k)) : s[k][i] = [block |-> m[k], index |-> i]
  <2>1. Covers(v, n, m, s)
    BY PlacesIn, Zenon
  <2> HIDE DEF m, s
  <2> QED BY <2>1, Zenon DEF Covers
<1>4. Len(Line(v, n, 1)) >= 2 /\ Len(Line(v, n, 1)) \in Nat
  BY <1>1, <1>2, FolderIn, LenProperties DEF Heads
<1>5. 1 \in 1 .. Len(Line(v, n, 1)) /\ 2 \in 1 .. Len(Line(v, n, 1))
  BY <1>4
<1> HIDE DEF s, m
<1>6. ASSUME NEW i \in 1 .. Len(Line(v, n, 1)) PROVE At(v, Positions(v, n)[i]) = Line(v, n, 1)[i]
  <2>1. i \in 1 .. Len(s[1]) /\ s[1][i] = [block |-> m[1], index |-> i]
    BY <1>2, <1>3
  <2>2. Positions(v, n)[i] = s[1][i]
    BY <1>1, <1>3, <2>1, FlattenedFirst
  <2>3. At(v, [block |-> m[1], index |-> i]) = Line(v, n, 1)[i]
    BY DEF At, Line, m
  <2> QED BY <2>1, <2>2, <2>3
<1>7. At(v, Positions(v, n)[1]) = Line(v, n, 1)[1] /\ At(v, Positions(v, n)[2]) = Line(v, n, 1)[2]
  BY <1>5, <1>6
<1> QED BY <1>1, <1>7 DEF Heads

\* The place of a child is a live record.
LEMMA ChildPlace ==
  ASSUME NEW v, NEW n, Folder(v, n), NEW p \in ChildrenAt(v, n)
  PROVE  \E k \in 1 .. Len(List(v, n)) : /\ p = [block |-> List(v, n)[k], index |-> p.index]
                                         /\ p.index \in LiveAt(Line(v, n, k)) /\ At(v, p) = Line(v, n, k)[p.index]
                                         /\ At(v, p).name \in Names /\ At(v, p).ino \in Inode
<1>1. IsPlace(v, n, p) /\ At(v, p).ino # none /\ At(v, p).name \notin {".", ".."}
  BY PositionsAre DEF ChildrenAt
<1>2. PICK k \in 1 .. Len(List(v, n)) : p.block = List(v, n)[k] /\ p.index \in 1 .. Len(Line(v, n, k))
  BY <1>1 DEF IsPlace
<1>3. p = [block |-> List(v, n)[k], index |-> p.index]
  BY <1>1, <1>2 DEF IsPlace, PlaceIn
<1>4. At(v, p) = Line(v, n, k)[p.index]
  BY <1>2 DEF At, Line
<1>5. Line(v, n, k)[p.index] \in RecType
  BY <1>2, FolderIn
<1>6. At(v, p).name \in Names /\ At(v, p).ino \in Inode
  BY <1>1, <1>4, <1>5 DEF RecType
<1>7. p.index \in LiveAt(Line(v, n, k))
  BY <1>1, <1>2, <1>4 DEF LiveAt
<1> QED BY <1>3, <1>4, <1>6, <1>7

LEMMA ChildOnce ==
  ASSUME NEW v, NEW n, Folder(v, n), NEW up, Listed(v, n, up), NEW p \in ChildrenAt(v, n), NEW q \in ChildrenAt(v, n),
         At(v, p).name = At(v, q).name
  PROVE  p = q
<1>1. PICK k \in 1 .. Len(List(v, n)) : /\ p = [block |-> List(v, n)[k], index |-> p.index]
                                        /\ p.index \in LiveAt(Line(v, n, k)) /\ At(v, p) = Line(v, n, k)[p.index]
  BY ChildPlace
<1>2. PICK l \in 1 .. Len(List(v, n)) : /\ q = [block |-> List(v, n)[l], index |-> q.index]
                                        /\ q.index \in LiveAt(Line(v, n, l)) /\ At(v, q) = Line(v, n, l)[q.index]
  BY ChildPlace
<1>3. k = l
  <2> SUFFICES ASSUME k # l PROVE FALSE
    OBVIOUS
  <2> DEFINE x == <<At(v, p).name, At(v, p).ino>>
             y == <<At(v, q).name, At(v, q).ino>>
  <2>1. x \in Pairs(Line(v, n, k)) /\ y \in Pairs(Line(v, n, l)) /\ x[1] = y[1]
    BY <1>1, <1>2 DEF Pairs
  <2> HIDE DEF x, y
  <2> QED BY <2>1 DEF Listed, Apart
<1>4. p.index = q.index
  BY <1>1, <1>2, <1>3 DEF Listed, Distinct
<1> QED BY <1>1, <1>2, <1>3, <1>4

\* An entry of the tree, as Kids has it.
KidOf(v, e) == <<e.dir, At(v, e.at).name, At(v, e.at).ino>>

LEMMA EdgeKids ==
  ASSUME NEW v, Sound(v)
  PROVE  /\ \A e \in Edges(v) : KidOf(v, e) \in Kids(v) /\ e.dir \in Dirs(v)
         /\ \A x \in Kids(v) : \E e \in Edges(v) : KidOf(v, e) = x
         /\ \A e, f \in Edges(v) : e.dir = f.dir /\ At(v, e.at).name = At(v, f.at).name => e = f
<1>1. \A n \in Dirs(v) : n \in Inode /\ Folder(v, n)
  BY UsedIn DEF Dirs, Folder
<1>2. ASSUME NEW n \in Dirs(v) PROVE \E up \in Inode : Listed(v, n, up)
  <2>1. Forest(Kids(v), Used(v), Dirs(v), LinksOf(v), HeadsOf(v))
    BY UsedIn
  <2>2. PICK up \in Inode : <<n, up>> \in HeadsOf(v)
    BY <2>1 DEF Forest
  <2> QED BY <2>2 DEF HeadsOf
<1>3. ASSUME NEW e \in Edges(v)
      PROVE  /\ e = [dir |-> e.dir, at |-> e.at] /\ e.dir \in Dirs(v) /\ e.at \in ChildrenAt(v, e.dir)
  BY DEF Edges
<1>4. ASSUME NEW e \in Edges(v) PROVE KidOf(v, e) \in Kids(v)
  <2> DEFINE n == e.dir
             p == e.at
  <2>1. n \in Dirs(v) /\ p \in ChildrenAt(v, n) /\ n \in Inode /\ Folder(v, n)
    BY <1>1, <1>3
  <2> HIDE DEF n, p
  <2>2. PICK k \in 1 .. Len(List(v, n)) :
           /\ p.index \in LiveAt(Line(v, n, k)) /\ At(v, p) = Line(v, n, k)[p.index]
           /\ At(v, p).name \in Names /\ At(v, p).ino \in Inode
    BY <2>1, ChildPlace
  <2>3. <<At(v, p).name, At(v, p).ino>> \in Ent(v, n)
    BY <2>2 DEF Ent, Pairs
  <2>4. Ent(v, n) = EntOf(v)[n]
    BY <2>1 DEF EntOf
  <2>5. <<n, At(v, p).name, At(v, p).ino>> \in Kids(v)
    BY <2>1, <2>2, <2>3, <2>4 DEF Kids, KidsOf
  <2> QED BY <2>5 DEF KidOf, n, p
<1>5. ASSUME NEW x \in Kids(v) PROVE \E e \in Edges(v) : KidOf(v, e) = x
  <2> DEFINE n == x[1]
  <2>1. x = <<n, x[2], x[3]>> /\ n \in Dirs(v) /\ x[2] \in Names /\ x[3] \in Inode /\ <<x[2], x[3]>> \in EntOf(v)[n]
    BY DEF Kids, KidsOf
  <2> HIDE DEF n
  <2>2. <<x[2], x[3]>> \in Ent(v, n) /\ Folder(v, n)
    BY <1>1, <2>1 DEF EntOf
  <2>3. PICK k \in 1 .. Len(List(v, n)) : <<x[2], x[3]>> \in Pairs(Line(v, n, k))
    BY <2>2 DEF Ent
  <2>4. PICK i \in LiveAt(Line(v, n, k)) : Line(v, n, k)[i].name = x[2] /\ Line(v, n, k)[i].ino = x[3]
    BY <2>3 DEF Pairs
  <2> DEFINE p == [block |-> List(v, n)[k], index |-> i]
             e == [dir |-> n, at |-> p]
  <2>5. At(v, p) = Line(v, n, k)[i]
    BY DEF At, Line
  <2>6. i \in 1 .. Len(Line(v, n, k)) /\ i \in Nat /\ Line(v, n, k)[i].ino # none
    BY <2>2, <2>4, FolderIn, LenProperties DEF LiveAt
  <2>7. IsPlace(v, n, p)
    <3>1. p \in PlaceIn /\ p.block = List(v, n)[k] /\ p.index = i
      BY <2>2, <2>6, FolderIn DEF PlaceIn
    <3> HIDE DEF p
    <3> QED BY <2>6, <3>1 DEF IsPlace
  <2> HIDE DEF p
  <2>8. x[2] \notin {".", ".."}
    BY <2>1, Ext4Assumption
  <2>9. p \in ChildrenAt(v, n)
    BY <2>2, <2>4, <2>5, <2>6, <2>7, <2>8, PositionsAre DEF ChildrenAt
  <2>10. e \in Edges(v) /\ e.dir = n /\ e.at = p
    BY <2>1, <2>9 DEF Edges
  <2> HIDE DEF e
  <2>11. KidOf(v, e) = x
    BY <2>1, <2>4, <2>5, <2>10 DEF KidOf
  <2> QED BY <2>10, <2>11
<1>6. ASSUME NEW e \in Edges(v), NEW f \in Edges(v), e.dir = f.dir, At(v, e.at).name = At(v, f.at).name
      PROVE  e = f
  <2>1. e.dir \in Dirs(v) /\ e.at \in ChildrenAt(v, e.dir) /\ f.at \in ChildrenAt(v, e.dir) /\ Folder(v, e.dir)
    BY <1>1, <1>3, <1>6
  <2>2. PICK up \in Inode : Listed(v, e.dir, up)
    BY <1>2, <2>1
  <2>3. e.at = f.at
    BY <1>6, <2>1, <2>2, ChildOnce
  <2> QED BY <1>3, <1>6, <2>3
<1> QED BY <1>3, <1>4, <1>5, <1>6

LEMMA SoundNames ==
  ASSUME NEW v, Sound(v)
  PROVE  InodesMatch(v)
<1> DEFINE T == Kids(v)
           E == Edges(v)
           U == Used(v)
           D == Dirs(v)
<1>1. /\ \A e \in E : KidOf(v, e) \in T /\ e.dir \in D
      /\ \A x \in T : \E e \in E : KidOf(v, e) = x
      /\ \A e, f \in E : e.dir = f.dir /\ At(v, e.at).name = At(v, f.at).name => e = f
  BY EdgeKids
<1>2. Forest(T, U, D, LinksOf(v), HeadsOf(v)) /\ v.inodes = U /\ D \subseteq U /\ U \subseteq Inode
  BY UsedIn
<1>3. \A e : KidOf(v, e)[1] = e.dir /\ KidOf(v, e)[2] = At(v, e.at).name /\ KidOf(v, e)[3] = Target(v, e)
  BY DEF KidOf, Target
<1> HIDE DEF T, E, U, D
<1>4. /\ T \subseteq D \X Names \X (U \ {rootInode}) /\ \A n \in U \ {rootInode} : \E x \in T : x[3] = n
      /\ \A x, y \in T : x[3] = y[3] => x = y
  BY <1>2 DEF Forest
<1>5. {Target(v, e) : e \in E} = v.inodes \ {rootInode}
  <2>1. \A e \in E : Target(v, e) \in U \ {rootInode}
    BY <1>1, <1>3, <1>4
  <2>2. ASSUME NEW n \in U \ {rootInode} PROVE \E e \in E : Target(v, e) = n
    BY <1>1, <1>3, <1>4
  <2> QED BY <1>2, <2>1, <2>2
<1>6. ASSUME NEW e \in E, NEW f \in E, Target(v, e) = Target(v, f) PROVE e = f
  <2> DEFINE x == KidOf(v, e)
             y == KidOf(v, f)
  <2>1. x \in T /\ y \in T /\ x[3] = Target(v, e) /\ y[3] = Target(v, f)
    BY <1>1, <1>3, Zenon
  <2> HIDE DEF x, y
  <2>2. x = y
    BY <1>4, <1>6, <2>1
  <2>3. KidOf(v, e) = KidOf(v, f)
    BY <2>2 DEF x, y
  <2>4. e.dir = f.dir /\ At(v, e.at).name = At(v, f.at).name
    BY <1>3, <2>3, Zenon
  <2> QED BY <1>1, <2>4, Zenon
<1>7. ASSUME NEW n \in D,
             NEW first, first = At(v, Positions(v, n)[1]), NEW second, second = At(v, Positions(v, n)[2])
      PROVE  /\ first.name = "." /\ first.ino = n /\ second.name = ".."
             /\ IF n = rootInode THEN second.ino = n
                ELSE \E e \in E : Target(v, e) = n /\ e.dir = second.ino
  <2>1. PICK up \in Inode : /\ <<n, up>> \in HeadsOf(v) /\ (n = rootInode => up = rootInode)
                            /\ n # rootInode => \E name \in Names : <<up, name, n>> \in T
    BY <1>2 DEF Forest
  <2>2. Listed(v, n, up) /\ Folder(v, n)
    BY <1>2, <2>1, UsedIn DEF HeadsOf, Folder, D, Dirs
  <2>3. first.name = "." /\ first.ino = n /\ second.name = ".." /\ second.ino = up
    BY <1>7, <2>2, FirstTwo
  <2>4. ASSUME n # rootInode PROVE \E e \in E : Target(v, e) = n /\ e.dir = up
    <3>1. PICK name \in Names : <<up, name, n>> \in T
      BY <2>1, <2>4
    <3>2. PICK e \in E : KidOf(v, e) = <<up, name, n>>
      BY <1>1, <3>1
    <3>3. KidOf(v, e)[1] = up /\ KidOf(v, e)[3] = n
      BY <3>2
    <3> QED BY <1>3, <3>3, Zenon
  <2> QED BY <2>1, <2>3, <2>4
<1>8. ASSUME NEW n \in U
      PROVE  v.table[n].links = IF n \in D THEN 2 + Cardinality({e \in E : e.dir = n /\ Target(v, e) \in D}) ELSE 1
  <2> DEFINE A == {e \in E : e.dir = n /\ Target(v, e) \in D}
             B == Subs(T, D, n)
             f == [e \in A |-> KidOf(v, e)]
  <2>1. f \in Bijection(A, B)
    <3>1. ASSUME NEW e \in A PROVE f[e] \in B /\ f[e] = KidOf(v, e) /\ e \in E
      <4>1. KidOf(v, e) \in T /\ KidOf(v, e)[1] = n /\ KidOf(v, e)[3] \in D
        BY <1>1, <1>3, Zenon
      <4> QED BY <4>1 DEF Subs
    <3>2. ASSUME NEW e \in A, NEW g \in A, f[e] = f[g] PROVE e = g
      <4>1. KidOf(v, e) = KidOf(v, g) /\ e \in E /\ g \in E
        BY <3>1, <3>2
      <4>2. e.dir = g.dir /\ At(v, e.at).name = At(v, g.at).name
        BY <1>3, <4>1, Zenon
      <4> QED BY <1>1, <4>1, <4>2, Zenon
    <3>3. ASSUME NEW x \in B PROVE \E e \in A : f[e] = x
      <4>1. x \in T /\ x[1] = n /\ x[3] \in D
        BY DEF Subs
      <4>2. PICK e \in E : KidOf(v, e) = x
        BY <1>1, <4>1, Zenon
      <4>3. e.dir = n /\ Target(v, e) \in D
        BY <1>3, <4>1, <4>2, Zenon
      <4> QED BY <4>2, <4>3
    <3> HIDE DEF A, B
    <3>4. f \in [A -> B]
      BY <3>1
    <3> HIDE DEF f
    <3> QED BY <3>2, <3>3, <3>4 DEF Bijection, Injection, Surjection, IsInjective
  <2>2. IsFiniteSet(B)
    BY <1>2, ForestFinite
  <2>3. Cardinality(A) = Cardinality(B)
    <3> HIDE DEF A, B, f
    <3>1. ExistsBijection(B, A)
      BY <2>1, Fun_ExistsBijSymmetric DEF ExistsBijection
    <3> QED BY <2>2, <3>1, FS_Bijection
  <2>4. v.table[n].links = IF n \in D THEN 2 + Cardinality(B) ELSE 1
    <3>1. LinksOf(v)[n] = IF n \in D THEN 2 + Cardinality(Subs(T, D, n)) ELSE 1
      BY <1>2 DEF Forest
    <3> QED BY <1>2, <3>1 DEF LinksOf
  <2> HIDE DEF A, B
  <2>5. v.table[n].links = IF n \in D THEN 2 + Cardinality(A) ELSE 1
    BY <2>3, <2>4
  <2> QED BY <2>5 DEF A
<1>9. /\ v.inodes = U /\ \A e, f \in E : Target(v, e) = Target(v, f) => e = f
      /\ \A e, f \in E : e.dir = f.dir /\ At(v, e.at).name = At(v, f.at).name => e = f
  BY <1>1, <1>2, <1>6, Zenon
<1>10. \A n \in D :
         LET first == At(v, Positions(v, n)[1])
             second == At(v, Positions(v, n)[2])
         IN  /\ first.name = "." /\ first.ino = n /\ second.name = ".."
             /\ IF n = rootInode THEN second.ino = n ELSE \E e \in E : Target(v, e) = n /\ e.dir = second.ino
  <2> TAKE n \in D
  <2> DEFINE first == At(v, Positions(v, n)[1])
             second == At(v, Positions(v, n)[2])
  <2> HIDE DEF first, second
  <2>1. /\ first.name = "." /\ first.ino = n /\ second.name = ".."
        /\ IF n = rootInode THEN second.ino = n ELSE \E e \in E : Target(v, e) = n /\ e.dir = second.ino
    BY <1>7 DEF first, second
  <2> QED BY <2>1 DEF first, second
<1> QED BY <1>5, <1>8, <1>9, <1>10, Zenon DEF InodesMatch, E, U, D

LEMMA SoundConsistent ==
  ASSUME NEW v, Sound(v)
  PROVE  Consistent(v)
BY SoundBlocks, SoundNames, SoundCounts, SoundContent, Zenon DEF Consistent

--------------------------------------------------------------------------------
(* A new volume *)

\* How many blocks and inodes there are.
LEMMA HowMany ==
  /\ \A g \in Group : Cardinality(BlocksOf(g)) = BlocksPerGroup /\ Cardinality(InodesOf(g)) = InodesPerGroup
  /\ Cardinality(Block) = Groups * BlocksPerGroup /\ Cardinality(Inode) = Groups * InodesPerGroup
<1>1. ASSUME NEW g \in Group, NEW s \in Nat, NEW n \in Nat
      PROVE  IsFiniteSet({g * s + i : i \in 1 .. n}) /\ Cardinality({g * s + i : i \in 1 .. n}) = n
  <2> DEFINE B == {g * s + i : i \in 1 .. n}
             f == [i \in 1 .. n |-> g * s + i]
             a == g * s
  <2>1. g * s \in Nat
    BY Times DEF Group
  <2>2. \A i, j \in 1 .. n : g * s + i = g * s + j => i = j
    <3>1. a \in Nat
      BY <2>1
    <3> HIDE DEF a
    <3>2. \A i, j \in 1 .. n : a + i = a + j => i = j
      BY <3>1
    <3> QED BY <3>2 DEF a
  <2>3. f \in Bijection(1 .. n, B)
    BY <2>2 DEF Bijection, Injection, Surjection, IsInjective
  <2>4. IsFiniteSet(1 .. n) /\ Cardinality(1 .. n) = n
    BY FS_Interval
  <2>5. ExistsBijection(1 .. n, B)
    BY <2>3 DEF ExistsBijection
  <2> HIDE DEF B
  <2>6. IsFiniteSet(B) /\ Cardinality(B) = n
    BY <2>4, <2>5, FS_Bijection
  <2> QED BY <2>6 DEF B
<1>2. \A g \in Group : Cardinality(BlocksOf(g)) = BlocksPerGroup /\ Cardinality(InodesOf(g)) = InodesPerGroup
  <2>1. /\ Span \in Nat /\ BlocksPerGroup \in Nat /\ InodesPerGroup \in Nat
    BY Sizes
  <2> QED BY <1>1, <2>1, Zenon DEF BlocksOf, InodesOf
<1>3. Cardinality(Block) = Groups * BlocksPerGroup
  <2> DEFINE P == Group \X (1 .. BlocksPerGroup)
             f == [x \in P |-> x[1] * Span + x[2]]
  <2>1. IsFiniteSet(Group) /\ Cardinality(Group) = Groups
    BY Sizes, FS_Interval DEF Group
  <2>2. IsFiniteSet(1 .. BlocksPerGroup) /\ Cardinality(1 .. BlocksPerGroup) = BlocksPerGroup
    BY Sizes, FS_Interval
  <2>3. IsFiniteSet(P) /\ Cardinality(P) = Groups * BlocksPerGroup
    BY <2>1, <2>2, FS_Product
  <2>4. \A x \in P : x[1] \in Group /\ x[2] \in 1 .. BlocksPerGroup /\ f[x] = x[1] * Span + x[2]
                     /\ f[x] \in BlocksOf(x[1])
    BY DEF BlocksOf
  <2>5. ASSUME NEW x \in P, NEW y \in P, f[x] = f[y] PROVE x = y
    <3>1. x[1] = y[1]
      BY <2>4, <2>5, BlockPlace
    <3>2. x[1] * Span \in Nat
      BY <2>4, Sizes, Times DEF Group
    <3> DEFINE a == x[1] * Span
    <3>3. a \in Nat /\ a + x[2] = a + y[2] /\ x[2] \in Nat /\ y[2] \in Nat
      BY <2>4, <2>5, <3>1, <3>2, Sizes
    <3> HIDE DEF a
    <3>4. x[2] = y[2]
      BY <3>3
    <3> QED BY <3>1, <3>4
  <2>6. ASSUME NEW b \in Block PROVE \E x \in P : f[x] = b
    <3>1. PICK g \in Group, i \in 1 .. BlocksPerGroup : b = g * Span + i
      BY DEF Block, BlocksOf
    <3>2. <<g, i>> \in P /\ <<g, i>>[1] = g /\ <<g, i>>[2] = i
      OBVIOUS
    <3>3. f[<<g, i>>] = b
      BY <2>4, <3>1, <3>2, Zenon
    <3> QED BY <3>2, <3>3
  <2>7. \A x \in P : f[x] \in Block
    BY <2>4, BlockPlace
  <2>8. f \in [P -> Block]
    <3>1. f = [x \in P |-> f[x]]
      OBVIOUS
    <3> QED BY <2>7, <3>1
  <2> HIDE DEF P, f
  <2>9. ExistsBijection(P, Block)
    <3>1. f \in Bijection(P, Block)
      BY <2>5, <2>6, <2>8 DEF Bijection, Injection, Surjection, IsInjective
    <3> QED BY <3>1 DEF ExistsBijection
  <2> QED BY <2>3, <2>9, FS_Bijection
<1>4. Cardinality(Inode) = Groups * InodesPerGroup
  <2>1. Groups * InodesPerGroup \in Nat
    BY Sizes, Times
  <2> DEFINE n == Groups * InodesPerGroup
  <2>2. n \in Nat /\ Inode = 1 .. n
    BY <2>1 DEF Inode
  <2> HIDE DEF n
  <2>3. Cardinality(1 .. n) = n
    BY <2>2, FS_Interval
  <2> QED BY <2>2, <2>3 DEF n
<1> QED BY <1>2, <1>3, <1>4

\* The block and the inode of the root directory.
LEMMA FirstPlace ==
  /\ 0 \in Group /\ 1 \in Block /\ 1 \in BlocksOf(0) /\ rootInode \in InodesOf(0)
  /\ \A g \in Group : g # 0 => 1 \notin BlocksOf(g) /\ rootInode \notin InodesOf(g)
<1>1. 0 \in Group
  BY Sizes DEF Group
<1>2. 1 \in BlocksOf(0) /\ rootInode \in InodesOf(0)
  <2>1. 0 * Span = 0 /\ 0 * InodesPerGroup = 0 /\ 0 + 1 = 1 /\ 1 \in 1 .. BlocksPerGroup /\ 1 \in 1 .. InodesPerGroup
    BY Sizes
  <2>2. 1 = 0 * Span + 1 /\ 1 = 0 * InodesPerGroup + 1
    BY <2>1
  <2> QED BY <2>1, <2>2 DEF BlocksOf, InodesOf, rootInode
<1>3. 1 \in Block
  BY <1>1, <1>2, BlockPlace
<1> QED BY <1>1, <1>2, <1>3, BlockPlace, InodePlace

\* What format leaves.
Formatted(v) ==
  /\ v \in Volume /\ v.blocks = {1} /\ v.inodes = {rootInode} /\ v.clean = TRUE
  /\ v.groups = [g \in Group |->
       [blocks |-> BlocksPerGroup - (IF g = 0 THEN 1 ELSE 0),
        inodes |-> InodesPerGroup - (IF g = 0 THEN 1 ELSE 0), dirs |-> IF g = 0 THEN 1 ELSE 0]]
  /\ v.free = [blocks |-> Groups * BlocksPerGroup - 1, inodes |-> Groups * InodesPerGroup - 1]
  /\ \A n \in Inode : v.table[n] = IF n # rootInode THEN NoInode ELSE DirNode(1)
  /\ v.data[1] = Records(Dots(rootInode, rootInode))

LEMMA InitFormatted ==
  ASSUME Init
  PROVE  Formatted(vol)
<1> DEFINE gs == [g \in Group |->
              [blocks |-> BlocksPerGroup - (IF g = 0 THEN 1 ELSE 0),
               inodes |-> InodesPerGroup - (IF g = 0 THEN 1 ELSE 0), dirs |-> IF g = 0 THEN 1 ELSE 0]]
           fr == [blocks |-> Groups * BlocksPerGroup - 1, inodes |-> Groups * InodesPerGroup - 1]
           tb == [n \in Inode |-> IF n # rootInode THEN NoInode ELSE DirNode(1)]
           dt == [b \in Block |-> IF b # 1 THEN Junk ELSE Records(Dots(rootInode, rootInode))]
<1>1. vol = [blocks |-> {1}, inodes |-> {rootInode}, groups |-> gs, free |-> fr, clean |-> TRUE, table |-> tb, data |-> dt]
  BY Zenon DEF Init, DirNode, Dots
<1>2. gs \in [Group -> [blocks: Nat, inodes: Nat, dirs: Nat]]
  BY Sizes
<1>3. fr \in Counts
  <2>1. Groups * BlocksPerGroup \in Nat /\ 1 * BlocksPerGroup <= Groups * BlocksPerGroup
        /\ Groups * InodesPerGroup \in Nat /\ 1 * InodesPerGroup <= Groups * InodesPerGroup
    BY Sizes, Times
  <2> DEFINE a == Groups * BlocksPerGroup
             b == Groups * InodesPerGroup
  <2>2. a \in Nat /\ b \in Nat /\ a >= 1 /\ b >= 1
    BY <2>1, Sizes
  <2> HIDE DEF a, b
  <2>3. a - 1 \in Nat /\ b - 1 \in Nat
    BY <2>2
  <2> QED BY <2>3 DEF a, b, Counts
<1>4. tb \in [Inode -> NodeType]
  <2>1. DirNode(1) \in NodeType
    BY FirstPlace, DirNodeIn
  <2>2. NoInode \in NodeType
    BY DEF NoInode, NodeType
  <2> QED BY <2>1, <2>2
<1>5. dt \in [Block -> Content]
  <2>1. Dots(rootInode, rootInode) \in Seq(RecType)
    BY Finite, DotsIn
  <2>2. Junk \in Content /\ Records(Dots(rootInode, rootInode)) \in Content
    BY <2>1 DEF Junk, Records, Content
  <2> QED BY <2>2
<1>6. /\ \A n \in Inode : tb[n] = IF n # rootInode THEN NoInode ELSE DirNode(1)
      /\ dt[1] = Records(Dots(rootInode, rootInode))
  BY FirstPlace
<1> HIDE DEF gs, fr, tb, dt
<1>7. vol \in Volume
  BY <1>1, <1>2, <1>3, <1>4, <1>5, FirstPlace, Finite DEF Volume
<1> QED BY <1>1, <1>6, <1>7 DEF Formatted, gs, fr

LEMMA FormattedWorld ==
  ASSUME NEW v, Formatted(v)
  PROVE  /\ World(v, {}) /\ Used(v) = {rootInode} /\ Dirs(v) = {rootInode}
         /\ Listed(v, rootInode, rootInode) /\ Ent(v, rootInode) = {<<".", rootInode>>, <<"..", rootInode>>}
<1>1. /\ v \in Volume /\ v.blocks = {1} /\ v.inodes = {rootInode} /\ v.data[1] = Records(Dots(rootInode, rootInode))
      /\ \A n \in Inode : v.table[n] = IF n # rootInode THEN NoInode ELSE DirNode(1)
  BY DEF Formatted
<1>2. rootInode \in Inode /\ 1 \in Block
  BY Finite, FirstPlace
<1>3. Whole(v, DirNode(1)) /\ OwnedBy(v, DirNode(1)) = {1} /\ DirNode(1).kind = "dir"
  BY <1>1, <1>2, DirNodeWhole, DirNodeIn
<1>4. Whole(v, NoInode) /\ OwnedBy(v, NoInode) = {} /\ NoInode.kind = "none"
  <2>1. Bare(NoInode)
    BY DEF Bare, NoInode, NodeType
  <2> QED BY <2>1, BareWhole DEF NoInode
<1>5. \A n \in Inode : /\ Whole(v, v.table[n]) /\ Owns(v, n) = IF n # rootInode THEN {} ELSE {1}
                       /\ v.table[n].kind = IF n # rootInode THEN "none" ELSE "dir"
  BY <1>1, <1>3, <1>4 DEF Owns
<1>6. v.blocks = (UNION {Owns(v, n) : n \in Inode}) \cup {}
  BY <1>1, <1>2, <1>5
<1>7. World(v, {})
  BY <1>1, <1>5, <1>6 DEF World
<1>8. Used(v) = {rootInode} /\ Dirs(v) = {rootInode}
  BY <1>2, <1>5 DEF Used, Dirs
<1> QED BY <1>1, <1>2, <1>7, <1>8, DirLines

LEMMA FormattedCounts ==
  ASSUME NEW v, Formatted(v)
  PROVE  Counted(v, {rootInode})
<1>1. /\ v.blocks = {1} /\ v.inodes = {rootInode}
      /\ \A g \in Group : /\ v.groups[g].blocks = BlocksPerGroup - (IF g = 0 THEN 1 ELSE 0)
                          /\ v.groups[g].inodes = InodesPerGroup - (IF g = 0 THEN 1 ELSE 0)
                          /\ v.groups[g].dirs = IF g = 0 THEN 1 ELSE 0
      /\ v.free.blocks = Groups * BlocksPerGroup - 1 /\ v.free.inodes = Groups * InodesPerGroup - 1
  BY DEF Formatted
<1>2. ASSUME NEW g \in Group
      PROVE  /\ v.groups[g].blocks = Cardinality(BlocksOf(g) \ v.blocks)
             /\ v.groups[g].inodes = Cardinality(InodesOf(g) \ v.inodes)
             /\ v.groups[g].dirs   = Cardinality(InodesOf(g) \cap {rootInode})
  <2>1. /\ Cardinality(BlocksOf(g) \ {1}) = IF 1 \in BlocksOf(g) THEN BlocksPerGroup - 1 ELSE BlocksPerGroup
        /\ Cardinality(InodesOf(g) \ {rootInode}) =
             IF rootInode \in InodesOf(g) THEN InodesPerGroup - 1 ELSE InodesPerGroup
    <3>1. /\ IsFiniteSet(BlocksOf(g)) /\ Cardinality(BlocksOf(g)) = BlocksPerGroup
          /\ IsFiniteSet(InodesOf(g)) /\ Cardinality(InodesOf(g)) = InodesPerGroup
      BY Finite, HowMany
    <3> QED BY <3>1, FS_RemoveElement
  <2>2. 1 \in BlocksOf(g) <=> g = 0
    BY FirstPlace
  <2>3. rootInode \in InodesOf(g) <=> g = 0
    BY FirstPlace
  <2>4. Cardinality(InodesOf(g) \cap {rootInode}) = IF g = 0 THEN 1 ELSE 0
    <3>1. InodesOf(g) \cap {rootInode} = IF g = 0 THEN {rootInode} ELSE {}
      BY <2>3
    <3> QED BY <3>1, FS_Singleton, FS_EmptySet
  <2> QED BY <1>1, <2>1, <2>2, <2>3, <2>4, Sizes
<1>3. Cardinality(Block \ {1}) = Groups * BlocksPerGroup - 1 /\ Cardinality(Inode \ {rootInode}) = Groups * InodesPerGroup - 1
  BY Finite, FirstPlace, HowMany, FS_RemoveElement
<1> QED BY <1>1, <1>2, <1>3 DEF Counted

LEMMA FormattedSound ==
  ASSUME NEW v, Formatted(v)
  PROVE  Sound(v)
<1> DEFINE r == rootInode
<1>1. /\ World(v, {}) /\ Used(v) = {r} /\ Dirs(v) = {r} /\ Listed(v, r, r) /\ Ent(v, r) = {<<".", r>>, <<"..", r>>}
      /\ r \in Inode /\ v.inodes = {r} /\ v.table[r] = DirNode(1) /\ 1 \in Block
  BY FormattedWorld, Finite, FirstPlace DEF Formatted
<1> HIDE DEF r
<1>2. Kids(v) = {}
  <2> SUFFICES ASSUME NEW e \in Kids(v) PROVE FALSE
    OBVIOUS
  <2>1. e[1] \in {r} /\ e[2] \in Names /\ <<e[2], e[3]>> \in EntOf(v)[e[1]]
    BY <1>1 DEF Kids, KidsOf
  <2>2. <<e[2], e[3]>> \in {<<".", r>>, <<"..", r>>}
    BY <1>1, <2>1 DEF EntOf
  <2> QED BY <2>1, <2>2, Ext4Assumption
<1>3. LinksOf(v)[r] = 2 + Cardinality(Subs({}, {r}, r))
  <2>1. DirNode(1).links = 2
    BY <1>1, DirNodeIn
  <2>2. Subs({}, {r}, r) = {} /\ Cardinality({}) = 0
    BY FS_EmptySet DEF Subs
  <2> QED BY <1>1, <2>1, <2>2, SMTT(40) DEF LinksOf
<1>4. <<r, r>> \in HeadsOf(v)
  BY <1>1 DEF HeadsOf
<1>5. Forest({}, {r}, {r}, LinksOf(v), HeadsOf(v))
  BY <1>1, <1>3, <1>4 DEF Forest, r
<1>6. Treed(v)
  BY <1>1, <1>2, <1>5 DEF Treed
<1> QED BY <1>1, <1>6, FormattedCounts DEF Sound, r

--------------------------------------------------------------------------------
(* The tree of files *)

\* Inodes U, the directories D among them, and the entries T that lead to them.
Branches(T, U, D) ==
  /\ rootInode \in D /\ D \subseteq U /\ U \subseteq Inode /\ T \subseteq D \X Names \X (U \ {rootInode})
  /\ \A n \in U \ {rootInode} : \E e \in T : e[3] = n
  /\ \A e, f \in T : e[3] = f[3] => e = f
  /\ \A e, f \in T : e[1] = f[1] /\ e[2] = f[2] => e = f

\* P has the names that lead to each inode from the root.
Spells(T, U, P) ==
  /\ P \in [U -> Seq(Names)] /\ P[rootInode] = <<>>
  /\ \A e \in T : P[e[3]] = Append(P[e[1]], e[2])

\* n is the last on the path of its entry.
Ends(T, U, D, P, n, e) ==
  /\ e \in T /\ e[3] = n /\ e[1] \in D /\ e[1] \in U /\ e[2] \in Names
  /\ P[n] = Append(P[e[1]], e[2]) /\ P[e[1]] \in Seq(Names)
  /\ Len(P[n]) = Len(P[e[1]]) + 1 /\ P[n] # <<>> /\ Front(P[n]) = P[e[1]] /\ P[n][Len(P[n])] = e[2]

LEMMA FrontAppend ==
  ASSUME NEW s \in Seq(Names), NEW x \in Names
  PROVE  /\ Append(s, x) \in Seq(Names) /\ Append(s, x) # <<>> /\ Len(Append(s, x)) = Len(s) + 1
         /\ Front(Append(s, x)) = s /\ Append(s, x)[Len(Append(s, x))] = x
<1>1. Len(s) \in Nat /\ s = [i \in 1 .. Len(s) |-> s[i]]
  OBVIOUS
<1>2. /\ Append(s, x) \in Seq(Names) /\ Append(s, x) # <<>> /\ Len(Append(s, x)) = Len(s) + 1
      /\ (\A i \in 1 .. Len(s) : Append(s, x)[i] = s[i]) /\ Append(s, x)[Len(s) + 1] = x
  BY AppendProperties
<1>3. Front(Append(s, x)) = [i \in 1 .. Len(s) |-> s[i]]
  BY <1>1, <1>2 DEF Front
<1> QED BY <1>1, <1>2, <1>3

LEMMA EndOf ==
  ASSUME NEW T, NEW U, NEW D, NEW P, Branches(T, U, D), Spells(T, U, P), NEW n \in U, n # rootInode
  PROVE  \E e : Ends(T, U, D, P, n, e)
<1>1. PICK e \in T : e[3] = n
  BY DEF Branches
<1>2. e[1] \in D /\ e[1] \in U /\ e[2] \in Names
  BY DEF Branches
<1>3. P[n] = Append(P[e[1]], e[2]) /\ P[e[1]] \in Seq(Names)
  BY <1>1, <1>2 DEF Spells
<1>4. /\ P[n] # <<>> /\ Len(P[n]) = Len(P[e[1]]) + 1
      /\ Front(P[n]) = P[e[1]] /\ P[n][Len(P[n])] = e[2]
  BY <1>2, <1>3, FrontAppend
<1> QED BY <1>1, <1>2, <1>3, <1>4 DEF Ends

\* No two inodes are found under the same names.
LEMMA PathsApart ==
  ASSUME NEW T, NEW U, NEW D, NEW P, Branches(T, U, D), Spells(T, U, P)
  PROVE  \A n, m \in U : P[n] = P[m] => n = m
<1> DEFINE V == {k \in Nat : \A n, m \in U : Len(P[n]) = k /\ P[n] = P[m] => n = m}
<1>0. \A n \in U : P[n] \in Seq(Names) /\ Len(P[n]) \in Nat
  BY DEF Spells
<1>1. 0 \in V
  <2> SUFFICES ASSUME NEW n \in U, NEW m \in U, Len(P[n]) = 0, P[n] = P[m] PROVE n = m
    OBVIOUS
  <2>1. P[n] = <<>> /\ P[m] = <<>>
    BY <1>0
  <2>2. n = rootInode /\ m = rootInode
    BY <2>1, EndOf DEF Ends
  <2> QED BY <2>2
<1>2. ASSUME NEW k \in V PROVE k + 1 \in V
  <2> SUFFICES ASSUME NEW n \in U, NEW m \in U, Len(P[n]) = k + 1, P[n] = P[m] PROVE n = m
    OBVIOUS
  <2>1. n # rootInode /\ m # rootInode
    <3>1. P[n] # <<>> /\ P[m] # <<>>
      OBVIOUS
    <3> QED BY <3>1 DEF Spells
  <2>2. PICK e : Ends(T, U, D, P, n, e)
    BY <2>1, EndOf
  <2>3. PICK f : Ends(T, U, D, P, m, f)
    BY <2>1, EndOf
  <2>4. P[e[1]] = P[f[1]] /\ e[2] = f[2]
    BY <2>2, <2>3 DEF Ends
  <2>5. e[1] = f[1]
    <3>1. e[1] \in U /\ f[1] \in U /\ Len(P[e[1]]) = k
      BY <1>0, <2>2, <2>3 DEF Ends
    <3> QED BY <1>2, <2>4, <3>1
  <2>6. e = f
    BY <2>2, <2>3, <2>4, <2>5 DEF Ends, Branches
  <2> QED BY <2>2, <2>3, <2>6 DEF Ends
<1>3. V = Nat
  <2>1. V \in SUBSET Nat
    OBVIOUS
  <2> HIDE DEF V
  <2> QED BY <1>1, <1>2, <2>1, HandedOn
<1> QED BY <1>0, <1>3

\* No path is longer than there are inodes: there is one at each level above it.
LEMMA PathsShort ==
  ASSUME NEW T, NEW U, NEW D, NEW P, Branches(T, U, D), Spells(T, U, P)
  PROVE  \A n \in U : Len(P[n]) \in 0 .. Cardinality(Inode)
<1> DEFINE f == [n \in U |-> Len(P[n])]
           L == {f[n] : n \in U}
           V == {k \in Nat : k \in L => 0 .. k \subseteq L}
<1>0. \A n \in U : f[n] = Len(P[n]) /\ f[n] \in Nat
  BY DEF Spells
<1>1. 0 \in V
  OBVIOUS
<1>2. ASSUME NEW k \in V PROVE k + 1 \in V
  <2> SUFFICES ASSUME NEW n \in U, f[n] = k + 1 PROVE 0 .. k + 1 \subseteq L
    OBVIOUS
  <2>1. n # rootInode
    BY <1>0 DEF Spells
  <2>2. PICK e : Ends(T, U, D, P, n, e)
    BY <2>1, EndOf
  <2>3. e[1] \in U /\ f[n] = f[e[1]] + 1
    BY <1>0, <2>2 DEF Ends
  <2>4. k \in L
    BY <1>0, <2>3
  <2>5. 0 .. k \subseteq L /\ k + 1 \in L
    BY <1>2, <2>4
  <2> QED BY <2>5
<1>3. V = Nat
  <2>1. V \in SUBSET Nat
    OBVIOUS
  <2> HIDE DEF V
  <2> QED BY <1>1, <1>2, <2>1, HandedOn
<1>4. IsFiniteSet(U) /\ IsFiniteSet(Inode) /\ Cardinality(U) <= Cardinality(Inode)
  BY Finite, FS_Subset DEF Branches
<1>5. IsFiniteSet(L) /\ Cardinality(L) <= Cardinality(U)
  <2>1. f \in Surjection(U, L)
    BY DEF Surjection
  <2> HIDE DEF f, L
  <2> QED BY <1>4, <2>1, FS_Surjection
<1>6. ASSUME NEW n \in U PROVE Len(P[n]) \in 0 .. Cardinality(Inode)
  <2> DEFINE k == f[n]
  <2>1. k \in Nat /\ k \in L /\ k = Len(P[n])
    BY <1>0
  <2>2. 0 .. k \subseteq L
    BY <1>3, <2>1
  <2> HIDE DEF k, L
  <2>3. Cardinality(0 .. k) = k + 1 /\ Cardinality(0 .. k) <= Cardinality(L)
    <3>1. 0 \in Int /\ k \in Int /\ ~(0 > k) /\ k - 0 + 1 = k + 1
      BY <2>1
    <3>2. Cardinality(0 .. k) = k + 1
      BY <3>1, FS_Interval
    <3> QED BY <1>5, <2>2, <3>2, FS_Subset
  <2>4. Cardinality(L) \in Nat /\ Cardinality(U) \in Nat /\ Cardinality(Inode) \in Nat
    BY <1>4, <1>5, FS_CardinalityType
  <2> QED BY <1>4, <1>5, <2>1, <2>3, <2>4
<1> QED BY <1>6

\* What a sound volume has for a tree.
LEMMA SoundBranches ==
  ASSUME NEW v, Sound(v)
  PROVE  Branches(Kids(v), Used(v), Dirs(v))
<1>1. Forest(Kids(v), Used(v), Dirs(v), LinksOf(v), HeadsOf(v))
  BY UsedIn
<1>2. ASSUME NEW e \in Kids(v), NEW f \in Kids(v), e[1] = f[1], e[2] = f[2] PROVE e = f
  <2>1. PICK x \in Edges(v) : KidOf(v, x) = e
    BY EdgeKids
  <2>2. PICK y \in Edges(v) : KidOf(v, y) = f
    BY EdgeKids
  <2>3. x.dir = y.dir /\ At(v, x.at).name = At(v, y.at).name
    BY <1>2, <2>1, <2>2 DEF KidOf
  <2>4. x = y
    BY <2>3, EdgeKids
  <2> QED BY <2>1, <2>2, <2>4
<1> QED BY <1>1, <1>2 DEF Forest, Branches

\* The children of a directory are its entries in the tree.
LEMMA ChildKids ==
  ASSUME NEW v, Sound(v), NEW n \in Dirs(v)
  PROVE  /\ \A r \in Children(v, n) : <<n, r.name, r.ino>> \in Kids(v)
         /\ \A e \in Kids(v) : e[1] = n => \E r \in Children(v, n) : r.name = e[2] /\ r.ino = e[3]
<1>1. ASSUME NEW r \in Children(v, n) PROVE <<n, r.name, r.ino>> \in Kids(v)
  <2>1. PICK p \in ChildrenAt(v, n) : r = At(v, p)
    BY DEF Children
  <2> DEFINE x == [dir |-> n, at |-> p]
  <2>2. x \in Edges(v) /\ x.dir = n /\ x.at = p
    BY <2>1 DEF Edges
  <2> HIDE DEF x
  <2>3. KidOf(v, x) \in Kids(v)
    BY <2>2, EdgeKids
  <2> QED BY <2>1, <2>2, <2>3 DEF KidOf
<1>2. ASSUME NEW e \in Kids(v), e[1] = n PROVE \E r \in Children(v, n) : r.name = e[2] /\ r.ino = e[3]
  <2>1. PICK x \in Edges(v) : KidOf(v, x) = e
    BY EdgeKids
  <2>2. x.dir = n /\ At(v, x.at).name = e[2] /\ At(v, x.at).ino = e[3]
    BY <1>2, <2>1 DEF KidOf
  <2>3. x.at \in ChildrenAt(v, n)
    BY <2>2 DEF Edges
  <2> QED BY <2>2, <2>3 DEF Children
<1> QED BY <1>1, <1>2

\* An inode under its path, and the inodes whose paths have k names.
Way(P, n)     == [path |-> P[n], ino |-> n]
Level(U, P, k) == {Way(P, n) : n \in {m \in U : Len(P[m]) = k}}

\* What the entries of the directories in S lead to.
Below(v, S) == UNION {{[path |-> Append(p.path, r.name), ino |-> r.ino] : r \in Children(v, p.ino)} :
                        p \in {q \in S : v.table[q.ino].kind = "dir"}}

LEMMA NextLevel ==
  ASSUME NEW v, Sound(v), NEW P, Spells(Kids(v), Used(v), P), NEW k \in Nat
  PROVE  Below(v, Level(Used(v), P, k)) = Level(Used(v), P, k + 1)
<1> DEFINE T == Kids(v)
           U == Used(v)
           D == Dirs(v)
<1>1. Branches(T, U, D) /\ Spells(T, U, P) /\ \A n \in U : Len(P[n]) \in Nat
  BY SoundBranches DEF Spells
<1>2. \A n \in U : v.table[n].kind = "dir" <=> n \in D
  BY DEF U, D, Used, Dirs
<1>3. /\ \A n \in D : \A r \in Children(v, n) : <<n, r.name, r.ino>> \in T
      /\ \A n \in D : \A e \in T : e[1] = n => \E r \in Children(v, n) : r.name = e[2] /\ r.ino = e[3]
  BY ChildKids
<1> HIDE DEF T, U, D
<1>4. ASSUME NEW n \in D, n \in U, Len(P[n]) = k, NEW r \in Children(v, n)
      PROVE  [path |-> Append(P[n], r.name), ino |-> r.ino] \in Level(U, P, k + 1)
  <2> DEFINE e == <<n, r.name, r.ino>>
  <2>1. e \in T /\ e[1] = n /\ e[2] = r.name /\ e[3] = r.ino
    BY <1>3
  <2> HIDE DEF e
  <2>2. r.ino \in U /\ r.name \in Names
    BY <1>1, <2>1 DEF Branches
  <2>3. P[r.ino] = Append(P[n], r.name) /\ P[n] \in Seq(Names)
    BY <1>1, <1>4, <2>1 DEF Spells
  <2>4. Len(P[r.ino]) = k + 1
    BY <1>4, <2>2, <2>3, FrontAppend
  <2> QED BY <2>2, <2>3, <2>4 DEF Level, Way
<1>5. ASSUME NEW x \in Below(v, Level(U, P, k)) PROVE x \in Level(U, P, k + 1)
  <2>1. PICK p \in Level(U, P, k) : v.table[p.ino].kind = "dir" /\
           x \in {[path |-> Append(p.path, r.name), ino |-> r.ino] : r \in Children(v, p.ino)}
    BY DEF Below
  <2>2. PICK n \in U : Len(P[n]) = k /\ p = Way(P, n)
    BY <2>1 DEF Level
  <2>3. p.path = P[n] /\ p.ino = n
    BY <2>2 DEF Way
  <2>4. n \in D
    BY <1>2, <2>1, <2>3
  <2> QED BY <1>4, <2>1, <2>2, <2>3, <2>4
<1>6. ASSUME NEW x \in Level(U, P, k + 1) PROVE x \in Below(v, Level(U, P, k))
  <2>1. PICK n \in U : Len(P[n]) = k + 1 /\ x = Way(P, n)
    BY DEF Level
  <2>2. n # rootInode
    BY <1>1, <2>1 DEF Spells
  <2>3. PICK e : Ends(T, U, D, P, n, e)
    BY <1>1, <2>2, EndOf
  <2> DEFINE p == Way(P, e[1])
  <2>4. e[1] \in U /\ Len(P[e[1]]) = k /\ e[1] \in D /\ e \in T /\ e[3] = n /\ P[n] = Append(P[e[1]], e[2])
    BY <1>1, <2>1, <2>3 DEF Ends
  <2>5. p \in Level(U, P, k) /\ p.ino = e[1] /\ p.path = P[e[1]]
    BY <2>4 DEF Level, Way
  <2>6. PICK r \in Children(v, e[1]) : r.name = e[2] /\ r.ino = e[3]
    BY <1>3, <2>4
  <2>7. x = [path |-> Append(P[e[1]], r.name), ino |-> r.ino]
    BY <2>1, <2>4, <2>6 DEF Way
  <2> HIDE DEF p
  <2>8. p \in {q \in Level(U, P, k) : v.table[q.ino].kind = "dir"}
    BY <1>2, <2>4, <2>5
  <2>9. x \in {[path |-> Append(p.path, s.name), ino |-> s.ino] : s \in Children(v, p.ino)}
    BY <2>5, <2>6, <2>7
  <2> QED BY <2>8, <2>9 DEF Below
<1> QED BY <1>5, <1>6 DEF U

LEMMA FirstLevel ==
  ASSUME NEW T, NEW U, NEW D, NEW P, Branches(T, U, D), Spells(T, U, P)
  PROVE  Level(U, P, 0) = {[path |-> <<>>, ino |-> rootInode]}
<1>1. rootInode \in U /\ P[rootInode] = <<>>
  BY DEF Branches, Spells
<1>2. ASSUME NEW n \in U, Len(P[n]) = 0 PROVE n = rootInode
  <2>1. P[n] = <<>> /\ P[n] = P[rootInode]
    BY <1>1, <1>2 DEF Spells
  <2> QED BY <1>1, <2>1, PathsApart
<1>3. Len(<<>>) = 0
  OBVIOUS
<1>4. {m \in U : Len(P[m]) = 0} = {rootInode}
  BY <1>1, <1>2, <1>3
<1> QED BY <1>1, <1>4 DEF Level, Way

\* Each inode in use is named, under its path.
LEMMA NamedIs ==
  ASSUME NEW v, Sound(v), NEW P, Spells(Kids(v), Used(v), P)
  PROVE  Named(v) = {Way(P, n) : n \in Used(v)}
<1> DEFINE C == Cardinality(Inode)
           a == {[path |-> <<>>, ino |-> rootInode]}
           U == Used(v)
           F(f) == f = [k \in 0 .. C |-> IF k = 0 THEN a ELSE Below(v, f[k - 1])]
           f0 == CHOOSE f : F(f)
           g == [k \in 0 .. C |-> Level(U, P, k)]
<1>1. Branches(Kids(v), U, Dirs(v)) /\ Spells(Kids(v), U, P) /\ C \in Nat
  BY SoundBranches, Finite, FS_CardinalityType
<1>2. Level(U, P, 0) = a
  BY <1>1, FirstLevel
<1>3. \A k \in Nat : Below(v, Level(U, P, k)) = Level(U, P, k + 1)
  BY NextLevel
<1>4. Named(v) = UNION {f0[k] : k \in 0 .. C}
  BY Zenon DEF Named, Below, f0, a, C
<1>5. \A n \in U : Len(P[n]) \in 0 .. C
  BY <1>1, PathsShort
<1> HIDE DEF C, a, U
<1>6. F(g)
  <2>1. ASSUME NEW k \in 0 .. C PROVE g[k] = IF k = 0 THEN a ELSE Below(v, g[k - 1])
    <3>1. CASE k = 0
      BY <1>2, <3>1
    <3>2. CASE k # 0
      <4>1. k - 1 \in 0 .. C /\ k - 1 \in Nat /\ (k - 1) + 1 = k
        BY <1>1, <3>2
      <4>2. g[k - 1] = Level(U, P, k - 1) /\ g[k] = Level(U, P, k)
        BY <4>1
      <4>3. Below(v, Level(U, P, k - 1)) = Level(U, P, (k - 1) + 1)
        BY <1>3, <4>1, Zenon
      <4> QED BY <3>2, <4>1, <4>2, <4>3, Zenon
    <3> QED BY <3>1, <3>2
  <2> QED BY <2>1, Zenon
<1>7. F(f0)
  <2> HIDE DEF F
  <2> QED BY <1>6
<1> HIDE DEF f0
<1> DEFINE V == {k \in Nat : k \in 0 .. C => f0[k] = g[k]}
<1>8. 0 \in V
  <2>1. 0 \in 0 .. C
    BY <1>1
  <2> QED BY <1>6, <1>7, <2>1, Zenon
<1>9. ASSUME NEW k \in V PROVE k + 1 \in V
  <2> SUFFICES ASSUME k + 1 \in 0 .. C PROVE f0[k + 1] = g[k + 1]
    OBVIOUS
  <2>1. k \in 0 .. C /\ k + 1 # 0 /\ (k + 1) - 1 = k
    BY <1>1, <1>9
  <2>2. f0[k + 1] = Below(v, f0[(k + 1) - 1])
    BY <1>7, <2>1, Zenon
  <2>3. g[k + 1] = Below(v, g[(k + 1) - 1])
    BY <1>6, <2>1, Zenon
  <2> QED BY <1>9, <2>1, <2>2, <2>3
<1>10. V = Nat
  <2>1. V \in SUBSET Nat
    OBVIOUS
  <2> HIDE DEF V
  <2> QED BY <1>8, <1>9, <2>1, HandedOn
<1>11. ASSUME NEW k \in 0 .. C PROVE f0[k] = Level(U, P, k)
  <2>1. k \in V
    <3>1. k \in Nat
      BY <1>1
    <3> HIDE DEF V
    <3> QED BY <1>10, <3>1
  <2>2. f0[k] = g[k]
    BY <2>1
  <2> QED BY <2>2
<1>12. Named(v) = UNION {Level(U, P, k) : k \in 0 .. C}
  BY <1>4, <1>11
<1>13. UNION {Level(U, P, k) : k \in 0 .. C} = {Way(P, n) : n \in U}
  BY <1>5 DEF Level
<1> QED BY <1>12, <1>13 DEF U

\* Every name of a sound volume leads to an inode in use.
LEMMA SoundNamed ==
  ASSUME NEW v, Sound(v)
  PROVE  \A p \in Named(v) : p.ino \in v.inodes /\ v.table[p.ino].kind # "none"
<1> DEFINE C == Cardinality(Inode)
           U == Used(v)
           S == SUBSET [path: Seq(Names), ino: U]
           a == {[path |-> <<>>, ino |-> rootInode]}
           F == [x \in S \X Nat |-> Below(v, x[1])]
           P(f) == f = [k \in 0 .. C |-> IF k = 0 THEN a ELSE Below(v, f[k - 1])]
           f0 == CHOOSE f : P(f)
<1>1. Branches(Kids(v), U, Dirs(v)) /\ C \in Nat /\ v.inodes = U
  BY SoundBranches, UsedIn, Finite, FS_CardinalityType
<1>2. a \in S
  <2>1. rootInode \in U /\ <<>> \in Seq(Names)
    BY <1>1 DEF Branches
  <2> QED BY <2>1
<1>3. ASSUME NEW s \in S PROVE Below(v, s) \in S
  <2> SUFFICES ASSUME NEW p \in s, v.table[p.ino].kind = "dir", NEW r \in Children(v, p.ino)
               PROVE  [path |-> Append(p.path, r.name), ino |-> r.ino] \in [path: Seq(Names), ino: U]
    BY DEF Below
  <2>1. p.path \in Seq(Names) /\ p.ino \in U
    BY <1>3
  <2>2. p.ino \in Dirs(v)
    BY <2>1 DEF Used, Dirs
  <2> DEFINE e == <<p.ino, r.name, r.ino>>
  <2>3. e \in Kids(v) /\ e[2] = r.name /\ e[3] = r.ino
    BY <2>2, ChildKids
  <2> HIDE DEF e
  <2>4. r.name \in Names /\ r.ino \in U
    BY <1>1, <2>3 DEF Branches
  <2> QED BY <2>1, <2>4, FrontAppend
<1>4. Named(v) = UNION {f0[k] : k \in 0 .. C}
  BY Zenon DEF Named, Below, f0, a, C
<1> HIDE DEF a, C, U, S
<1>5. F \in [S \X Nat -> S] /\ \A s \in S, k \in Nat : F[<<s, k>>] = Below(v, s)
  BY <1>3
<1> HIDE DEF F
<1>6. PICK h \in [0 .. C -> S] : IsRun(h, a, C, F)
  BY <1>1, <1>2, <1>5, Iterated
<1>7. P(h)
  <2>1. ASSUME NEW k \in 0 .. C PROVE h[k] = IF k = 0 THEN a ELSE Below(v, h[k - 1])
    <3>1. h[k] = IF k = 0 THEN a ELSE F[<<h[k - 1], k>>]
      BY <1>6, Zenon DEF IsRun
    <3>2. CASE k # 0
      <4>1. k - 1 \in 0 .. C /\ k \in Nat
        BY <1>1, <3>2
      <4>2. h[k - 1] \in S
        BY <4>1
      <4> QED BY <1>5, <3>1, <3>2, <4>1, <4>2, Zenon
    <3> QED BY <3>1, <3>2
  <2>2. h = [k \in 0 .. C |-> h[k]]
    OBVIOUS
  <2> QED BY <2>1, <2>2, Zenon
<1>8. P(f0)
  <2> HIDE DEF P
  <2> QED BY <1>7
<1> HIDE DEF f0
<1> DEFINE V == {k \in Nat : k \in 0 .. C => f0[k] \in S}
<1>9. 0 \in V
  <2>1. 0 \in 0 .. C
    BY <1>1
  <2> QED BY <1>2, <1>8, <2>1
<1>10. ASSUME NEW k \in V PROVE k + 1 \in V
  <2> SUFFICES ASSUME k + 1 \in 0 .. C PROVE f0[k + 1] \in S
    OBVIOUS
  <2>1. k \in 0 .. C /\ k + 1 # 0 /\ (k + 1) - 1 = k
    BY <1>1, <1>10
  <2>2. f0[k + 1] = Below(v, f0[(k + 1) - 1])
    BY <1>8, <2>1, Zenon
  <2> QED BY <1>3, <1>10, <2>1, <2>2
<1>11. V = Nat
  <2>1. V \in SUBSET Nat
    OBVIOUS
  <2> HIDE DEF V
  <2> QED BY <1>9, <1>10, <2>1, HandedOn
<1>12. ASSUME NEW p \in Named(v) PROVE p.ino \in U
  <2>1. PICK k \in 0 .. C : p \in f0[k]
    BY <1>4
  <2>2. f0[k] \in S
    <3>1. k \in V
      BY <1>1, <1>11
    <3> QED BY <3>1
  <2> QED BY <2>1, <2>2 DEF S
<1> QED BY <1>1, <1>12 DEF U, Used

\* What the tree says of an inode.
Leafage(v, n) == [dir |-> v.table[n].kind = "dir", size |-> IF v.table[n].kind = "dir" THEN 0 ELSE v.table[n].size]

\* A tree of the inodes U, whose paths are P.
Shows(t, U, P, N) == t = [p \in DOMAIN t |-> t[p]] /\ DOMAIN t = {P[n] : n \in U} /\ \A n \in U : t[P[n]] = N[n]
Nodes(v) == [n \in Used(v) |-> Leafage(v, n)]

LEMMA TreeIs ==
  ASSUME NEW v, Sound(v), NEW P, Spells(Kids(v), Used(v), P)
  PROVE  Shows(TreeOf(v), Used(v), P, Nodes(v))
<1> DEFINE U == Used(v)
           W == {Way(P, n) : n \in U}
           X == {q.path : q \in W}
           G(p) == Leafage(v, (CHOOSE q \in W : q.path = p).ino)
           t == [p \in X |-> G(p)]
<1>1. TreeOf(v) = t
  <2>1. Named(v) = W
    BY NamedIs
  <2> QED BY <2>1, Zenon DEF TreeOf, Leafage
<1>2. \A n, m \in U : P[n] = P[m] => n = m
  BY SoundBranches, PathsApart
<1>3. \A n \in U : Way(P, n).path = P[n] /\ Way(P, n).ino = n
  BY DEF Way
<1>4. X = {P[n] : n \in U}
  BY <1>3
<1>5. ASSUME NEW n \in U PROVE P[n] \in X /\ G(P[n]) = Leafage(v, n)
  <2> DEFINE q0 == CHOOSE q \in W : q.path = P[n]
  <2>1. Way(P, n) \in W /\ Way(P, n).path = P[n]
    BY <1>3
  <2> HIDE DEF W
  <2>2. q0 \in W /\ q0.path = P[n]
    BY <2>1
  <2> HIDE DEF q0
  <2>3. q0.ino = n
    <3>1. PICK m \in U : q0 = Way(P, m)
      BY <2>2 DEF W
    <3> QED BY <1>2, <1>3, <2>2, <3>1
  <2>4. P[n] \in {q.path : q \in W}
    BY <2>1
  <2> QED BY <2>3, <2>4 DEF q0
<1> HIDE DEF X, G
<1>6. DOMAIN t = {P[n] : n \in U} /\ t = [p \in DOMAIN t |-> t[p]]
  BY <1>4
<1>7. \A n \in U : t[P[n]] = Nodes(v)[n]
  BY <1>5 DEF Nodes
<1> HIDE DEF t
<1> QED BY <1>1, <1>6, <1>7 DEF Shows, U

\* One tree for the same inodes, names and nodes.
LEMMA ShowsOne ==
  ASSUME NEW U, NEW P, NEW N, NEW M, \A n \in U : M[n] = N[n], NEW t, Shows(t, U, P, N), NEW u, Shows(u, U, P, M)
  PROVE  u = t
<1>1. t = [p \in DOMAIN t |-> t[p]] /\ u = [p \in DOMAIN u |-> u[p]] /\ DOMAIN t = DOMAIN u
  BY DEF Shows
<1>2. \A p \in DOMAIN t : t[p] = u[p]
  BY DEF Shows
<1> QED BY <1>1, <1>2, Zenon

LEMMA TreeStays ==
  ASSUME NEW v, Sound(v), NEW w, Sound(w), NEW P, Spells(Kids(v), Used(v), P), Kids(w) = Kids(v),
         Used(w) = Used(v), \A n \in Used(v) : Leafage(w, n) = Leafage(v, n)
  PROVE  TreeOf(w) = TreeOf(v)
<1>1. Shows(TreeOf(v), Used(v), P, Nodes(v)) /\ Shows(TreeOf(w), Used(v), P, Nodes(w))
  BY TreeIs
<1>2. \A n \in Used(v) : Nodes(w)[n] = Nodes(v)[n]
  BY DEF Nodes
<1> QED BY <1>1, <1>2, ShowsOne

\* A path more.
LEMMA Sprouts ==
  ASSUME NEW T, NEW U, NEW D, NEW P, Branches(T, U, D), Spells(T, U, P), NEW p \in D, NEW name \in Names,
         NEW c \in Inode \ U, NEW D2, Branches(T \cup {<<p, name, c>>}, U \cup {c}, D2)
  PROVE  LET q  == Append(P[p], name)
             P2 == [n \in U \cup {c} |-> IF n = c THEN q ELSE P[n]]
         IN  Spells(T \cup {<<p, name, c>>}, U \cup {c}, P2) /\ \A n \in U : P[n] # q
<1> DEFINE x == <<p, name, c>>
           T2 == T \cup {x}
           q  == Append(P[p], name)
           P2 == [n \in U \cup {c} |-> IF n = c THEN q ELSE P[n]]
<1>1. p \in U /\ P[p] \in Seq(Names) /\ q \in Seq(Names) /\ rootInode \in U /\ rootInode # c /\ x \in T2
  BY FrontAppend DEF Branches, Spells
<1>2. ASSUME NEW n \in U, P[n] = q PROVE FALSE
  <2>1. n # rootInode
    BY <1>1, <1>2, FrontAppend DEF Spells
  <2>2. PICK e : Ends(T, U, D, P, n, e)
    BY <2>1, EndOf
  <2>3. P[e[1]] = P[p] /\ e[2] = name
    <3>1. Front(q) = P[p] /\ q[Len(q)] = name
      BY <1>1, FrontAppend
    <3> QED BY <1>2, <2>2, <3>1 DEF Ends
  <2>4. e[1] = p
    BY <1>1, <2>2, <2>3, PathsApart DEF Ends
  <2>5. x[1] = p /\ x[2] = name /\ x[3] = c /\ e \in T2
    BY <2>2 DEF Ends
  <2> HIDE DEF x, T2, q, P2
  <2>6. e = x
    BY <1>1, <2>3, <2>4, <2>5 DEF Branches, x, T2
  <2> QED BY <2>2, <2>5, <2>6 DEF Ends
<1>3. \A n \in U : P2[n] = P[n] /\ n # c
  OBVIOUS
<1>4. P2[c] = q
  OBVIOUS
<1>5. P2 \in [U \cup {c} -> Seq(Names)]
  BY <1>1 DEF Spells
<1> HIDE DEF P2
<1>6. \A e \in T : e[1] \in U /\ e[3] \in U
  BY DEF Branches
<1>7. \A e \in T2 : P2[e[3]] = Append(P2[e[1]], e[2])
  <2>1. \A e \in T : P2[e[3]] = Append(P2[e[1]], e[2])
    BY <1>3, <1>6 DEF Spells
  <2>2. x[1] = p /\ x[2] = name /\ x[3] = c
    OBVIOUS
  <2>3. P2[x[3]] = Append(P2[x[1]], x[2])
    BY <1>1, <1>3, <1>4, <2>2
  <2> HIDE DEF x
  <2> QED BY <2>1, <2>3
<1>8. P2[rootInode] = <<>>
  BY <1>1, <1>3 DEF Spells
<1>9. Spells(T2, U \cup {c}, P2)
  BY <1>5, <1>7, <1>8 DEF Spells
<1> QED BY <1>2, <1>9 DEF P2

\* Paths that go on as they were.
Follows(v, w, P) == \E Q : Spells(Kids(w), Used(w), Q) /\ \A n \in Used(v) \cap Used(w) : Q[n] = P[n]

LEMMA TreeGrows ==
  ASSUME NEW v, Sound(v), tree = TreeOf(v), NEW w, Sound(w), tree' = TreeOf(w),
         NEW P, Spells(Kids(v), Used(v), P), NEW p \in Dirs(v), NEW name \in Names, NEW c \in Inode \ Used(v),
         Kids(w) = Kids(v) \cup {<<p, name, c>>}, Used(w) = Used(v) \cup {c},
         \A n \in Used(v) : Leafage(w, n) = Leafage(v, n)
  PROVE  Follows(v, w, P) /\ \E q \in Tree!Vacant : tree' = Tree!With(q, Leafage(w, c))
<1> DEFINE T == Kids(v)
           U == Used(v)
           D == Dirs(v)
           x == <<p, name, c>>
           q == Append(P[p], name)
           Q == [n \in U \cup {c} |-> IF n = c THEN q ELSE P[n]]
           N == Nodes(v)
           M == Nodes(w)
<1>1. Branches(T, U, D) /\ Branches(T \cup {x}, U \cup {c}, Dirs(w))
  BY SoundBranches
<1>2. Spells(T \cup {x}, U \cup {c}, Q) /\ \A n \in U : P[n] # q
  <2> HIDE DEF T, U, D
  <2> QED BY <1>1, Sprouts DEF T, U, D
<1>3. Shows(tree, U, P, N) /\ Shows(tree', U \cup {c}, Q, M)
  BY <1>2, TreeIs
<1>4. M[c] = Leafage(w, c) /\ \A n \in U : M[n] = N[n]
  BY DEF Nodes
<1>5. p \in U /\ v.table[p].kind = "dir" /\ N[p] = [dir |-> TRUE, size |-> 0]
  BY UsedIn DEF Dirs, Nodes, Leafage
<1>6. c \notin U /\ Q[c] = q /\ \A n \in U : Q[n] = P[n]
  OBVIOUS
<1> HIDE DEF N, M, Q, q, T, U, D, x
<1>7. DOMAIN tree = {P[n] : n \in U} /\ (\A n \in U : tree[P[n]] = N[n]) /\ tree = [y \in DOMAIN tree |-> tree[y]]
  BY <1>3 DEF Shows
<1>8. DOMAIN tree' = {Q[n] : n \in U \cup {c}} /\ (\A n \in U \cup {c} : tree'[Q[n]] = M[n])
      /\ tree' = [y \in DOMAIN tree' |-> tree'[y]]
  BY <1>3 DEF Shows
<1>9. P[p] \in DOMAIN tree /\ tree[P[p]].dir /\ q \notin DOMAIN tree
  BY <1>2, <1>5, <1>7
<1>10. q \in Tree!Vacant
  BY <1>9 DEF Tree!Vacant, q
<1>11. DOMAIN tree' = DOMAIN tree \cup {q}
  BY <1>6, <1>7, <1>8
<1>12. \A y \in DOMAIN tree' : tree'[y] = IF y = q THEN Leafage(w, c) ELSE tree[y]
  <2> SUFFICES ASSUME NEW n \in U \cup {c} PROVE tree'[Q[n]] = IF Q[n] = q THEN Leafage(w, c) ELSE tree[Q[n]]
    BY <1>8
  <2>1. CASE n = c
    BY <1>4, <1>6, <1>8, <2>1
  <2>2. CASE n \in U
    BY <1>2, <1>4, <1>6, <1>7, <1>8, <2>2
  <2> QED BY <2>1, <2>2
<1>13. tree' = Tree!With(q, Leafage(w, c))
  BY <1>8, <1>11, <1>12, Zenon DEF Tree!With
<1>14. Spells(Kids(w), Used(w), Q) /\ \A n \in Used(v) \cap Used(w) : Q[n] = P[n]
  BY <1>2, <1>6 DEF T, U, x
<1>15. Follows(v, w, P)
  BY <1>14, Zenon DEF Follows
<1> QED BY <1>10, <1>13, <1>15

\* A file has another size.
LEMMA TreeSets ==
  ASSUME NEW v, Sound(v), tree = TreeOf(v), NEW w, Sound(w), tree' = TreeOf(w),
         NEW P, Spells(Kids(v), Used(v), P), NEW c \in Used(v), v.table[c].kind = "file",
         Kids(w) = Kids(v), Used(w) = Used(v), \A n \in Used(v) : n # c => Leafage(w, n) = Leafage(v, n)
  PROVE  /\ Follows(v, w, P)
         /\ \E q \in DOMAIN tree : ~tree[q].dir /\ tree[q] = Leafage(v, c) /\ tree' = Tree!With(q, Leafage(w, c))
<1> DEFINE U == Used(v)
           q == P[c]
           N == Nodes(v)
           M == Nodes(w)
<1>1. Shows(tree, U, P, N) /\ Shows(tree', U, P, M)
  BY TreeIs
<1>2. \A n, m \in U : P[n] = P[m] => n = m
  BY SoundBranches, PathsApart
<1>3. M[c] = Leafage(w, c) /\ N[c] = Leafage(v, c) /\ (\A n \in U : n # c => M[n] = N[n]) /\ ~N[c].dir
  BY DEF Nodes, Leafage
<1>4. Follows(v, w, P)
  BY Zenon DEF Follows
<1> HIDE DEF N, M, U
<1>5. DOMAIN tree = {P[n] : n \in U} /\ (\A n \in U : tree[P[n]] = N[n])
  BY <1>1 DEF Shows
<1>6. DOMAIN tree' = {P[n] : n \in U} /\ (\A n \in U : tree'[P[n]] = M[n]) /\ tree' = [y \in DOMAIN tree' |-> tree'[y]]
  BY <1>1 DEF Shows
<1>7. q \in DOMAIN tree /\ ~tree[q].dir /\ tree[q] = Leafage(v, c)
  BY <1>3, <1>5 DEF U
<1>8. DOMAIN tree' = DOMAIN tree \cup {q}
  BY <1>5, <1>6, <1>7
<1>9. \A y \in DOMAIN tree' : tree'[y] = IF y = q THEN Leafage(w, c) ELSE tree[y]
  <2> SUFFICES ASSUME NEW n \in U PROVE tree'[P[n]] = IF P[n] = q THEN Leafage(w, c) ELSE tree[P[n]]
    BY <1>6
  <2>1. CASE n = c
    BY <1>3, <1>6, <2>1
  <2>2. CASE n # c
    BY <1>2, <1>3, <1>5, <1>6, <2>2 DEF U
  <2> QED BY <2>1, <2>2
<1> HIDE DEF q
<1>10. tree' = Tree!With(q, Leafage(w, c))
  BY <1>6, <1>8, <1>9, Zenon DEF Tree!With
<1> QED BY <1>4, <1>7, <1>10

\* A leaf of the tree is gone.
Plucks(q) == /\ q \in DOMAIN tree /\ q # <<>> /\ (tree[q].dir => Tree!IsEmpty(q)) /\ tree' = Tree!Without(q)

LEMMA TreeLoses ==
  ASSUME NEW v, Sound(v), tree = TreeOf(v), NEW w, tree' = TreeOf(w), NEW P, Spells(Kids(v), Used(v), P),
         NEW p, NEW name, NEW c, Pruned(v, w, p, name, c), \A e \in Kids(v) : e[1] # c,
         \A n \in Used(v) : n # c => Leafage(w, n) = Leafage(v, n)
  PROVE  Follows(v, w, P) /\ Plucks(P[c]) /\ \A n \in Used(v) : n # c => P[n] # P[c]
<1> DEFINE T == Kids(v)
           U == Used(v)
           D == Dirs(v)
           q == P[c]
           Q == [n \in U \ {c} |-> P[n]]
           N == Nodes(v)
           M == Nodes(w)
           x == <<p, name, c>>
<1>1. Sound(w) /\ Kids(w) = T \ {x} /\ Used(w) = U \ {c} /\ x \in T
  BY DEF Pruned
<1>2. Branches(T, U, D)
  BY SoundBranches
<1>3. c \in U /\ c # rootInode /\ rootInode \in U
  <2>1. x[3] \in U \ {rootInode}
    BY <1>1, <1>2 DEF Branches
  <2> QED BY <1>2, <2>1 DEF Branches
<1>4. \A n, m \in U : P[n] = P[m] => n = m
  BY <1>2, PathsApart
<1>5. \A n \in U \ {c} : Q[n] = P[n]
  OBVIOUS
<1>6. \A e \in T \ {x} : e[1] \in U \ {c} /\ e[3] \in U \ {c}
  <2> SUFFICES ASSUME NEW e \in T, e # x PROVE e[1] \in U \ {c} /\ e[3] \in U \ {c}
    OBVIOUS
  <2>1. e[1] \in U /\ e[3] \in U /\ e[1] # c
    BY <1>2 DEF Branches
  <2>2. e[3] # c
    <3>1. x[3] = c
      OBVIOUS
    <3> HIDE DEF x
    <3> QED BY <1>1, <1>2, <3>1 DEF Branches
  <2> QED BY <2>1, <2>2
<1>7. Spells(Kids(w), Used(w), Q)
  <2>1. Q \in [U \ {c} -> Seq(Names)] /\ Q[rootInode] = <<>>
    BY <1>3 DEF Spells
  <2> HIDE DEF Q, x, T
  <2>2. \A e \in T \ {x} : Q[e[3]] = Append(Q[e[1]], e[2])
    BY <1>5, <1>6 DEF Spells, T
  <2> QED BY <1>1, <2>1, <2>2 DEF Spells
<1>8. Follows(v, w, P)
  BY <1>1, <1>5, <1>7 DEF Follows
<1>9. Shows(tree, U, P, N) /\ Shows(tree', U \ {c}, Q, M)
  BY <1>1, <1>7, TreeIs
<1>10. \A n \in U \ {c} : M[n] = N[n]
  BY <1>1 DEF Nodes
<1>11. P[rootInode] = <<>>
  BY DEF Spells
<1> HIDE DEF N, M, Q, x, T, U, D
<1>12. DOMAIN tree = {P[n] : n \in U} /\ (\A n \in U : tree[P[n]] = N[n])
  BY <1>9 DEF Shows
<1>13. /\ DOMAIN tree' = {Q[n] : n \in U \ {c}} /\ \A n \in U \ {c} : tree'[Q[n]] = M[n]
       /\ tree' = [y \in DOMAIN tree' |-> tree'[y]]
  BY <1>9 DEF Shows
<1>14. q \in DOMAIN tree /\ q # <<>>
  BY <1>3, <1>4, <1>11, <1>12
<1>15. ASSUME NEW y \in DOMAIN tree, y # <<>> PROVE Front(y) # q
  <2>1. PICK n \in U : y = P[n]
    BY <1>12
  <2>2. n # rootInode
    BY <1>11, <1>15, <2>1
  <2>3. PICK e : Ends(T, U, D, P, n, e)
    BY <1>2, <2>2, EndOf DEF T, U, D
  <2>4. e \in T /\ e[1] \in U /\ Front(y) = P[e[1]]
    BY <2>1, <2>3 DEF Ends
  <2>5. e[1] # c
    BY <2>4 DEF T
  <2> QED BY <1>3, <1>4, <2>4, <2>5
<1>16. Tree!IsEmpty(q)
  <2>1. \A y : Tree!Front(y) = Front(y)
    BY DEF Tree!Front, Front
  <2> QED BY <1>15, <2>1, Zenon DEF Tree!IsEmpty, Tree!root
<1>17. DOMAIN tree' = DOMAIN tree \ {q}
  <2>1. \A n \in U : P[n] # q <=> n # c
    BY <1>3, <1>4
  <2> QED BY <1>5, <1>12, <1>13, <2>1
<1>18. \A y \in DOMAIN tree' : tree'[y] = tree[y]
  <2> SUFFICES ASSUME NEW n \in U \ {c} PROVE tree'[Q[n]] = tree[Q[n]]
    BY <1>13
  <2> QED BY <1>5, <1>10, <1>12, <1>13
<1>19. tree' = Tree!Without(q)
  BY <1>13, <1>17, <1>18, Zenon DEF Tree!Without
<1>20. Plucks(q)
  BY <1>14, <1>16, <1>19, Zenon DEF Plucks
<1> QED BY <1>3, <1>4, <1>8, <1>20 DEF U

--------------------------------------------------------------------------------
(* What no command does: set the clean bit *)

VolFields == {"blocks", "inodes", "groups", "free", "clean", "table", "data"}
RunFields == {"v", "kind", "left", "status", "out", "node", "set"}

\* A volume that says it was not left clean; its inodes outside N are those of T.
Off(v, T, N) ==
  /\ VolFields \subseteq DOMAIN v /\ v.clean = FALSE
  /\ DOMAIN v.table = Inode /\ \A n \in Inode \ N : v.table[n] = T[n]

\* A run on such a volume, whatever may happen to its writes.
Held(d, T, N, kind) == DOMAIN d = RunFields /\ d.kind = kind /\ Off(d.v, T, N)

LEMMA OffStays ==
  ASSUME NEW v, NEW T, NEW N, Off(v, T, N), NEW x, NEW y
  PROVE  /\ Off([v EXCEPT !.data[x] = y], T, N) /\ Off([v EXCEPT !.groups[x] = y], T, N)
         /\ Off([v EXCEPT !.blocks = x], T, N) /\ Off([v EXCEPT !.inodes = x], T, N) /\ Off([v EXCEPT !.free = x], T, N)
         /\ Off([v EXCEPT !.blocks = x, !.data = y], T, N)
         /\ x \in N => Off([v EXCEPT !.table[x] = y], T, N)
<1>1. VolFields \subseteq DOMAIN v /\ v.clean = FALSE /\ DOMAIN v.table = Inode /\ \A n \in Inode \ N : v.table[n] = T[n]
  BY DEF Off
<1>2. /\ Off([v EXCEPT !.data[x] = y], T, N) /\ Off([v EXCEPT !.groups[x] = y], T, N)
      /\ Off([v EXCEPT !.blocks = x], T, N) /\ Off([v EXCEPT !.inodes = x], T, N) /\ Off([v EXCEPT !.free = x], T, N)
  BY <1>1 DEF Off, VolFields
<1>3. Off([v EXCEPT !.blocks = x, !.data = y], T, N)
  BY <1>1 DEF Off, VolFields
<1>4. x \in N => Off([v EXCEPT !.table[x] = y], T, N)
  BY <1>1 DEF Off, VolFields
<1> QED BY <1>2, <1>3, <1>4

\* Fields that are set in memory.
LEMMA HeldSets ==
  ASSUME NEW d, NEW T, NEW N, NEW kind, Held(d, T, N, kind), NEW x, NEW y
  PROVE  /\ Held([d EXCEPT !.status = x], T, N, kind) /\ Held([d EXCEPT !.out = x], T, N, kind)
         /\ Held([d EXCEPT !.node = x], T, N, kind) /\ Held([d EXCEPT !.set = x], T, N, kind)
         /\ Held([d EXCEPT !.left = x, !.status = y], T, N, kind)
         /\ Held(Fail(d, x), T, N, kind)
<1>1. /\ Held([d EXCEPT !.status = x], T, N, kind) /\ Held([d EXCEPT !.out = x], T, N, kind)
      /\ Held([d EXCEPT !.node = x], T, N, kind) /\ Held([d EXCEPT !.set = x], T, N, kind)
  BY DEF Held, RunFields
<1>2. Held([d EXCEPT !.left = x, !.status = y], T, N, kind)
  BY DEF Held, RunFields
<1> QED BY <1>1, <1>2 DEF Fail

LEMMA HeldPut ==
  ASSUME NEW d, NEW T, NEW N, NEW kind, Held(d, T, N, kind), NEW w, Off(w, T, N)
  PROVE  Held(Put(d, w), T, N, kind)
<1>1. ASSUME NEW m PROVE Held([d EXCEPT !.v = w, !.left = m], T, N, kind)
  BY DEF Held, RunFields
<1>2. Held([d EXCEPT !.status = "cut"], T, N, kind) /\ Held([d EXCEPT !.left = -1, !.status = "ioError"], T, N, kind)
  BY HeldSets
<1>3. \/ Put(d, w) = d \/ Put(d, w) = [d EXCEPT !.status = "cut"] \/ Put(d, w) = [d EXCEPT !.left = -1, !.status = "ioError"]
      \/ Put(d, w) = [d EXCEPT !.v = w, !.left = IF @ > 0 THEN @ - 1 ELSE @]
  BY DEF Put
<1> QED BY <1>1, <1>2, <1>3

\* One write.
LEMMA HeldWrites ==
  ASSUME NEW d, NEW T, NEW N, NEW kind, Held(d, T, N, kind), NEW b, NEW x, NEW y, NEW z, NEW u
  PROVE  /\ Held(SetBlock(d, b, x), T, N, kind)
         /\ Held(adjustGroup(d, b, x, y, z), T, N, kind) /\ Held(adjustSuper(d, x, y), T, N, kind)
         /\ Held(Put(d, [d.v EXCEPT !.blocks = x]), T, N, kind) /\ Held(Put(d, [d.v EXCEPT !.inodes = x]), T, N, kind)
         /\ Held(Put(d, [d.v EXCEPT !.blocks = x, !.data = y]), T, N, kind)
         /\ b \in N => /\ Held(writeInode(d, b), T, N, kind) /\ Held(zeroInodeOnDisk(d, b), T, N, kind)
<1>1. Off(d.v, T, N)
  BY DEF Held
<1>2. Held(SetBlock(d, b, x), T, N, kind)
  BY <1>1, OffStays, HeldPut, Zenon DEF SetBlock
<1>3. Held(adjustGroup(d, b, x, y, z), T, N, kind)
  BY <1>1, OffStays, HeldPut, Zenon DEF adjustGroup, writeGroupDesc
<1>4. Held(adjustSuper(d, x, y), T, N, kind)
  BY <1>1, OffStays, HeldPut, Zenon DEF adjustSuper
<1>5. Held(Put(d, [d.v EXCEPT !.blocks = x]), T, N, kind) /\ Held(Put(d, [d.v EXCEPT !.inodes = x]), T, N, kind)
  BY <1>1, OffStays, HeldPut, Zenon
<1>6. Held(Put(d, [d.v EXCEPT !.blocks = x, !.data = y]), T, N, kind)
  BY <1>1, OffStays, HeldPut, Zenon
<1>7. b \in N => /\ Held(writeInode(d, b), T, N, kind) /\ Held(zeroInodeOnDisk(d, b), T, N, kind)
  BY <1>1, OffStays, HeldPut, Zenon DEF writeInode, zeroInodeOnDisk
<1> QED BY <1>2, <1>3, <1>4, <1>5, <1>6, <1>7

LEMMA HeldAlloc ==
  ASSUME NEW d, NEW T, NEW N, NEW kind, Held(d, T, N, kind), NEW x, NEW y
  PROVE  /\ Held(allocBlock(d, x), T, N, kind) /\ Held(allocInode(d, x, y), T, N, kind)
         /\ Held(freeRun(d, x), T, N, kind) /\ Held(FreeAgain(d, x), T, N, kind)
<1>1. ASSUME NEW b PROVE Held(TakeBlock(d, b), T, N, kind)
  <2> DEFINE e == Put(d, [d.v EXCEPT !.blocks = @ \cup {b}])
             g == adjustGroup(e, GroupOfBlock(b), -1, 0, 0)
  <2>1. Held(e, T, N, kind)
    BY HeldWrites, Zenon
  <2>2. TakeBlock(d, b) = [adjustSuper(g, -1, 0) EXCEPT !.out = b]
    BY DEF TakeBlock
  <2> HIDE DEF e
  <2>3. Held(g, T, N, kind)
    BY <2>1, HeldWrites, Zenon
  <2> HIDE DEF g
  <2> DEFINE s == adjustSuper(g, -1, 0)
  <2>4. Held(s, T, N, kind)
    BY <2>3, HeldWrites, Zenon
  <2>5. TakeBlock(d, b) = [s EXCEPT !.out = b]
    BY <2>2
  <2> HIDE DEF s
  <2>6. Held([s EXCEPT !.out = b], T, N, kind)
    BY <2>4, HeldSets, Zenon
  <2> QED BY <2>5, <2>6, Zenon
<1>2. ASSUME NEW n, NEW k PROVE Held(TakeInode(d, n, k), T, N, kind)
  <2> DEFINE e == Put(d, [d.v EXCEPT !.inodes = @ \cup {n}])
             g == adjustGroup(e, GroupOfInode(n), 0, -1, k)
  <2>1. Held(e, T, N, kind)
    BY HeldWrites, Zenon
  <2>2. TakeInode(d, n, k) = [adjustSuper(g, 0, -1) EXCEPT !.out = n]
    BY DEF TakeInode
  <2> HIDE DEF e
  <2>3. Held(g, T, N, kind)
    BY <2>1, HeldWrites, Zenon
  <2> HIDE DEF g
  <2> DEFINE s == adjustSuper(g, 0, -1)
  <2>4. Held(s, T, N, kind)
    BY <2>3, HeldWrites, Zenon
  <2>5. TakeInode(d, n, k) = [s EXCEPT !.out = n]
    BY <2>2
  <2> HIDE DEF s
  <2>6. Held([s EXCEPT !.out = n], T, N, kind)
    BY <2>4, HeldSets, Zenon
  <2> QED BY <2>5, <2>6, Zenon
<1>3. ASSUME NEW e, Held(e, T, N, kind) PROVE Held(freeRun(e, x), T, N, kind)
  <2> DEFINE c == ClearRun(e, x)
             g == adjustGroup(c, GroupOfBlock(Min(x)), Cardinality(x), 0, 0)
  <2>1. Held(c, T, N, kind)
    BY <1>3, HeldWrites, Zenon DEF ClearRun
  <2>2. freeRun(e, x) = e \/ freeRun(e, x) = adjustSuper(g, Cardinality(x), 0)
    BY DEF freeRun
  <2> HIDE DEF c
  <2>3. Held(g, T, N, kind)
    BY <2>1, HeldWrites, Zenon
  <2> HIDE DEF g
  <2>4. Held(adjustSuper(g, Cardinality(x), 0), T, N, kind)
    BY <2>3, HeldWrites, Zenon
  <2> QED BY <1>3, <2>2, <2>4
<1>4. Held(allocBlock(d, x), T, N, kind)
  BY <1>1, HeldSets, Zenon DEF allocBlock
<1>5. Held(allocInode(d, x, y), T, N, kind)
  BY <1>2, HeldSets, Zenon DEF allocInode
<1>6. Held(FreeAgain(d, x), T, N, kind)
  BY <1>3, HeldSets, Zenon DEF FreeAgain
<1> QED BY <1>3, <1>4, <1>5, <1>6

LEMMA HeldFreeInode ==
  ASSUME NEW d, NEW T, NEW N, NEW kind, Held(d, T, N, kind), NEW n \in N, NEW dir
  PROVE  Held(freeInode(d, n, dir), T, N, kind)
<1> DEFINE z == zeroInodeOnDisk(d, n)
           c == ClearInode(z, n)
           k == IF dir THEN -1 ELSE 0
           g == adjustGroup(c, GroupOfInode(n), 0, 1, k)
<1>1. Held(z, T, N, kind)
  BY HeldWrites, Zenon
<1>2. freeInode(d, n, dir) = Fail(d, "ioError") \/ freeInode(d, n, dir) = adjustSuper(g, 0, 1)
  BY DEF freeInode
<1> HIDE DEF z
<1>3. Held(c, T, N, kind)
  BY <1>1, HeldWrites, Zenon DEF ClearInode
<1> HIDE DEF c, k
<1>4. Held(g, T, N, kind)
  BY <1>3, HeldWrites, Zenon
<1> HIDE DEF g
<1>5. Held(adjustSuper(g, 0, 1), T, N, kind)
  BY <1>4, HeldWrites, Zenon
<1>6. Held(Fail(d, "ioError"), T, N, kind)
  BY HeldSets, Zenon
<1> QED BY <1>2, <1>5, <1>6, Zenon

\* The extent tree.
LEMMA HeldAppend ==
  ASSUME NEW d, NEW T, NEW N, NEW kind, Held(d, T, N, kind), NEW x, NEW y
  PROVE  Held(AppendToLeaf(d, x), T, N, kind) /\ Held(appendBlock(d, x, y), T, N, kind)
<1>1. ASSUME NEW e, Held(e, T, N, kind), NEW node, NEW leaf PROVE Held(Rooted(e, node, leaf), T, N, kind)
  BY <1>1, HeldSets, HeldAlloc, Zenon DEF Rooted
<1>2. ASSUME NEW e, Held(e, T, N, kind), NEW node, NEW blocks PROVE Held(AddLeaf(e, node, blocks), T, N, kind)
  <2>1. Held(SetBlock(e, e.out, Leaf(blocks)), T, N, kind)
    BY <1>2, HeldWrites, Zenon
  <2> QED BY <1>1, <1>2, <2>1, Zenon DEF AddLeaf
<1>3. ASSUME NEW e, Held(e, T, N, kind), NEW phys PROVE Held(AppendToLeaf(e, phys), T, N, kind)
  <2>1. Held(Fail(e, "noSpace"), T, N, kind) /\ Held(allocBlock(e, phys + 1), T, N, kind)
        /\ \A leaf, s : Held(SetBlock(e, leaf, s), T, N, kind)
    BY <1>3, HeldSets, HeldAlloc, HeldWrites, Zenon
  <2>2. Held(AddLeaf(allocBlock(e, phys + 1), e.node, <<phys>>), T, N, kind)
    BY <1>2, <2>1, Zenon
  <2> QED BY <1>3, <2>1, <2>2, Zenon DEF AppendToLeaf
<1>4. Held(AppendToLeaf(PushDown(d, y + 1), y), T, N, kind)
  BY <1>2, <1>3, HeldAlloc, Zenon DEF PushDown
<1>5. Held([d EXCEPT !.node.root = Append(@, y)], T, N, kind)
  <2>1. [d EXCEPT !.node.root = Append(@, y)] = [d EXCEPT !.node = [d.node EXCEPT !.root = Append(d.node.root, y)]]
    BY DEF Held, RunFields
  <2> QED BY <2>1, HeldSets, Zenon
<1> QED BY <1>3, <1>4, <1>5, HeldSets, Zenon DEF appendBlock

\* Directories; only the parent's inode is written.
LEMMA HeldEntry ==
  ASSUME NEW d, NEW T, NEW N, NEW kind, Held(d, T, N, kind), NEW p, NEW name, NEW child
  PROVE  /\ p \in N => Held(insertEntry(d, p, name, child), T, N, kind)
         /\ p \in N => Held(adjustLinks(d, p, child), T, N, kind)
         /\ Held(removeEntry(d, p), T, N, kind)
<1>1. ASSUME p \in N, NEW e, Held(e, T, N, kind), NEW b PROVE Held(SaveDirBlock(e, p, b), T, N, kind)
  <2> DEFINE node == [e.node EXCEPT !.size = e.node.size + Units, !.nblk = e.node.nblk + 1]
             f == [e EXCEPT !.node = node]
  <2>1. [e EXCEPT !.node.size = @ + Units, !.node.nblk = @ + 1] = f
    BY <1>1 DEF Held, RunFields
  <2>2. Held(f, T, N, kind)
    BY <1>1, HeldSets, Zenon
  <2> HIDE DEF f
  <2>3. SaveDirBlock(e, p, b) = FreeAgain(e, {b}) \/ SaveDirBlock(e, p, b) = writeInode(f, p)
    BY <2>1, Zenon DEF SaveDirBlock
  <2>4. Held(FreeAgain(e, {b}), T, N, kind) /\ Held(writeInode(f, p), T, N, kind)
    BY <1>1, <2>2, HeldAlloc, HeldWrites, Zenon
  <2> QED BY <2>3, <2>4, Zenon
<1>2. ASSUME p \in N, NEW a, Held(a, T, N, kind), NEW l, NEW r PROVE Held(AddDirBlock(a, p, l, r), T, N, kind)
  <2>1. Held(SetBlock(a, a.out, Records(<<r>>)), T, N, kind)
    BY <1>2, HeldWrites, Zenon
  <2>2. Held(appendBlock(SetBlock(a, a.out, Records(<<r>>)), l, a.out), T, N, kind)
    BY <2>1, HeldAppend, Zenon
  <2> QED BY <1>1, <1>2, <2>2, Zenon DEF AddDirBlock
<1>3. ASSUME p \in N PROVE Held(GrowDirectory(d, p, name, child), T, N, kind)
  <2>1. \A goal : Held(allocBlock([d EXCEPT !.node = d.v.table[p]], goal), T, N, kind)
    BY HeldSets, HeldAlloc, Zenon
  <2> QED BY <1>2, <1>3, <2>1, Zenon DEF GrowDirectory
<1>4. ASSUME p \in N PROVE Held(insertEntry(d, p, name, child), T, N, kind)
  <2>1. \A b, x : Held(SetBlock(d, b, x), T, N, kind)
    BY HeldWrites, Zenon
  <2> QED BY <1>3, <1>4, <2>1, Zenon DEF insertEntry, InsertEntryAt
<1>5. ASSUME p \in N PROVE Held(adjustLinks(d, p, child), T, N, kind)
  <2>1. \A node : Held([d EXCEPT !.node = node], T, N, kind)
    BY HeldSets, Zenon
  <2> QED BY <1>5, <2>1, HeldWrites, Zenon DEF adjustLinks
<1>6. Held(removeEntry(d, p), T, N, kind)
  BY HeldWrites, Zenon DEF removeEntry
<1> QED BY <1>4, <1>5, <1>6, Zenon

\* A new node; its inode and its parent's are written.
LEMMA HeldNode ==
  ASSUME NEW d, NEW T, NEW N, NEW kind, Held(d, T, N, kind), NEW p, NEW n, NEW x
  PROVE  /\ Held(NewNode(d, p, n, x), T, N, kind)
         /\ n \in N => Held(GiveBack(d, n, x), T, N, kind)
<1>1. ASSUME NEW e, Held(e, T, N, kind), NEW b PROVE Held(MadeDir(e, b), T, N, kind)
  <2>1. [e EXCEPT !.node.size = Units, !.node.nblk = 1, !.out = b]
          = [[e EXCEPT !.node = [e.node EXCEPT !.size = Units, !.nblk = 1]] EXCEPT !.out = b]
    BY <1>1 DEF Held, RunFields
  <2>2. Held([e EXCEPT !.node.size = Units, !.node.nblk = 1, !.out = b], T, N, kind)
    <3> DEFINE f == [e EXCEPT !.node = [e.node EXCEPT !.size = Units, !.nblk = 1]]
    <3>1. Held(f, T, N, kind)
      BY <1>1, HeldSets, Zenon
    <3> HIDE DEF f
    <3>2. Held([f EXCEPT !.out = b], T, N, kind)
      BY <3>1, HeldSets, Zenon
    <3> QED BY <2>1, <3>2, Zenon DEF f
  <2>3. Held([FreeAgain(e, {b}) EXCEPT !.out = none], T, N, kind)
    BY <1>1, HeldAlloc, HeldSets, Zenon
  <2> QED BY <2>2, <2>3, Zenon DEF MadeDir
<1>2. ASSUME NEW a, Held(a, T, N, kind) PROVE Held(FirstBlock(a, p, n), T, N, kind)
  <2>1. \A s : Held(appendBlock(SetBlock(a, a.out, s), 0, a.out), T, N, kind)
    BY <1>2, HeldWrites, HeldAppend, Zenon
  <2>2. Held([a EXCEPT !.out = none], T, N, kind)
    BY <1>2, HeldSets, Zenon
  <2> QED BY <1>1, <2>1, <2>2, Zenon DEF FirstBlock
<1>3. Held(NewNode(d, p, n, x), T, N, kind)
  <2> DEFINE f == [d EXCEPT !.node = NewInode(x)]
  <2>1. Held(f, T, N, kind) /\ [d EXCEPT !.node = NewInode(x), !.out = none] = [f EXCEPT !.out = none]
    BY HeldSets, Zenon
  <2> HIDE DEF f
  <2>2. Held([f EXCEPT !.out = none], T, N, kind) /\ Held(FirstBlock(allocBlock(f, GroupOfInode(n) * Span), p, n), T, N, kind)
    BY <1>2, <2>1, HeldSets, HeldAlloc, Zenon
  <2>3. NewNode(d, p, n, x) = [d EXCEPT !.node = NewInode(x), !.out = none]
        \/ NewNode(d, p, n, x) = FirstBlock(allocBlock(f, GroupOfInode(n) * Span), p, n)
    BY Zenon DEF NewNode, f
  <2> QED BY <2>1, <2>2, <2>3, Zenon
<1>4. ASSUME n \in N PROVE Held(GiveBack(d, n, x), T, N, kind)
  <2> DEFINE f == [d EXCEPT !.status = "ok"]
             g == freeInode(f, n, x = "dir")
  <2>1. Held(f, T, N, kind)
    BY HeldSets, Zenon
  <2> HIDE DEF f
  <2>2. Held(g, T, N, kind)
    BY <1>4, <2>1, HeldFreeInode, Zenon
  <2> DEFINE s == d.status
  <2>3. GiveBack(d, n, x) = [g EXCEPT !.status = s]
    BY DEF GiveBack, f
  <2> HIDE DEF g, s
  <2>4. Held([g EXCEPT !.status = s], T, N, kind)
    BY <2>2, HeldSets, Zenon
  <2> QED BY <2>3, <2>4, Zenon
<1> QED BY <1>3, <1>4

LEMMA HeldMake ==
  ASSUME NEW d, NEW T, NEW N, NEW kind, Held(d, T, N, kind), NEW p, NEW name, NEW x,
         {p, allocInode(d, p, x = "dir").out} \subseteq N
  PROVE  Held(makeNode(d, p, name, x), T, N, kind)
<1> DEFINE i == allocInode(d, p, x = "dir")
           n == i.out
<1>1. p \in N /\ n \in N
  OBVIOUS
<1>2. ASSUME NEW e, Held(e, T, N, kind), NEW b PROVE Held(Entered(e, b, n, p, x), T, N, kind)
  <2> HIDE DEF n
  <2>1. Held(FreeAgain(e, {b}), T, N, kind)
    BY <1>2, HeldAlloc, Zenon
  <2>2. Held(GiveBack(FreeAgain(e, {b}), n, x), T, N, kind) /\ Held(GiveBack(e, n, x), T, N, kind)
    BY <1>1, <1>2, <2>1, HeldNode, Zenon
  <2> DEFINE l == adjustLinks(e, p, 1)
             s == [l EXCEPT !.status = "ok"]
  <2>3. Held(l, T, N, kind)
    BY <1>1, <1>2, HeldEntry, Zenon
  <2>4. [adjustLinks(e, p, 1) EXCEPT !.status = "ok", !.out = n] = [s EXCEPT !.out = n]
    BY Zenon
  <2> HIDE DEF l
  <2>5. Held(s, T, N, kind)
    BY <2>3, HeldSets, Zenon
  <2> HIDE DEF s
  <2>6. Held([s EXCEPT !.out = n], T, N, kind) /\ Held([e EXCEPT !.out = n], T, N, kind)
    BY <1>2, <2>5, HeldSets, Zenon
  <2>7. \/ Entered(e, b, n, p, x) = GiveBack(FreeAgain(e, {b}), n, x) \/ Entered(e, b, n, p, x) = GiveBack(e, n, x)
        \/ Entered(e, b, n, p, x) = [s EXCEPT !.out = n] \/ Entered(e, b, n, p, x) = [e EXCEPT !.out = n]
    BY <2>4, Zenon DEF Entered
  <2> QED BY <2>2, <2>6, <2>7, Zenon
<1>3. Held(i, T, N, kind)
  BY HeldAlloc, Zenon
<1> HIDE DEF i, n
<1>4. Held(zeroInodeOnDisk(i, n), T, N, kind)
  BY <1>1, <1>3, HeldWrites, Zenon
<1>5. ASSUME NEW m, Held(m, T, N, kind) PROVE Held(Enter(m, n, p, name, x), T, N, kind)
  <2>1. Held(GiveBack(m, n, x), T, N, kind) /\ Held(writeInode(m, n), T, N, kind)
    BY <1>1, <1>5, HeldNode, HeldWrites, Zenon
  <2>2. Held(insertEntry(writeInode(m, n), p, name, n), T, N, kind)
    BY <1>1, <2>1, HeldEntry, Zenon
  <2>3. Held(Entered(insertEntry(writeInode(m, n), p, name, n), m.out, n, p, x), T, N, kind)
    BY <1>2, <2>2, Zenon
  <2> QED BY <2>1, <2>3, Zenon DEF Enter
<1>6. Held(NewNode(zeroInodeOnDisk(i, n), p, n, x), T, N, kind)
  BY <1>4, HeldNode, Zenon
<1>7. Held(Furnish(i, p, name, x), T, N, kind)
  BY <1>3, <1>5, <1>6, Zenon DEF Furnish, n
<1> QED BY <1>7, Zenon DEF makeNode, i

\* A loop over runs of blocks.
LEMMA HeldFreeRuns ==
  ASSUME NEW d, NEW T, NEW N, NEW kind, Held(d, T, N, kind), NEW runs, Len(runs) \in Nat
  PROVE  Held(FreeRuns(d, runs), T, N, kind)
<1> DEFINE n == Len(runs)
           c == d
           P(f) == f = [k \in 0 .. n |-> IF k = 0 THEN c ELSE freeRun(f[k - 1], runs[k])]
           f0 == CHOOSE f : P(f)
           Q(f, m) == \A k \in 0 .. m : f[k] = IF k = 0 THEN c ELSE freeRun(f[k - 1], runs[k])
           S == {m \in Nat : \E f : Q(f, m)}
           H == {m \in Nat : m \in 0 .. n => Held(f0[m], T, N, kind)}
<1>1. n \in Nat
  OBVIOUS
<1>2. Held(c, T, N, kind)
  OBVIOUS
<1>3. FreeRuns(d, runs) = f0[n]
  BY DEF FreeRuns
<1> HIDE DEF n, c
<1>4. 0 \in S
  <2> DEFINE f == [k \in 0 .. 0 |-> c]
  <2>1. \A k \in 0 .. 0 : k = 0 /\ f[k] = c
    OBVIOUS
  <2>2. Q(f, 0)
    BY <2>1
  <2> QED BY <2>2
<1>5. ASSUME NEW m \in S PROVE m + 1 \in S
  <2>1. PICK f : Q(f, m)
    BY <1>5
  <2> DEFINE l == m + 1
             last == freeRun(f[m], runs[l])
             g == [k \in 0 .. l |-> IF k = l THEN last ELSE f[k]]
  <2>2. m \in Nat /\ l \in Nat /\ l - 1 = m /\ l # 0 /\ m \in 0 .. l /\ m # l
    BY <1>5
  <2>3. ASSUME NEW k \in 0 .. l PROVE g[k] = IF k = 0 THEN c ELSE freeRun(g[k - 1], runs[k])
    <3>1. CASE k = l
      <4>1. g[k - 1] = f[m] /\ g[k] = last
        BY <2>2, <3>1
      <4> QED BY <2>2, <3>1, <4>1
    <3>2. CASE k # l /\ k # 0
      <4>1. k \in 0 .. m /\ k - 1 \in 0 .. l /\ k - 1 # l
        BY <2>2, <3>2
      <4> HIDE DEF l, last
      <4>2. g[k - 1] = f[k - 1] /\ g[k] = f[k]
        BY <3>2, <4>1
      <4>3. f[k] = freeRun(f[k - 1], runs[k])
        BY <2>1, <3>2, <4>1
      <4> QED BY <3>2, <4>2, <4>3
    <3>3. CASE k # l /\ k = 0
      <4>1. k \in 0 .. m
        BY <2>2, <3>3
      <4> HIDE DEF l, last
      <4>2. g[k] = f[k]
        BY <3>3
      <4>3. f[k] = c
        BY <2>1, <3>3, <4>1
      <4> QED BY <3>3, <4>2, <4>3
    <3> QED BY <3>1, <3>2, <3>3
  <2> HIDE DEF g
  <2>4. Q(g, l)
    BY <2>3
  <2> QED BY <2>2, <2>4
<1>6. S = Nat
  <2>1. S \in SUBSET Nat
    OBVIOUS
  <2> HIDE DEF S
  <2> QED BY <1>4, <1>5, <2>1, HandedOn
<1>7. PICK h : Q(h, n)
  BY <1>1, <1>6
<1>8. P([k \in 0 .. n |-> h[k]])
  <2> DEFINE e == [k \in 0 .. n |-> h[k]]
  <2>1. ASSUME NEW k \in 0 .. n PROVE h[k] = IF k = 0 THEN c ELSE freeRun(e[k - 1], runs[k])
    <3>1. CASE k = 0
      BY <1>7, <3>1
    <3>2. CASE k # 0
      <4>1. k - 1 \in 0 .. n
        BY <1>1, <3>2
      <4>2. e[k - 1] = h[k - 1]
        BY <4>1
      <4> QED BY <1>7, <3>2, <4>2
    <3> QED BY <3>1, <3>2
  <2>2. [k \in 0 .. n |-> h[k]] = [k \in 0 .. n |-> IF k = 0 THEN c ELSE freeRun(e[k - 1], runs[k])]
    BY <2>1
  <2> HIDE DEF e
  <2> QED BY <2>2, Zenon DEF e
<1>9. P(f0)
  <2> HIDE DEF P
  <2> QED BY <1>8
<1> HIDE DEF f0
<1>10. 0 \in H
  <2>1. 0 \in 0 .. n
    BY <1>1
  <2>2. f0[0] = c
    BY <1>9, <2>1
  <2> QED BY <1>2, <2>2
<1>11. ASSUME NEW m \in H PROVE m + 1 \in H
  <2> DEFINE l == m + 1
  <2>1. m \in Nat /\ l \in Nat /\ l # 0 /\ l - 1 = m
    BY <1>11
  <2> SUFFICES ASSUME l \in 0 .. n PROVE Held(f0[l], T, N, kind)
    BY <2>1
  <2>2. Held(f0[m], T, N, kind)
    BY <1>1, <1>11, <2>1
  <2> HIDE DEF l, H
  <2>3. f0[l] = freeRun(f0[m], runs[l])
    BY <1>9, <2>1
  <2> QED BY <2>2, <2>3, HeldAlloc, Zenon
<1>12. H = Nat
  <2>1. H \in SUBSET Nat
    OBVIOUS
  <2> HIDE DEF H
  <2> QED BY <1>10, <1>11, <2>1, HandedOn
<1>13. n \in 0 .. n
  BY <1>1
<1>14. n \in H
  BY <1>1, <1>12
<1>15. Held(f0[n], T, N, kind)
  BY <1>13, <1>14
<1> QED BY <1>3, <1>15, Zenon

\* One block of a text.
LEMMA HeldNext ==
  ASSUME NEW d, NEW T, NEW N, NEW kind, Held(d, T, N, kind), NEW number, NEW to
  PROVE  Held(WriteNext(d, number, to), T, N, kind)
<1>1. ASSUME NEW e, Held(e, T, N, kind), NEW b, NEW upto PROVE Held(FillBlock(e, b, upto), T, N, kind)
  <2> DEFINE f == [e EXCEPT !.node = [e.node EXCEPT !.nblk = e.node.nblk + 1]]
  <2>1. [e EXCEPT !.node.nblk = @ + 1] = f
    BY <1>1 DEF Held, RunFields
  <2>2. Held(f, T, N, kind)
    BY <1>1, HeldSets, Zenon
  <2> HIDE DEF f
  <2>3. Held(FreeAgain(e, {b}), T, N, kind) /\ Held(SetBlock(f, b, Text(upto)), T, N, kind)
    BY <1>1, <2>2, HeldAlloc, HeldWrites, Zenon
  <2> QED BY <2>1, <2>3, Zenon DEF FillBlock
<1>2. ASSUME NEW a, Held(a, T, N, kind), NEW l, NEW upto PROVE Held(AddBlock(a, l, upto), T, N, kind)
  <2>1. Held(appendBlock(a, l, a.out), T, N, kind)
    BY <1>2, HeldAppend, Zenon
  <2> QED BY <1>1, <1>2, <2>1, Zenon DEF AddBlock
<1>3. ASSUME NEW l, NEW i, NEW upto PROVE Held(WriteBlock(d, number, l, i, upto), T, N, kind)
  <2>1. \A b, x : Held(SetBlock(d, b, x), T, N, kind)
    BY HeldWrites, Zenon
  <2>2. \A goal : Held(AddBlock(allocBlock(d, goal), l, upto), T, N, kind)
    BY <1>2, HeldAlloc, Zenon
  <2> QED BY <2>1, <2>2, Zenon DEF WriteBlock, WriteInto
<1>4. ASSUME NEW e, Held(e, T, N, kind), NEW x PROVE Held([e EXCEPT !.out = x], T, N, kind)
  BY <1>4, HeldSets, Zenon
<1> QED BY <1>3, <1>4, Zenon DEF WriteNext

\* The loop of writeAt.
LEMMA HeldWriteAt ==
  ASSUME NEW d, NEW T, NEW N, NEW kind, Held(d, T, N, kind), NEW number, NEW from, NEW to, to - from \in Nat
  PROVE  Held(writeAt(d, number, from, to), T, N, kind)
<1> DEFINE n == to - from
           c == [d EXCEPT !.out = from]
           P(f) == f = [k \in 0 .. n |-> IF k = 0 THEN c ELSE WriteNext(f[k - 1], number, to)]
           f0 == CHOOSE f : P(f)
           Q(f, m) == \A k \in 0 .. m : f[k] = IF k = 0 THEN c ELSE WriteNext(f[k - 1], number, to)
           S == {m \in Nat : \E f : Q(f, m)}
           H == {m \in Nat : m \in 0 .. n => Held(f0[m], T, N, kind)}
<1>1. n \in Nat
  OBVIOUS
<1>2. Held(c, T, N, kind)
  BY HeldSets, Zenon
<1>3. writeAt(d, number, from, to) = f0[n]
  BY DEF writeAt
<1> HIDE DEF n, c
<1>4. 0 \in S
  <2> DEFINE f == [k \in 0 .. 0 |-> c]
  <2>1. \A k \in 0 .. 0 : k = 0 /\ f[k] = c
    OBVIOUS
  <2>2. Q(f, 0)
    BY <2>1
  <2> QED BY <2>2
<1>5. ASSUME NEW m \in S PROVE m + 1 \in S
  <2>1. PICK f : Q(f, m)
    BY <1>5
  <2> DEFINE l == m + 1
             last == WriteNext(f[m], number, to)
             g == [k \in 0 .. l |-> IF k = l THEN last ELSE f[k]]
  <2>2. m \in Nat /\ l \in Nat /\ l - 1 = m /\ l # 0 /\ m \in 0 .. l /\ m # l
    BY <1>5
  <2>3. ASSUME NEW k \in 0 .. l PROVE g[k] = IF k = 0 THEN c ELSE WriteNext(g[k - 1], number, to)
    <3>1. CASE k = l
      <4>1. g[k - 1] = f[m] /\ g[k] = last
        BY <2>2, <3>1
      <4> QED BY <2>2, <3>1, <4>1
    <3>2. CASE k # l /\ k # 0
      <4>1. k \in 0 .. m /\ k - 1 \in 0 .. l /\ k - 1 # l
        BY <2>2, <3>2
      <4> HIDE DEF l, last
      <4>2. g[k - 1] = f[k - 1] /\ g[k] = f[k]
        BY <3>2, <4>1
      <4>3. f[k] = WriteNext(f[k - 1], number, to)
        BY <2>1, <3>2, <4>1
      <4> QED BY <3>2, <4>2, <4>3
    <3>3. CASE k # l /\ k = 0
      <4>1. k \in 0 .. m
        BY <2>2, <3>3
      <4> HIDE DEF l, last
      <4>2. g[k] = f[k]
        BY <3>3
      <4>3. f[k] = c
        BY <2>1, <3>3, <4>1
      <4> QED BY <3>3, <4>2, <4>3
    <3> QED BY <3>1, <3>2, <3>3
  <2> HIDE DEF g
  <2>4. Q(g, l)
    BY <2>3
  <2> QED BY <2>2, <2>4
<1>6. S = Nat
  <2>1. S \in SUBSET Nat
    OBVIOUS
  <2> HIDE DEF S
  <2> QED BY <1>4, <1>5, <2>1, HandedOn
<1>7. PICK h : Q(h, n)
  BY <1>1, <1>6
<1>8. P([k \in 0 .. n |-> h[k]])
  <2> DEFINE e == [k \in 0 .. n |-> h[k]]
  <2>1. ASSUME NEW k \in 0 .. n PROVE h[k] = IF k = 0 THEN c ELSE WriteNext(e[k - 1], number, to)
    <3>1. CASE k = 0
      BY <1>7, <3>1
    <3>2. CASE k # 0
      <4>1. k - 1 \in 0 .. n
        BY <1>1, <3>2
      <4>2. e[k - 1] = h[k - 1]
        BY <4>1
      <4> QED BY <1>7, <3>2, <4>2
    <3> QED BY <3>1, <3>2
  <2>2. [k \in 0 .. n |-> h[k]] = [k \in 0 .. n |-> IF k = 0 THEN c ELSE WriteNext(e[k - 1], number, to)]
    BY <2>1
  <2> HIDE DEF e
  <2> QED BY <2>2, Zenon DEF e
<1>9. P(f0)
  <2> HIDE DEF P
  <2> QED BY <1>8
<1> HIDE DEF f0
<1>10. 0 \in H
  <2>1. 0 \in 0 .. n
    BY <1>1
  <2>2. f0[0] = c
    BY <1>9, <2>1
  <2> QED BY <1>2, <2>2
<1>11. ASSUME NEW m \in H PROVE m + 1 \in H
  <2> DEFINE l == m + 1
  <2>1. m \in Nat /\ l \in Nat /\ l # 0 /\ l - 1 = m
    BY <1>11
  <2> SUFFICES ASSUME l \in 0 .. n PROVE Held(f0[l], T, N, kind)
    BY <2>1
  <2>2. Held(f0[m], T, N, kind)
    BY <1>1, <1>11, <2>1
  <2> HIDE DEF l, H
  <2>3. f0[l] = WriteNext(f0[m], number, to)
    BY <1>9, <2>1
  <2> QED BY <2>2, <2>3, HeldNext, Zenon
<1>12. H = Nat
  <2>1. H \in SUBSET Nat
    OBVIOUS
  <2> HIDE DEF H
  <2> QED BY <1>10, <1>11, <2>1, HandedOn
<1>13. n \in 0 .. n
  BY <1>1
<1>14. n \in H
  BY <1>1, <1>12
<1>15. Held(f0[n], T, N, kind)
  BY <1>13, <1>14
<1> QED BY <1>3, <1>15, Zenon

LEMMA HeldMore ==
  ASSUME NEW d, NEW T, NEW N, NEW kind, Held(d, T, N, kind), NEW M, N \subseteq M
  PROVE  Held(d, T, M, kind)
BY Zenon DEF Held, Off

\* A text is written, and the size saved.
LEMMA HeldText ==
  ASSUME NEW d, NEW T, NEW N, NEW kind, Held(d, T, N, kind), NEW number \in N, NEW from, NEW to, to - from \in Nat
  PROVE  Held(WriteFrom(d, number, from, to), T, N, kind)
<1> DEFINE e == writeAt(d, number, from, to)
           f == [e EXCEPT !.status = "ok"]
           node == [f.node EXCEPT !.size = SizeReached(e, to)]
           g == [f EXCEPT !.node = node]
           w == writeInode(g, number)
           s == IF Ok(e) THEN w.status ELSE e.status
<1>1. Held(e, T, N, kind)
  BY HeldWriteAt, Zenon
<1> HIDE DEF e
<1>2. [e EXCEPT !.status = "ok", !.node.size = SizeReached(e, to)] = g
  <2>1. [e EXCEPT !.status = "ok", !.node.size = SizeReached(e, to)] = [f EXCEPT !.node.size = SizeReached(e, to)]
    OBVIOUS
  <2>2. DOMAIN f = RunFields
    BY <1>1 DEF Held
  <2> HIDE DEF f
  <2>3. [f EXCEPT !.node.size = SizeReached(e, to)] = [f EXCEPT !.node = [f.node EXCEPT !.size = SizeReached(e, to)]]
    BY <2>2 DEF RunFields
  <2> QED BY <2>1, <2>3, Zenon
<1>3. Held(f, T, N, kind)
  BY <1>1, HeldSets, Zenon
<1> HIDE DEF f
<1>4. Held(g, T, N, kind)
  BY <1>3, HeldSets, Zenon
<1> HIDE DEF g
<1>5. Held(w, T, N, kind)
  BY <1>4, HeldWrites, Zenon
<1>6. SaveSize(e, number, to) = [w EXCEPT !.status = s]
  BY <1>2 DEF SaveSize
<1> HIDE DEF w, s
<1>7. Held([w EXCEPT !.status = s], T, N, kind)
  BY <1>5, HeldSets, Zenon
<1> QED BY <1>6, <1>7, Zenon DEF WriteFrom, e

\* An inode whose blocks can be counted.
Countable(v, node) == (node.size = 0 /\ node.nblk = 0) \/ Len(RunsOf(v, node)) \in Nat

LEMMA HeldFreed ==
  ASSUME NEW d, NEW T, NEW N, NEW kind, Held(d, T, N, kind), NEW node, Countable(d.v, node)
  PROVE  Held(FreeBlocksOf(d, node), T, N, kind)
<1>1. CASE node.size = 0 /\ node.nblk = 0
  <2>1. ~(node.size > 0 \/ node.nblk # 0)
    BY <1>1
  <2> QED BY <2>1, Zenon DEF FreeBlocksOf
<1>2. CASE Len(RunsOf(d.v, node)) \in Nat
  <2>1. Held(freeFileBlocks(d, node), T, N, kind)
    BY <1>2, HeldFreeRuns, Zenon DEF freeFileBlocks
  <2> QED BY <2>1, Zenon DEF FreeBlocksOf
<1> QED BY <1>1, <1>2 DEF Countable

LEMMA HeldWriteNode ==
  ASSUME NEW d, NEW T, NEW N, NEW kind, Held(d, T, N, kind), NEW number \in N, NEW node, Countable(d.v, node),
         node.size \in Nat, NEW n \in Nat, NEW append
  PROVE  Held(WriteNode(d, number, node, n, append), T, N, kind)
<1>1. (node.size + n) - node.size \in Nat /\ n - 0 \in Nat
  OBVIOUS
<1>2. Held([d EXCEPT !.node = node], T, N, kind)
  BY HeldSets, Zenon
<1>3. Held(WriteFrom([d EXCEPT !.node = node], number, node.size, node.size + n), T, N, kind)
  BY <1>1, <1>2, HeldText, Zenon
<1>4. Held(Empty(d, number, node), T, N, kind)
  <2> DEFINE f == FreeBlocksOf(d, node)
             x == [NoInode EXCEPT !.kind = "file", !.links = node.links]
             g == [f EXCEPT !.node = x]
  <2>1. Held(f, T, N, kind)
    BY HeldFreed, Zenon
  <2>2. Empty(d, number, node) = writeInode(g, number)
    BY DEF Empty
  <2> HIDE DEF f, x
  <2>3. Held(g, T, N, kind)
    BY <2>1, HeldSets, Zenon
  <2> HIDE DEF g
  <2> QED BY <2>2, <2>3, HeldWrites, Zenon
<1>5. Held(WriteFrom(Empty(d, number, node), number, 0, n), T, N, kind)
  BY <1>1, <1>4, HeldText, Zenon
<1> QED BY <1>3, <1>5, Zenon DEF WriteNode

\* If a file was made, its inode is new, whatever else may happen to the power.
LEMMA MadeFile ==
  ASSUME NEW d, NEW kind, Held(d, d.v.table, {}, kind), NEW p \in Inode, p \in d.v.inodes, NEW name,
         Ok(makeNode(d, p, name, "file"))
  PROVE  LET e == makeNode(d, p, name, "file") IN e.v.table[e.out] = NewInode("file")
<1> DEFINE T == d.v.table
           e == makeNode(d, p, name, "file")
           i == allocInode(d, p, FALSE)
           n == Min(FreeInodes(d.v, FirstGroup(GroupOfInode(p), WithInodes(d.v))))
           z == zeroInodeOnDisk(i, n)
           f == [z EXCEPT !.node = NewInode("file")]
           m == [f EXCEPT !.out = none]
           w == writeInode(m, n)
           put == insertEntry(w, p, name, n)
<1>0. ("file" = "dir") = FALSE
  OBVIOUS
<1>1. e = Furnish(i, p, name, "file")
  BY <1>0 DEF makeNode
<1>2. Held(i, T, {}, kind)
  BY HeldAlloc, Zenon
<1>3. Ok(i)
  BY <1>1, Zenon DEF Furnish
<1>4. i = TakeInode(d, n, 0) /\ WithInodes(d.v) # {}
  <2>1. Ok(d)
    BY <1>3, Zenon DEF allocInode
  <2>2. Fail(d, "noSpace") = [d EXCEPT !.status = "noSpace"] /\ [d EXCEPT !.status = "noSpace"].status = "noSpace"
    BY <2>1 DEF Fail, Held, RunFields
  <2>3. ~Ok(Fail(d, "noSpace"))
    BY <2>2 DEF Ok
  <2>4. WithInodes(d.v) # {}
    BY <1>3, <2>1, <2>3, Zenon DEF allocInode
  <2> QED BY <2>1, <2>4 DEF allocInode
<1>5. n \in Inode /\ n \notin d.v.inodes
  <2> DEFINE open == WithInodes(d.v)
             g == FirstGroup(GroupOfInode(p), open)
  <2>1. GroupOfInode(p) \in Group
    BY InodeGroup
  <2>2. open \in SUBSET Group
    BY DEF WithInodes
  <2>3. g \in open
    <3> HIDE DEF open
    <3> QED BY <1>4, <2>1, <2>2, FirstGroupIn DEF open
  <2>4. g \in Group /\ FreeInodes(d.v, g) # {}
    <3> HIDE DEF g
    <3> QED BY <2>3 DEF WithInodes
  <2> HIDE DEF g
  <2>5. FreeInodes(d.v, g) \subseteq Inode \ d.v.inodes /\ FreeInodes(d.v, g) \in SUBSET Nat
    BY <2>4, InodePlace, InodeGroup DEF FreeInodes, rootInode, firstIno
  <2>6. Min(FreeInodes(d.v, g)) \in FreeInodes(d.v, g)
    BY <2>4, <2>5, MinOf
  <2> QED BY <2>5, <2>6 DEF g
<1>6. i.out = n
  <2> DEFINE s == adjustSuper(adjustGroup(Put(d, [d.v EXCEPT !.inodes = @ \cup {n}]), GroupOfInode(n), 0, -1, 0), 0, -1)
  <2>1. i = [s EXCEPT !.out = n]
    BY <1>4 DEF TakeInode
  <2>2. DOMAIN i = RunFields
    BY <1>2 DEF Held
  <2> HIDE DEF s, i, n
  <2> QED BY <2>1, <2>2 DEF RunFields
<1> HIDE DEF i, n
<1>7. Held(z, T, {n}, kind)
  <2>1. Held(i, T, {n}, kind)
    BY <1>2, HeldMore
  <2> QED BY <2>1, HeldWrites, Zenon
<1> HIDE DEF z
<1>8. Held(f, T, {n}, kind)
  BY <1>7, HeldSets, Zenon
<1>9. m.node = NewInode("file") /\ m.out = none
  BY <1>7 DEF Held, RunFields
<1>10. NewNode(z, p, n, "file") = m
  BY DEF NewNode
<1> HIDE DEF f
<1>11. Held(m, T, {n}, kind)
  BY <1>8, HeldSets, Zenon
<1>12. e = Enter(m, n, p, name, "file")
  BY <1>1, <1>3, <1>6, <1>10, Zenon DEF Furnish, z
<1> HIDE DEF m, e, T
<1>13. ASSUME NEW x, ~Ok(x), Held(x, T, {n}, kind) \/ Held(x, w.v.table, {p}, kind) PROVE ~Ok(GiveBack(x, n, "file"))
  <2> DEFINE s == x.status
             g == freeInode([x EXCEPT !.status = "ok"], n, "file" = "dir")
  <2>1. GiveBack(x, n, "file") = [g EXCEPT !.status = s]
    BY DEF GiveBack
  <2>2. DOMAIN g = RunFields
    <3>1. Held(x, T, {n}, kind) => Held(g, T, {n}, kind)
      BY HeldSets, HeldFreeInode, Zenon
    <3>2. Held(x, w.v.table, {p}, kind) => Held(g, w.v.table, {p, n}, kind)
      BY HeldMore, HeldSets, HeldFreeInode
    <3> QED BY <1>13, <3>1, <3>2, Zenon DEF Held
  <2>3. s # "ok"
    BY <1>13 DEF Ok
  <2> HIDE DEF g, s
  <2>4. [g EXCEPT !.status = s].status = s
    BY <2>2 DEF RunFields
  <2> QED BY <2>1, <2>3, <2>4 DEF Ok
<1>14. Ok(e)
  BY DEF e
<1>15. Ok(m) /\ e = Entered(put, none, n, p, "file")
  BY <1>9, <1>11, <1>12, <1>13, <1>14 DEF Enter
<1>16. Held(w, T, {n}, kind)
  BY <1>11, HeldWrites, Zenon
<1>17. Held(w, w.v.table, {p}, kind)
  BY <1>16 DEF Held, Off
<1> HIDE DEF w
<1>18. Held(put, w.v.table, {p}, kind)
  BY <1>17, HeldEntry, Zenon
<1>19. Ok(put) /\ e = [put EXCEPT !.out = n]
  <2>1. ~Ok(put) => e = GiveBack(put, n, "file")
    BY <1>15 DEF Entered
  <2>2. Ok(put)
    BY <1>13, <1>14, <1>18, <2>1, Zenon
  <2> QED BY <1>15, <2>2 DEF Entered
<1>20. Ok(w)
  BY <1>19, Zenon DEF insertEntry
<1> HIDE DEF put
<1>21. e.out = n /\ e.v = put.v
  BY <1>18, <1>19 DEF Held, RunFields
<1>22. w.v.table[n] = NewInode("file")
  <2> DEFINE x == [m.v EXCEPT !.table[n] = m.node]
  <2>1. w = Put(m, x)
    BY DEF w, writeInode
  <2>2. x.table[n] = m.node
    BY <1>5, <1>11 DEF Held, Off, VolFields
  <2>3. w.v = x
    <3> HIDE DEF x
    <3>1. Put(m, x) = [m EXCEPT !.v = x, !.left = IF @ > 0 THEN @ - 1 ELSE @]
      <4>1. ~Ok([m EXCEPT !.status = "cut"]) /\ ~Ok([m EXCEPT !.left = -1, !.status = "ioError"])
        BY <1>11 DEF Held, RunFields, Ok
      <4> QED BY <1>15, <1>20, <2>1, <4>1 DEF Put
    <3>2. [m EXCEPT !.v = x, !.left = IF @ > 0 THEN @ - 1 ELSE @].v = x
      BY <1>11 DEF Held, RunFields
    <3> QED BY <2>1, <3>1, <3>2
  <2> QED BY <1>9, <2>2, <2>3
<1>23. put.v.table[n] = w.v.table[n]
  BY <1>5, <1>18 DEF Held, Off
<1> QED BY <1>21, <1>22, <1>23 DEF e

\* What a command starts from, whatever may happen to its writes.
Begun(d) ==
  /\ DOMAIN d = RunFields /\ Ok(d) /\ d.v = vol /\ Sound(vol)
  /\ d.set \in BOOLEAN /\ (d.set => vol.clean = FALSE)

\* A command changes the volume only when the clean bit is off.
Marks(d, e) == e.kind = d.kind /\ (e.v.clean = FALSE \/ (e.v = d.v /\ e.set = d.set))

\* markDirty has turned the clean bit off, or was itself struck.
Armed(d, m) == /\ Held(m, m.v.table, {}, d.kind) /\ Sound(m.v)
               /\ m.v.table = d.v.table /\ m.v.data = d.v.data

LEMMA SoundFields ==
  ASSUME NEW v, Sound(v)
  PROVE  VolFields \subseteq DOMAIN v /\ DOMAIN v.table = Inode
BY SoundWorld DEF Volume, VolFields

LEMMA BegunFail ==
  ASSUME NEW d, Begun(d), NEW s
  PROVE  Marks(d, Fail(d, s)) /\ Marks(d, d)
<1>1. Fail(d, s) = d \/ Fail(d, s) = [d EXCEPT !.status = s]
  BY DEF Fail
<1>2. LET e == [d EXCEPT !.status = s] IN e.v = d.v /\ e.set = d.set /\ e.kind = d.kind
  BY DEF Begun, RunFields
<1> QED BY <1>1, <1>2 DEF Marks

LEMMA HeldMarks ==
  ASSUME NEW d, NEW e, NEW T, NEW N, Held(e, T, N, d.kind)
  PROVE  Marks(d, e)
BY DEF Held, Off, Marks

LEMMA MarkArms ==
  ASSUME NEW d, Begun(d), NEW m, m = markDirty(d)
  PROVE  Armed(d, m) \/ (~Ok(m) /\ Marks(d, m))
<1>1. DOMAIN d = RunFields /\ Ok(d) /\ d.v = vol /\ Sound(d.v) /\ d.set \in BOOLEAN
  BY DEF Begun
<1>2. CASE d.set
  <2>1. m = d /\ d.v.clean = FALSE
    BY <1>2 DEF markDirty, Begun
  <2>2. Off(d.v, d.v.table, {})
    BY <1>1, <2>1, SoundFields DEF Off
  <2> QED BY <1>1, <2>1, <2>2 DEF Armed, Held
<1>3. CASE ~d.set
  <2> DEFINE w == Cleaned(d.v, FALSE)
             x == Put(d, w)
  <2>1. m = [x EXCEPT !.set = Ok(x)]
    BY <1>3 DEF markDirty, MarkSet, Cleaned
  <2>2. Sound(w) /\ w.table = d.v.table /\ w.data = d.v.data /\ w.clean = FALSE
    BY <1>1, CleanSound
  <2> HIDE DEF w
  <2>3. \/ x = [d EXCEPT !.status = "cut"] \/ x = [d EXCEPT !.left = -1, !.status = "ioError"]
        \/ x = [d EXCEPT !.v = w, !.left = IF @ > 0 THEN @ - 1 ELSE @]
    BY <1>1 DEF Put
  <2> HIDE DEF x
  <2>4. CASE x = [d EXCEPT !.status = "cut"] \/ x = [d EXCEPT !.left = -1, !.status = "ioError"]
    <3>1. x.v = d.v /\ x.kind = d.kind /\ x.status # "ok" /\ DOMAIN x = RunFields
      BY <1>1, <2>4 DEF RunFields
    <3>2. m.v = d.v /\ m.kind = d.kind /\ m.set = FALSE /\ m.status # "ok"
      BY <2>1, <3>1 DEF RunFields, Ok
    <3> QED BY <1>1, <1>3, <3>2 DEF Marks, Ok
  <2>5. CASE x = [d EXCEPT !.v = w, !.left = IF @ > 0 THEN @ - 1 ELSE @]
    <3>1. x.v = w /\ x.kind = d.kind /\ DOMAIN x = RunFields
      BY <1>1, <2>5 DEF RunFields
    <3>2. m.v = w /\ m.kind = d.kind /\ DOMAIN m = RunFields
      BY <2>1, <3>1 DEF RunFields
    <3>3. Off(w, w.table, {})
      BY <2>2, SoundFields DEF Off
    <3> QED BY <2>2, <3>2, <3>3 DEF Armed, Held
  <2> QED BY <2>3, <2>4, <2>5
<1> QED BY <1>1, <1>2, <1>3

\* The inodes of a sound volume can be freed, also after an entry has gone from
\* the directory of another.
LEMMA SoundCountable ==
  ASSUME NEW v, Sound(v), NEW n \in Inode
  PROVE  Countable(v, v.table[n])
<1>1. v \in Volume /\ Shaped(v, v.table[n])
  BY UsedIn DEF Whole
<1>2. Cuts(RunsOf(v, v.table[n]), OwnedBy(v, v.table[n]))
  BY <1>1, RunsCut
<1>3. RunsOf(v, v.table[n]) \in Seq(SUBSET Block)
  BY <1>2 DEF Cuts
<1>4. Len(RunsOf(v, v.table[n])) \in Nat
  BY <1>3, LenProperties
<1> QED BY <1>4 DEF Countable

LEMMA ErasedCountable ==
  ASSUME NEW v, Sound(v), NEW n \in Inode, NEW p \in Inode, NEW pos, NEW name, EntryIs(v, p, pos, name, n),
         v.table[p].kind = "dir", NEW s
  PROVE  Countable([v EXCEPT !.data[pos.block] = s], v.table[n])
<1> DEFINE w == [v EXCEPT !.data[pos.block] = s]
           node == v.table[n]
           r == node.root
<1>1. v \in Volume /\ Shaped(v, node) /\ Whole(v, v.table[p]) /\ Countable(v, node)
  BY UsedIn, SoundCountable DEF Whole
<1>2. pos.block \in Block /\ v.data[pos.block].kind = "dir"
  <2>1. PICK k \in 1 .. Len(List(v, p)) : pos.block = List(v, p)[k]
    BY DEF EntryIs
  <2>2. Filled(v.data[pos.block], v.table[p], k)
    BY <1>1, <2>1 DEF Whole, AllFilled, List
  <2> QED BY <2>2 DEF Filled, EntryIs, PlaceIn
<1>3. \A b : b # pos.block => w.data[b] = v.data[b]
  BY <1>1 DEF Volume
<1>4. node.depth \in {0, 1}
  BY <1>1 DEF Shaped, NodeType
<1>5. RunsOf(w, node) = RunsOf(v, node)
  <2>1. CASE node.depth = 0
    BY <2>1, Zenon DEF RunsOf
  <2>2. CASE node.depth = 1
    <3>1. \A k \in 1 .. Len(r) : w.data[r[k]] = v.data[r[k]]
      BY <1>1, <1>2, <1>3, <2>2 DEF Shaped, AllLeaves
    <3> HIDE DEF w
    <3>2. [k \in 1 .. Len(r) |-> Append(Extents(w.data[r[k]].blocks), {r[k]})]
            = [k \in 1 .. Len(r) |-> Append(Extents(v.data[r[k]].blocks), {r[k]})]
      BY <3>1, Zenon
    <3>3. node.depth # 0
      BY <2>2
    <3> QED BY <3>2, <3>3, Zenon DEF RunsOf
  <2> QED BY <1>4, <2>1, <2>2
<1> HIDE DEF w
<1>6. Countable(w, node)
  BY <1>1, <1>5, Zenon DEF Countable
<1> QED BY <1>6 DEF w

\* The commands, one by one.
LEMMA MakeMarks ==
  ASSUME NEW d, NEW m, Armed(d, m), NEW p, NEW name, NEW x
  PROVE  LET e == makeNode(m, p, name, x)
         IN  \E N : p \in N /\ Held(e, m.v.table, N, d.kind)
<1> DEFINE N == {p, allocInode(m, p, x = "dir").out}
<1>1. Held(m, m.v.table, N, d.kind)
  BY HeldMore DEF Armed
<1>2. Held(makeNode(m, p, name, x), m.v.table, N, d.kind)
  BY <1>1, HeldMake
<1> QED BY <1>2

LEMMA WriteFileMarks ==
  ASSUME NEW d, Begun(d), NEW path, NEW parent, NEW found, Resolved(path, parent, found), NEW n \in Nat,
         NEW append \in BOOLEAN
  PROVE  Marks(d, writeFile(d, path, n, append, parent, found))
<1> DEFINE m == markDirty(d)
           p == parent.ino
           name == Last(path.comps)
           e == writeFile(d, path, n, append, parent, found)
<1>1. CASE parent.status # "ok"
  BY <1>1, BegunFail, Zenon DEF writeFile
<1>2. CASE parent.status = "ok"
  <2>1. e = WriteMarked(m, path, n, append, parent, found)
    BY <1>2, Zenon DEF writeFile
  <2>2. Armed(d, m) \/ (~Ok(m) /\ Marks(d, m))
    BY MarkArms
  <2>3. p \in Inode /\ name \in Names /\ Finds(vol, p, name, found) /\ d.v = vol /\ Sound(vol)
    BY <1>2 DEF Resolved, Begun
  <2> HIDE DEF m, e, name
  <2>4. CASE ~Ok(m)
    <3>1. e = m
      BY <2>1, <2>4 DEF WriteMarked
    <3>2. Armed(d, m) => Marks(d, m)
      BY HeldMarks DEF Armed
    <3> QED BY <2>2, <3>1, <3>2 DEF e
  <2>5. CASE Ok(m)
    <3>1. Armed(d, m) /\ Held(m, m.v.table, {}, d.kind) /\ Sound(m.v) /\ m.v.table = vol.table
      BY <2>2, <2>3, <2>5 DEF Armed
    <3>2. CASE found.status = "notFound"
      <4> DEFINE x == makeNode(m, p, name, "file")
      <4>1. e = WriteMade(x, n, append)
        BY <2>1, <2>5, <3>2, Zenon DEF WriteMarked, name
      <4>2. PICK N : Held(x, m.v.table, N, d.kind)
        BY <3>1, MakeMarks
      <4>3. CASE ~Ok(x)
        <5>1. e = x
          BY <4>1, <4>3 DEF WriteMade
        <5> QED BY <4>2, <5>1, HeldMarks DEF e
      <4>4. CASE Ok(x)
        <5> DEFINE c == x.out
                   M == N \cup {c}
        <5>1. p \in m.v.inodes
          <6>1. m.v.table[p].kind = "dir"
            BY <2>3, <3>1, <3>2 DEF Finds
          <6> QED BY <2>3, <3>1, <6>1, UsedIn DEF Used
        <5>2. x.v.table[c] = NewInode("file")
          BY <2>3, <3>1, <4>4, <5>1, MadeFile
        <5>3. e = WriteNode(x, c, NewInode("file"), n, append)
          BY <4>1, <4>4, <5>2 DEF WriteMade
        <5>4. NewInode("file").size = 0 /\ NewInode("file").nblk = 0
          BY DEF NewInode, NoInode
        <5> HIDE DEF x
        <5>5. Held(x, m.v.table, M, d.kind) /\ c \in M
          BY <4>2, HeldMore
        <5>6. Countable(x.v, NewInode("file")) /\ NewInode("file").size \in Nat
          BY <5>4 DEF Countable
        <5> HIDE DEF c, M
        <5>7. Held(e, m.v.table, M, d.kind)
          BY <5>3, <5>5, <5>6, HeldWriteNode
        <5> QED BY <5>7, HeldMarks DEF e
      <4> QED BY <4>3, <4>4
    <3>3. CASE found.status # "notFound" /\ (found.status # "ok" \/ vol.table[found.ino].kind = "dir")
      <4>1. \E s : e = Fail(m, s)
        BY <2>1, <2>5, <3>3 DEF WriteMarked
      <4>2. \A s : Held(Fail(m, s), m.v.table, {}, d.kind)
        BY <3>1, HeldSets, Zenon
      <4> QED BY <4>1, <4>2, HeldMarks DEF e
    <3>4. CASE found.status = "ok" /\ vol.table[found.ino].kind # "dir"
      <4> DEFINE c == found.ino
                 node == m.v.table[c]
      <4>1. e = WriteNode(m, c, node, n, append)
        BY <2>1, <2>5, <3>1, <3>4 DEF WriteMarked
      <4>2. c \in Inode
        BY <2>3, <3>4, FoundUsed
      <4>3. Countable(m.v, node) /\ node.size \in Nat
        BY <3>1, <4>2, SoundCountable, UsedIn DEF NodeType
      <4>4. Held(m, m.v.table, {c}, d.kind) /\ c \in {c}
        BY <3>1, HeldMore
      <4> HIDE DEF node, c
      <4>5. Held(e, m.v.table, {c}, d.kind)
        BY <4>1, <4>3, <4>4, HeldWriteNode
      <4> QED BY <4>5, HeldMarks DEF e
    <3> QED BY <3>2, <3>3, <3>4
  <2> QED BY <2>4, <2>5
<1> QED BY <1>1, <1>2

LEMMA CreateFileMarks ==
  ASSUME NEW d, Begun(d), NEW path, NEW parent, NEW found
  PROVE  Marks(d, createFile(d, path, parent, found))
<1> DEFINE m == markDirty(d)
           e == createFile(d, path, parent, found)
           x == makeNode(m, parent.ino, Last(path.comps), "file")
<1>1. (\E s : e = Fail(d, s)) \/ e = x
  BY Zenon DEF createFile
<1>2. Armed(d, m) \/ (~Ok(m) /\ Marks(d, m))
  BY MarkArms
<1>3. Armed(d, m) => Marks(d, x)
  BY MakeMarks, HeldMarks
<1>4. ~Ok(m) => x = m
  BY DEF makeNode, allocInode, Furnish
<1> HIDE DEF m, x, e
<1>5. Marks(d, x)
  BY <1>2, <1>3, <1>4
<1>6. Marks(d, e)
  BY <1>1, <1>5, BegunFail
<1> QED BY <1>6 DEF e

LEMMA CreateDirectoryMarks ==
  ASSUME NEW d, Begun(d), NEW path, NEW parent, NEW found
  PROVE  Marks(d, createDirectory(d, path, parent, found))
<1> DEFINE m == markDirty(d)
           e == createDirectory(d, path, parent, found)
           x == makeNode(m, parent.ino, Last(path.comps), "dir")
<1>1. (\E s : e = Fail(d, s)) \/ e = MakeMarked(m, path, parent, found)
  BY Zenon DEF createDirectory
<1>2. MakeMarked(m, path, parent, found) = m \/ (Ok(m) /\ MakeMarked(m, path, parent, found) = x)
      \/ (Ok(m) /\ \E s : MakeMarked(m, path, parent, found) = Fail(m, s))
  BY Zenon DEF MakeMarked
<1>3. Armed(d, m) \/ (~Ok(m) /\ Marks(d, m))
  BY MarkArms
<1>4. Armed(d, m) => Marks(d, x) /\ Marks(d, m) /\ \A s : Marks(d, Fail(m, s))
  <2>1. Armed(d, m) => Marks(d, x)
    BY MakeMarks, HeldMarks
  <2>2. Armed(d, m) => Marks(d, m) /\ \A s : Marks(d, Fail(m, s))
    BY HeldSets, HeldMarks DEF Armed
  <2> QED BY <2>1, <2>2
<1> HIDE DEF m, x, e
<1>5. Marks(d, MakeMarked(m, path, parent, found))
  BY <1>2, <1>3, <1>4, Zenon
<1>6. Marks(d, e)
  BY <1>1, <1>5, BegunFail
<1> QED BY <1>6 DEF e

LEMMA RemoveMarks ==
  ASSUME NEW d, Begun(d), NEW path, NEW parent, NEW found, Resolved(path, parent, found)
  PROVE  Marks(d, remove(d, parent, found))
<1> DEFINE m == markDirty(d)
           e == remove(d, parent, found)
           node == vol.table[found.ino]
           p == parent.ino
           c == found.ino
<1>1. CASE parent.status # "ok" \/ found.status # "ok" \/ Protected(found.ino)
  <2>1. \E s : e = Fail(d, s)
    BY <1>1, Zenon DEF remove
  <2> QED BY <2>1, BegunFail
<1>2. CASE ~(parent.status # "ok" \/ found.status # "ok" \/ Protected(found.ino))
  <2>1. e = RemoveMarked(m, parent, found, node)
    BY <1>2, Zenon DEF remove
  <2>2. Armed(d, m) \/ (~Ok(m) /\ Marks(d, m))
    BY MarkArms
  <2>3. p \in Inode /\ Last(path.comps) \in Names /\ Finds(vol, p, Last(path.comps), found) /\ found.status = "ok"
        /\ d.v = vol /\ Sound(vol)
    BY <1>2 DEF Resolved, Begun
  <2> HIDE DEF m, e
  <2>4. CASE ~Ok(m)
    <3>1. e = m
      BY <2>1, <2>4 DEF RemoveMarked
    <3>2. Armed(d, m) => Marks(d, m)
      BY HeldMarks DEF Armed
    <3> QED BY <2>2, <2>4, <3>1, <3>2 DEF e
  <2>5. CASE Ok(m)
    <3>1. Held(m, m.v.table, {}, d.kind) /\ Sound(m.v) /\ m.v.table = vol.table /\ m.v.data = vol.data
      BY <2>2, <2>3, <2>5 DEF Armed
    <3>2. EntryIs(vol, p, found.pos, Last(path.comps), c) /\ vol.table[p].kind = "dir" /\ c \in Inode
      BY <2>3, FoundUsed
    <3>3. EntryIs(m.v, p, found.pos, Last(path.comps), c) /\ m.v.table[p].kind = "dir"
      <4>1. List(m.v, p) = List(vol, p) /\ \A k : Line(m.v, p, k) = Line(vol, p, k)
        BY <3>1 DEF List, Line, Mapped
      <4> QED BY <3>1, <3>2, <4>1 DEF EntryIs
    <3> DEFINE T == m.v.table
               w == removeEntry(m, found.pos)
               f == FreeBlocksOf(w, node)
               x == freeInode(f, c, node.kind = "dir")
    <3>4. Held(w, T, {c}, d.kind)
      <4>1. Held(m, T, {c}, d.kind)
        BY <3>1, HeldMore
      <4> QED BY <4>1, HeldEntry
    <3>5. Countable(w.v, node)
      <4>1. \E s : w = SetBlock(m, found.pos.block, s)
        BY Zenon DEF removeEntry
      <4>2. PICK s : w = SetBlock(m, found.pos.block, s)
        BY <4>1
      <4> DEFINE y == [m.v EXCEPT !.data[found.pos.block] = s]
      <4>3. Countable(y, node)
        BY <2>3, <3>1, <3>2, <3>3, ErasedCountable
      <4>4. Countable(m.v, node)
        BY <3>1, <3>2, SoundCountable
      <4>5. w = Put(m, y)
        BY <4>2 DEF SetBlock
      <4> HIDE DEF y, w, node
      <4>6. w.v = m.v \/ w.v = y
        BY <3>1, <4>5 DEF Put, Held, RunFields
      <4> QED BY <4>3, <4>4, <4>6, Zenon
    <3> HIDE DEF w
    <3>6. Held(f, T, {c}, d.kind)
      BY <3>4, <3>5, HeldFreed
    <3> HIDE DEF f, node, T
    <3>7. Held(x, T, {c}, d.kind) /\ c \in {c}
      BY <3>6, HeldFreeInode
    <3>8. Erase(m, found, node) = x
      BY DEF Erase, w, f
    <3> HIDE DEF x
    <3>9. Held(x, T, {c, p}, d.kind) /\ p \in {c, p}
      BY <3>7, HeldMore
    <3>10. Held(adjustLinks(x, p, -1), T, {c, p}, d.kind)
      BY <3>9, HeldEntry
    <3>11. e = x \/ e = adjustLinks(x, p, -1) \/ \E s : e = Fail(m, s)
      BY <2>1, <2>5, <3>8, Zenon DEF RemoveMarked
    <3>12. \A s : Marks(d, Fail(m, s))
      BY <3>1, HeldSets, HeldMarks
    <3> QED BY <3>9, <3>10, <3>11, <3>12, HeldMarks DEF e
  <2> QED BY <2>4, <2>5
<1> QED BY <1>1, <1>2

--------------------------------------------------------------------------------
(* The driver *)

\* Between the commands: the volume is sound, open for writing, and says that it
\* was not left clean as soon as it is changed.
Open ==
  /\ Sound(vol) /\ writable = TRUE /\ dirty \in BOOLEAN
  /\ (dirty => vol.clean = FALSE) /\ (~dirty => vol.clean = TRUE)
  /\ cwd \in Inode /\ cwdPath \in Seq(Names)

\* A volume mounted after a power cut that came with the clean bit off.
Closed == writable = FALSE /\ dirty = FALSE /\ vol.clean = FALSE

LEMMA InitOpen ==
  ASSUME Init
  PROVE  Open
<1>1. Formatted(vol)
  BY InitFormatted
<1>2. Sound(vol) /\ vol.clean = TRUE
  BY <1>1, FormattedSound DEF Formatted
<1>3. writable = TRUE /\ dirty = FALSE /\ cwd = rootInode /\ cwdPath = <<>>
  BY DEF Init
<1>4. <<>> \in Seq(Names)
  OBVIOUS
<1> QED BY <1>2, <1>3, <1>4, Finite DEF Open

\* A command begins with the volume, and with nothing said or written yet.
LEMMA StartBegun ==
  ASSUME Open, NEW f \in Fault
  PROVE  LET d == Start(f) IN Begun(d) /\ d.v = vol /\ d.set = dirty /\ d.kind = f.kind
BY DEF Start, Begun, RunFields, Ok, Open

LEMMA StartLive ==
  ASSUME Open
  PROVE  Live(Start(Healthy))
<1>1. Healthy.kind = "none" /\ Healthy.at = -1
  BY DEF Healthy
<1>2. vol \in Volume /\ dirty \in BOOLEAN
  BY SoundWorld DEF Open
<1>3. NoInode \in NodeType
  BY NodeIn
<1>4. none \in Nat /\ -1 \in Int /\ "ok" \in Statuses
  BY DEF none, Statuses
<1> DEFINE d == Start(Healthy)
<1>5. d = [v |-> vol, kind |-> "none", left |-> -1, status |-> "ok", out |-> none, node |-> NoInode, set |-> dirty]
  BY <1>1 DEF Start
<1> HIDE DEF d
<1>6. d \in Runs
  BY <1>2, <1>3, <1>4, <1>5 DEF Runs
<1> QED BY <1>5, <1>6 DEF Live, d

LEMMA StartGiven ==
  ASSUME Open, NEW path, NEW parent, NEW found, Resolved(path, parent, found)
  PROVE  Given(Start(Healthy), path, parent, found)
<1>1. Begun(Start(Healthy))
  BY StartBegun DEF Fault
<1> QED BY <1>1, StartLive DEF Given, Resolved, Open, Begun

\* What a command has come to, under a fault or none.
Works(f, e) == Finish(e) /\ Marks(Start(f), e) /\ (f = Healthy => Done(Start(f), e))

LEMMA WriteFileWorks ==
  ASSUME Open, WriteFile
  PROVE  \E f \in Fault : \E e : Works(f, e)
<1>1. PICK f \in Fault, path \in Paths, n \in Lengths, append \in BOOLEAN :
        Finish(writeFile(Start(f), path, n, append, resolveParent(path), LastIn(resolveParent(path), path)))
  BY Zenon DEF WriteFile
<1> DEFINE parent == resolveParent(path)
           found == LastIn(parent, path)
           e == writeFile(Start(f), path, n, append, parent, found)
<1>2. Resolved(path, parent, found) /\ n \in Nat
  BY ParentSpec, Ext4Assumption DEF Open
<1>3. Finish(e)
  BY <1>1
<1> HIDE DEF parent, found
<1>4. Marks(Start(f), e)
  BY <1>2, StartBegun, WriteFileMarks
<1>5. f = Healthy => Done(Start(f), e)
  BY <1>2, StartGiven, WriteFileDone
<1> HIDE DEF e
<1> QED BY <1>3, <1>4, <1>5, Zenon DEF Works

LEMMA CreateFileWorks ==
  ASSUME Open, CreateFile
  PROVE  \E f \in Fault : \E e : Works(f, e)
<1>1. PICK f \in Fault, path \in Paths :
        Finish(createFile(Start(f), path, resolveParent(path), LastIn(resolveParent(path), path)))
  BY Zenon DEF CreateFile
<1> DEFINE parent == resolveParent(path)
           found == LastIn(parent, path)
           e == createFile(Start(f), path, parent, found)
<1>2. Resolved(path, parent, found)
  BY ParentSpec DEF Open
<1>3. Finish(e)
  BY <1>1
<1> HIDE DEF parent, found
<1>4. Marks(Start(f), e)
  BY StartBegun, CreateFileMarks
<1>5. f = Healthy => Done(Start(f), e)
  BY <1>2, StartGiven, CreateFileDone
<1> HIDE DEF e
<1> QED BY <1>3, <1>4, <1>5, Zenon DEF Works

LEMMA CreateDirectoryWorks ==
  ASSUME Open, CreateDirectory
  PROVE  \E f \in Fault : \E e : Works(f, e)
<1>1. PICK f \in Fault, path \in Paths :
        Finish(createDirectory(Start(f), path, resolveParent(path), LastIn(resolveParent(path), path)))
  BY Zenon DEF CreateDirectory
<1> DEFINE parent == resolveParent(path)
           found == LastIn(parent, path)
           e == createDirectory(Start(f), path, parent, found)
<1>2. Resolved(path, parent, found)
  BY ParentSpec DEF Open
<1>3. Finish(e)
  BY <1>1
<1> HIDE DEF parent, found
<1>4. Marks(Start(f), e)
  BY StartBegun, CreateDirectoryMarks
<1>5. f = Healthy => Done(Start(f), e)
  BY <1>2, StartGiven, CreateDirectoryDone
<1> HIDE DEF e
<1> QED BY <1>3, <1>4, <1>5, Zenon DEF Works

LEMMA RemoveWorks ==
  ASSUME Open, RemovePath
  PROVE  \E f \in Fault : \E e : Works(f, e)
<1>1. PICK f \in Fault, path \in Paths :
        Finish(remove(Start(f), resolveParent(path), LastIn(resolveParent(path), path)))
  BY Zenon DEF RemovePath
<1> DEFINE parent == resolveParent(path)
           found == LastIn(parent, path)
           e == remove(Start(f), parent, found)
<1>2. Resolved(path, parent, found)
  BY ParentSpec DEF Open
<1>3. Finish(e)
  BY <1>1
<1> HIDE DEF parent, found
<1>4. Marks(Start(f), e)
  BY <1>2, StartBegun, RemoveMarks
<1>5. f = Healthy => Done(Start(f), e)
  BY <1>2, StartGiven, RemoveDone
<1> HIDE DEF e
<1> QED BY <1>3, <1>4, <1>5, Zenon DEF Works

\* A command that nothing strikes leaves the driver open.
LEMMA FinishOpen ==
  ASSUME Open, NEW e, Works(Healthy, e)
  PROVE  Open'
<1> DEFINE d == Start(Healthy)
<1>1. d.v = vol /\ d.set = dirty /\ Done(d, e) /\ Finish(e) /\ Marks(d, e)
  BY StartBegun DEF Works, Fault
<1> HIDE DEF d
<1>2. /\ e \in Runs /\ e.kind = "none" /\ Sound(e.v) /\ (e.set \/ (e.v = d.v /\ e.set = d.set))
      /\ (e.v.clean = FALSE \/ (e.v = d.v /\ e.set = d.set))
  BY <1>1 DEF Done, Live, Marks
<1>3. vol' = e.v /\ dirty' = e.set /\ writable' = writable /\ cwd' = cwd /\ cwdPath' = cwdPath
  BY <1>1, <1>2 DEF Finish
<1>4. e.set \in BOOLEAN
  BY <1>2 DEF Runs
<1>5. Sound(vol')
  BY <1>2, <1>3
<1>6. (e.set => e.v.clean = FALSE) /\ (~e.set => e.v.clean = TRUE)
  BY <1>1, <1>2 DEF Open
<1> QED BY <1>3, <1>4, <1>5, <1>6 DEF Open

\* Mounting a sound volume that says it is clean opens it.
LEMMA MountOpen ==
  ASSUME NEW v, Sound(v), v.clean = TRUE, Mounted(v)
  PROVE  Open'
<1>1. vol' = v /\ writable' = TRUE /\ dirty' = FALSE /\ cwd' = rootInode /\ cwdPath' = <<>>
  BY DEF Mounted
<1>2. <<>> \in Seq(Names) /\ Sound(vol')
  BY <1>1
<1> QED BY <1>1, <1>2, Finite DEF Open

LEMMA MountClosed ==
  ASSUME NEW v, v.clean = FALSE, Mounted(v)
  PROVE  Closed'
BY DEF Mounted, Closed

\* A command that the power goes in, or after, leaves it open or closed.
LEMMA CutCautious ==
  ASSUME Open, NEW f \in Fault, f.kind = "cut", NEW e, Works(f, e)
  PROVE  Open' \/ Closed'
<1> DEFINE d == Start(f)
<1>1. d.v = vol /\ d.set = dirty /\ d.kind = "cut" /\ Finish(e) /\ Marks(d, e)
  BY StartBegun DEF Works
<1> HIDE DEF d
<1>2. e.kind = "cut" /\ (e.v.clean = FALSE \/ e.v = vol)
  BY <1>1 DEF Marks
<1>3. Mounted(e.v)
  BY <1>1, <1>2 DEF Finish
<1>4. e.v.clean = FALSE \/ (Sound(e.v) /\ e.v.clean = TRUE)
  BY <1>2 DEF Open
<1> QED BY <1>3, <1>4, MountOpen, MountClosed

\* A walk along a path of the shell ends in the inodes, if it ends well.
LEMMA ChangeDirectoryOpen ==
  ASSUME Open, ChangeDirectory
  PROVE  Open'
<1>1. PICK path \in Paths : \E at \in {Reached(Walk(path, path.comps))} :
        /\ cwd' = IF at.status = "ok" THEN at.ino ELSE cwd
        /\ cwdPath' = IF at.status = "ok" THEN PathText(path) ELSE cwdPath
        /\ UNCHANGED <<vol, writable, dirty, tree>>
  BY Zenon DEF ChangeDirectory
<1> DEFINE to == Walk(path, path.comps)
           at == Reached(to)
<1>7. /\ cwd' = IF at.status = "ok" THEN at.ino ELSE cwd
      /\ cwdPath' = IF at.status = "ok" THEN PathText(path) ELSE cwdPath
      /\ UNCHANGED <<vol, writable, dirty, tree>>
  BY <1>1
<1>2. Len(path.comps) \in Nat
  <2>1. path.comps \in Seq(Names \cup {".."})
    BY Ext4Assumption
  <2> QED BY <2>1
<1>3. to \in Walks
  BY <1>2, WalkSpec DEF Open
<1>4. \/ at = to
      \/ at = [to EXCEPT !.status = "notDirectory"]
  BY DEF Reached
<1> HIDE DEF to, at
<1>5. at.status = "ok" => at.ino \in Inode
  BY <1>3, <1>4, WalkIn
<1>6. PathText(path) \in Seq(Names)
  BY TextSpec DEF Open
<1> QED BY <1>5, <1>6, <1>7 DEF Open

\* finalize has to write or not; only a power cut keeps the clean bit off.
LEMMA RemountWorks ==
  ASSUME Open, NEW f \in Fault, NEW w, w = finalize(Start(f)).v
  PROVE  /\ (Sound(w) /\ w.clean = TRUE) \/ w.clean = FALSE
         /\ f = Healthy => w.clean = TRUE
         /\ w = vol \/ w = Cleaned(vol, TRUE)
<1> DEFINE d == Start(f)
           c == Cleaned(vol, TRUE)
<1>1. Begun(d) /\ d.v = vol /\ d.kind = f.kind
  BY StartBegun
<1>2. f = Healthy => d.left = -1
  BY DEF Start, Healthy
<1>3. Sound(c) /\ c.clean = TRUE
  BY CleanSound DEF Open
<1>4. CASE ~dirty
  <2>1. w = vol
    BY <1>1, <1>4 DEF finalize
  <2> QED BY <1>4, <2>1 DEF Open
<1>5. CASE dirty
  <2>1. finalize(d) = Put(d, c)
    BY <1>1, <1>5 DEF finalize, Cleaned
  <2> HIDE DEF c, d
  <2>2. w = vol \/ w = c
    BY <1>1, <2>1 DEF Put, Begun, RunFields, d
  <2>3. f = Healthy => w = c
    BY <1>1, <1>2, <2>1 DEF Put, Begun, RunFields, d, Ok
  <2>4. w = vol \/ w = Cleaned(vol, TRUE)
    BY <2>2 DEF c
  <2> QED BY <1>3, <1>5, <2>2, <2>3, <2>4 DEF Open
<1> QED BY <1>4, <1>5 DEF Open

LEMMA RemountOpen ==
  ASSUME Open, Faults = {}, Remount
  PROVE  Open'
<1>1. PICK f \in Fault : Mounted(finalize(Start(f)).v)
  BY Zenon DEF Remount
<1>2. f = Healthy
  BY DEF Fault
<1>3. Sound(finalize(Start(f)).v) /\ finalize(Start(f)).v.clean = TRUE
  BY <1>2, RemountWorks
<1> QED BY <1>1, <1>3, MountOpen

LEMMA RemountCautious ==
  ASSUME Open, Remount
  PROVE  Open' \/ Closed'
<1>1. PICK f \in Fault : Mounted(finalize(Start(f)).v)
  BY Zenon DEF Remount
<1>2. \/ Sound(finalize(Start(f)).v) /\ finalize(Start(f)).v.clean = TRUE
      \/ finalize(Start(f)).v.clean = FALSE
  BY RemountWorks
<1> QED BY <1>1, <1>2, MountOpen, MountClosed

\* A volume that is closed stays so: nothing is written to it.
LEMMA ClosedStays ==
  ASSUME Closed, Next
  PROVE  Closed'
<1>1. ~(WriteFile \/ CreateFile \/ CreateDirectory \/ RemovePath)
  BY DEF Closed, WriteFile, CreateFile, CreateDirectory, RemovePath
<1>2. CASE ChangeDirectory
  BY <1>2 DEF ChangeDirectory, Closed
<1>3. CASE Remount
  <2>1. PICK f \in Fault : Mounted(finalize(Start(f)).v)
    BY <1>3, Zenon DEF Remount
  <2>2. finalize(Start(f)).v = vol
    BY DEF finalize, Start, Closed
  <2> QED BY <2>1, <2>2, MountClosed DEF Closed
<1> QED BY <1>1, <1>2, <1>3 DEF Next

\* While every write gets through, each command takes a sound volume to a sound
\* one, and has marked it if it changed it.
THEOREM OpenAlways ==
  ASSUME Faults = {}
  PROVE  Spec => []Open
<1>1. Init => Open
  BY InitOpen
<1>2. Open /\ [Next]_vars => Open'
  <2>1. CASE Open /\ UNCHANGED vars
    BY <2>1 DEF vars, Open
  <2>2. Open /\ (WriteFile \/ CreateFile \/ CreateDirectory \/ RemovePath) => Open'
    <3>1. \A f \in Fault : f = Healthy
      BY DEF Fault
    <3>2. Open /\ (WriteFile \/ CreateFile \/ CreateDirectory \/ RemovePath) => \E e : Works(Healthy, e)
      BY <3>1, WriteFileWorks, CreateFileWorks, CreateDirectoryWorks, RemoveWorks
    <3> QED BY <3>2, FinishOpen
  <2>3. Open /\ Next => Open'
    BY <2>2, ChangeDirectoryOpen, RemountOpen DEF Next
  <2> QED BY <2>1, <2>3
<1> QED BY <1>1, <1>2, PTL DEF Spec

\* Wherever the power goes, in a command or between two, the volume comes up open
\* and sound, or closed.
THEOREM CautiousAlways ==
  ASSUME Faults \subseteq {"cut"}
  PROVE  Spec => [](Open \/ Closed)
<1>1. Init => Open
  BY InitOpen
<1>2. (Open \/ Closed) /\ [Next]_vars => Open' \/ Closed'
  <2>1. CASE (Open \/ Closed) /\ UNCHANGED vars
    BY <2>1 DEF vars, Open, Closed
  <2>2. Open /\ (WriteFile \/ CreateFile \/ CreateDirectory \/ RemovePath) => Open' \/ Closed'
    <3>1. \A f \in Fault : f = Healthy \/ f.kind = "cut"
      BY DEF Fault
    <3>2. Open /\ (WriteFile \/ CreateFile \/ CreateDirectory \/ RemovePath) => \E f \in Fault : \E e : Works(f, e)
      BY WriteFileWorks, CreateFileWorks, CreateDirectoryWorks, RemoveWorks
    <3> QED BY <3>1, <3>2, FinishOpen, CutCautious
  <2>3. Open /\ Next => Open' \/ Closed'
    BY <2>2, ChangeDirectoryOpen, RemountCautious DEF Next
  <2> QED BY <2>1, <2>3, ClosedStays
<1> QED BY <1>1, <1>2, PTL DEF Spec

\* A sound volume has the types of the specification.
LEMMA OpenTypes == Open => TypeOK
<1> SUFFICES ASSUME Open PROVE TypeOK
  OBVIOUS
<1>1. Sound(vol)
  BY DEF Open
<1>2. vol.clean \in BOOLEAN /\ {writable, dirty, vol.clean} \subseteq BOOLEAN /\ cwd \in Inode /\ cwdPath \in Seq(Names)
  BY <1>1, SoundTypes DEF Open
<1> QED BY <1>1, <1>2, SoundTypes, Zenon DEF TypeOK

\* The state keeps the types that the code declares: an extent root or leaf never
\* has more entries than room, and every block an inode names is one of the disk.
THEOREM Ext4Types ==
  ASSUME Faults = {}
  PROVE  Spec => []TypeOK
<1> QED BY OpenTypes, OpenAlways, PTL

\* After every command, whether it succeeds, is refused or runs out of space half
\* way, each block in use has one owner, no block is leaked, and i_blocks and the
\* size of every inode fit its extents.
THEOREM BlocksAlwaysOwned ==
  ASSUME Faults = {}
  PROVE  Spec => []BlocksAreOwned
<1>1. Open => BlocksAreOwned
  BY SoundBlocks DEF Open, BlocksAreOwned
<1> QED BY <1>1, OpenAlways, PTL

\* The names, the inode bitmap and the link counts tell the same tree after every
\* creation, removal and undone creation.
THEOREM InodesAlwaysNamed ==
  ASSUME Faults = {}
  PROVE  Spec => []InodesAreNamed
<1>1. Open => InodesAreNamed
  BY SoundNames DEF Open, InodesAreNamed
<1> QED BY <1>1, OpenAlways, PTL

\* The counters of the groups and of the superblock agree with the bitmaps.
THEOREM CountsAlwaysBitmaps ==
  ASSUME Faults = {}
  PROVE  Spec => []CountsAreBitmaps
<1>1. Open => CountsAreBitmaps
  BY SoundCounts DEF Open, CountsAreBitmaps
<1> QED BY <1>1, OpenAlways, PTL

\* Every unit of a file below its size was written, and every block of a
\* directory is full of records.
THEOREM FilesAlwaysReadable ==
  ASSUME Faults = {}
  PROVE  Spec => []FilesReadable
<1>1. Open => FilesReadable
  BY SoundContent DEF Open, FilesReadable
<1> QED BY <1>1, OpenAlways, PTL

\* What is mounted for writing, or not yet changed, is consistent as a whole,
\* wherever the power went before: a command turns the clean bit off before its
\* first change, only finalize turns it on again, and a volume that was not left
\* clean is never written (mountAt).
THEOREM AlwaysSafeToWrite ==
  ASSUME Faults \subseteq {"cut"}
  PROVE  Spec => []SafeToWrite
<1>1. Open \/ Closed => SafeToWrite
  BY SoundConsistent DEF Open, Closed, SafeToWrite
<1> QED BY <1>1, CautiousAlways, PTL

\* In the same way a volume that may be written keeps its types, owners, names,
\* counters and texts between any two commands, dirty or not, wherever the power
\* went: what a cut command leaves is only ever mounted read-only.
THEOREM WritableAlwaysWhole ==
  ASSUME Faults \subseteq {"cut"}
  PROVE  Spec => [](writable => /\ TypeOK /\ BlocksAreOwned /\ InodesAreNamed /\ CountsAreBitmaps /\ FilesReadable
                              /\ NamesLeadSomewhere)
<1>1. Open \/ Closed =>
        (writable => /\ TypeOK /\ BlocksAreOwned /\ InodesAreNamed /\ CountsAreBitmaps /\ FilesReadable
                     /\ NamesLeadSomewhere)
  <2>1. Open => TypeOK
    BY OpenTypes
  <2>2. Open => BlocksAreOwned /\ InodesAreNamed /\ CountsAreBitmaps /\ FilesReadable
    BY SoundBlocks, SoundNames, SoundCounts, SoundContent
       DEF Open, BlocksAreOwned, InodesAreNamed, CountsAreBitmaps, FilesReadable
  <2>3. Open => NamesLeadSomewhere
    BY SoundNamed DEF Open, NamesLeadSomewhere
  <2> QED BY <2>1, <2>2, <2>3, Zenon DEF Closed
<1> QED BY <1>1, CautiousAlways, PTL

--------------------------------------------------------------------------------
(* What a command does to the tree *)

\* The tree t is that of volume v, and here the path of its directory `at`.
Mirrors(v, t, at, here) ==
  /\ t = TreeOf(v) /\ at \in Dirs(v)
  /\ \E P : Spells(Kids(v), Used(v), P) /\ here = P[at]
Mirror == Open /\ Mirrors(vol, tree, cwd, cwdPath)

\* The ways from v to w, under which a command that says s may go.
Even(v, w, S)  == Kids(w) = Kids(v) /\ Used(w) = Used(v) /\ \A n \in Used(v) \ S : Leafage(w, n) = Leafage(v, n)
Texted(s, from, n, size) ==
  from <= size /\ (\/ s = "ok" /\ size = from + n
                   \/ s = "noSpace" /\ size < from + n)
Filed(old, w, c, s) ==
  \E n \in Lengths : \E from \in {0, old} : \E size \in Nat :
    Leafage(w, c) = Tree!File(size) /\ Texted(s, from, n, size)
Refuses(v, w, s) == Even(v, w, {}) /\ s # "ok"
Touches(v, w, s) == Even(v, w, {}) /\ s = "ok" /\ \E c \in Used(v) : v.table[c].kind = "file"
Fills(v, w, s) == \E c \in Used(v) : v.table[c].kind = "file" /\ Even(v, w, {c}) /\ Filed(v.table[c].size, w, c, s)
Budded(v, w, p, name, c) ==
  /\ Kids(w) = Kids(v) \cup {<<p, name, c>>} /\ Used(w) = Used(v) \cup {c}
  /\ \A n \in Used(v) : Leafage(w, n) = Leafage(v, n)
Plants(v, w, s) ==
  \E p \in Dirs(v), name \in Names, c \in Inode \ Used(v) :
    /\ Budded(v, w, p, name, c)
    /\ Filed(0, w, c, s) \/ (s = "ok" /\ Leafage(w, c) \in {Tree!Dir, Tree!File(0)})
Pulls(v, w, s) ==
  \E p, name, c :
    /\ s = "ok" /\ Pruned(v, w, p, name, c) /\ c # cwd /\ (\A e \in Kids(v) : e[1] # c)
    /\ \A n \in Used(v) : n # c => Leafage(w, n) = Leafage(v, n)
Outcome(v, w, s) == Refuses(v, w, s) \/ Touches(v, w, s) \/ Fills(v, w, s) \/ Plants(v, w, s) \/ Pulls(v, w, s)

\* Where the directory is left.
LEMMA StillMirrors ==
  ASSUME NEW v, NEW w, Sound(w), NEW P, Follows(v, w, P), NEW at \in Dirs(v), at \in Used(w),
         NEW here, here = P[at], Leafage(w, at) = Leafage(v, at), NEW t, t = TreeOf(w)
  PROVE  Mirrors(w, t, at, here)
<1>1. PICK Q : Spells(Kids(w), Used(w), Q) /\ \A n \in Used(v) \cap Used(w) : Q[n] = P[n]
  BY DEF Follows
<1>2. at \in Used(v) /\ v.table[at].kind = "dir" /\ at \in Inode
  BY DEF Used, Dirs
<1>3. here = Q[at]
  BY <1>1, <1>2
<1>4. at \in Dirs(w)
  <2>1. Leafage(w, at) = Leafage(v, at)
    OBVIOUS
  <2>2. Leafage(w, at).dir /\ at \in Inode
    BY <1>2, <2>1 DEF Leafage
  <2> QED BY <2>2 DEF Leafage, Dirs
<1> QED BY <1>1, <1>3, <1>4, Zenon DEF Mirrors

LEMMA TreeNodes ==
  Tree!Dir = [dir |-> TRUE, size |-> 0] /\ \A k : Tree!File(k) = [dir |-> FALSE, size |-> k]
BY DEF Tree!Dir, Tree!File

\* A text in the tree.
LEMMA FiledWrites ==
  ASSUME NEW q, NEW old \in Nat, q \in Tree!Vacant \/ q \in Tree!Files, {0, old} \subseteq Tree!Starts(q),
         NEW w, NEW c, NEW s, Filed(old, w, c, s), status' = s, tree' = Tree!With(q, Leafage(w, c))
  PROVE  Tree!Write \/ Tree!WriteCutShort
<1>1. PICK n \in Lengths : \E from \in {0, old} : \E size \in Nat :
        Leafage(w, c) = Tree!File(size) /\ Texted(s, from, n, size)
  BY Zenon DEF Filed
<1>2. PICK from \in {0, old} : \E size \in Nat :
        Leafage(w, c) = Tree!File(size) /\ Texted(s, from, n, size)
  BY <1>1, Zenon
<1>3. PICK size \in Nat : Leafage(w, c) = Tree!File(size) /\ Texted(s, from, n, size)
  BY <1>2, Zenon
<1>4. q \in Tree!Vacant \cup Tree!Files /\ from \in Tree!Starts(q) /\ from \in Nat /\ n \in Nat
  <2>1. q \in Tree!Vacant \cup Tree!Files
    BY Zenon
  <2>2. from \in Tree!Starts(q)
    BY Zenon
  <2>3. from \in Nat
    BY SMT
  <2>4. n \in Nat
    BY Zenon, Ext4Assumption
  <2> QED BY <2>1, <2>2, <2>3, <2>4
<1>5. tree' = Tree!With(q, Tree!File(size))
  BY <1>3
<1>6. CASE s = "ok" /\ size = from + n
  BY <1>4, <1>5, <1>6 DEF Tree!Write
<1>7. CASE s = "noSpace" /\ size < from + n
  <2>1. size \in from .. from + n - 1
    BY <1>3, <1>4, <1>7 DEF Texted
  <2> QED BY <1>4, <1>5, <1>7, <2>1 DEF Tree!WriteCutShort
<1> QED BY <1>3, <1>6, <1>7 DEF Texted

\* Whichever way a command goes, the tree of files goes with it.
LEMMA Reflects ==
  ASSUME Mirror, NEW e, Finish(e), e.kind # "cut", Sound(e.v), Outcome(vol, e.v, e.status)
  PROVE  Mirrors(vol', tree', cwd', cwdPath') /\ Tree!TreeNext
<1> DEFINE w == e.v
           s == e.status
<1>1. vol' = w /\ tree' = TreeOf(w) /\ status' = s /\ cwd' = cwd /\ cwdPath' = cwdPath
  BY DEF Finish
<1>2. Sound(vol) /\ tree = TreeOf(vol) /\ cwd \in Dirs(vol) /\ Sound(w)
  BY DEF Mirror, Mirrors, Open
<1>3. PICK P : Spells(Kids(vol), Used(vol), P) /\ cwdPath = P[cwd]
  BY DEF Mirror, Mirrors
<1>4. cwd \in Used(vol)
  BY <1>2, UsedIn
<1>5. Outcome(vol, w, s)
  OBVIOUS
<1> HIDE DEF w, s
<1>6. CASE Refuses(vol, w, s) \/ Touches(vol, w, s)
  <2>1. Kids(w) = Kids(vol) /\ Used(w) = Used(vol) /\ \A n \in Used(vol) : Leafage(w, n) = Leafage(vol, n)
    BY <1>6 DEF Refuses, Touches, Even
  <2>2. TreeOf(w) = TreeOf(vol)
    BY <1>2, <1>3, <2>1, TreeStays
  <2>3. Follows(vol, w, P)
    BY <1>3, <2>1, Zenon DEF Follows
  <2>4. Mirrors(w, TreeOf(w), cwd, cwdPath)
    BY <1>2, <1>3, <1>4, <2>1, <2>3, StillMirrors
  <2>5. tree' = tree
    BY <1>1, <1>2, <2>2
  <2>6. s # "ok" => Tree!Refuse
    BY <1>1, <2>5 DEF Tree!Refuse
  <2>7. Touches(vol, w, s) => Tree!Touch
    <3> SUFFICES ASSUME Touches(vol, w, s) PROVE Tree!Touch
      OBVIOUS
    <3>1. PICK c \in Used(vol) : vol.table[c].kind = "file"
      BY DEF Touches
    <3>2. \A n \in Used(vol) : n # c => Leafage(w, n) = Leafage(vol, n)
      BY <2>1
    <3>3. \E q \in DOMAIN tree : ~tree[q].dir
      BY <1>1, <1>2, <1>3, <2>1, <3>1, <3>2, TreeSets
    <3>4. s = "ok" /\ Tree!Files # {}
      BY <3>3 DEF Touches, Tree!Files
    <3> QED BY <1>1, <2>5, <3>4 DEF Tree!Touch
  <2>8. Tree!Refuse \/ Tree!Touch
    BY <1>6, <2>6, <2>7 DEF Refuses
  <2> QED BY <1>1, <2>4, <2>8 DEF Tree!TreeNext
<1>7. CASE Fills(vol, w, s)
  <2>1. PICK c \in Used(vol) : vol.table[c].kind = "file" /\ Even(vol, w, {c}) /\ Filed(vol.table[c].size, w, c, s)
    BY <1>7 DEF Fills
  <2>2. Kids(w) = Kids(vol) /\ Used(w) = Used(vol) /\ \A n \in Used(vol) : n # c => Leafage(w, n) = Leafage(vol, n)
    BY <2>1 DEF Even
  <2>5. PICK q \in DOMAIN tree :
          /\ Follows(vol, w, P) /\ ~tree[q].dir /\ tree[q] = Leafage(vol, c)
          /\ tree' = Tree!With(q, Leafage(w, c))
    BY <1>1, <1>2, <1>3, <2>1, <2>2, TreeSets
  <2>6. Mirrors(w, TreeOf(w), cwd, cwdPath)
    <3>1. cwd # c
      BY <1>2, <2>1 DEF Dirs
    <3>2. cwd \in Used(w) /\ Leafage(w, cwd) = Leafage(vol, cwd)
      BY <1>4, <2>2, <3>1
    <3> QED BY <1>2, <1>3, <2>5, <3>2, StillMirrors
  <2>7. Tree!Write \/ Tree!WriteCutShort
    <3> DEFINE old == vol.table[c].size
    <3>1. old \in Nat
      BY <1>2, <2>1, UsedIn DEF NodeType
    <3>2. tree[q].size = old
      BY <2>1, <2>5 DEF Leafage
    <3>3. q \in Tree!Files /\ Tree!Starts(q) = {0, old}
      BY <2>5, <3>2 DEF Tree!Files, Tree!Starts
    <3> HIDE DEF old
    <3>4. Filed(old, w, c, s)
      BY <2>1 DEF old
    <3> QED BY <1>1, <2>5, <3>1, <3>3, <3>4, FiledWrites
  <2> QED BY <1>1, <2>6, <2>7 DEF Tree!TreeNext, Tree!Change
<1>8. CASE Plants(vol, w, s)
  <2>1. PICK p \in Dirs(vol), name \in Names, c \in Inode \ Used(vol) :
          /\ Kids(w) = Kids(vol) \cup {<<p, name, c>>} /\ Used(w) = Used(vol) \cup {c}
          /\ \A n \in Used(vol) : Leafage(w, n) = Leafage(vol, n)
          /\ Filed(0, w, c, s) \/ (s = "ok" /\ Leafage(w, c) \in {Tree!Dir, Tree!File(0)})
    BY <1>8 DEF Plants, Budded
  <2>2. PICK q \in Tree!Vacant : Follows(vol, w, P) /\ tree' = Tree!With(q, Leafage(w, c))
    BY <1>1, <1>2, <1>3, <2>1, TreeGrows
  <2>3. Mirrors(w, TreeOf(w), cwd, cwdPath)
    BY <1>2, <1>3, <1>4, <2>1, <2>2, StillMirrors
  <2>4. Tree!Create \/ Tree!Write \/ Tree!WriteCutShort
    <3>1. CASE s = "ok" /\ Leafage(w, c) \in {Tree!Dir, Tree!File(0)}
      BY <1>1, <2>2, <3>1 DEF Tree!Create
    <3>2. CASE Filed(0, w, c, s)
      <4>1. q \notin Tree!Files
        BY DEF Tree!Vacant, Tree!Files
      <4>2. {0, 0} \subseteq Tree!Starts(q) /\ 0 \in Nat
        BY <4>1 DEF Tree!Starts
      <4> QED BY <1>1, <2>2, <3>2, <4>2, FiledWrites
    <3> QED BY <2>1, <3>1, <3>2
  <2> QED BY <1>1, <2>3, <2>4 DEF Tree!TreeNext, Tree!Change
<1>9. CASE Pulls(vol, w, s)
  <2>1. PICK p, name, c :
          /\ s = "ok" /\ Pruned(vol, w, p, name, c) /\ c # cwd /\ (\A x \in Kids(vol) : x[1] # c)
          /\ \A n \in Used(vol) : n # c => Leafage(w, n) = Leafage(vol, n)
    BY <1>9 DEF Pulls
  <2>2. Follows(vol, w, P) /\ Plucks(P[c]) /\ \A n \in Used(vol) : n # c => P[n] # P[c]
    BY <1>1, <1>2, <1>3, <2>1, TreeLoses
  <2>3. Mirrors(w, TreeOf(w), cwd, cwdPath)
    <3>1. Used(w) = Used(vol) \ {c}
      BY <2>1 DEF Pruned
    <3>2. cwd \in Used(w) /\ Leafage(w, cwd) = Leafage(vol, cwd)
      BY <1>4, <2>1, <3>1
    <3> QED BY <1>2, <1>3, <2>2, <3>2, StillMirrors
  <2>4. P[c] # cwdPath
    BY <1>3, <1>4, <2>1, <2>2
  <2> DEFINE q == P[c]
  <2>5. q \in DOMAIN tree \ {Tree!root, cwdPath} /\ (tree[q].dir => Tree!IsEmpty(q)) /\ tree' = Tree!Without(q)
    BY <2>2, <2>4, Zenon DEF Plucks, Tree!root
  <2>6. Tree!Delete
    BY <1>1, <2>1, <2>5, Zenon DEF Tree!Delete
  <2> QED BY <1>1, <2>3, <2>6 DEF Tree!TreeNext, Tree!Change
<1> QED BY <1>5, <1>6, <1>7, <1>8, <1>9 DEF Outcome

--------------------------------------------------------------------------------
(* The commands on the tree *)


\* The tree is in the inodes and their blocks.
LEMMA TableTree ==
  ASSUME NEW v, NEW w, w.table = v.table, w.data = v.data
  PROVE  Kids(w) = Kids(v) /\ Used(w) = Used(v) /\ Dirs(w) = Dirs(v) /\ \A n : Leafage(w, n) = Leafage(v, n)
<1>1. Used(w) = Used(v) /\ Dirs(w) = Dirs(v)
  BY Zenon DEF Used, Dirs
<1>2. \A n : Leafage(w, n) = Leafage(v, n)
  BY Zenon DEF Leafage
<1>3. \A n : Ent(w, n) = Ent(v, n)
  BY RelinkLines DEF SameTree
<1>4. EntOf(w) = EntOf(v)
  BY <1>3 DEF EntOf
<1> QED BY <1>1, <1>2, <1>4 DEF Kids

\* A volume marked dirty has the same tree.
LEMMA MarkedTree ==
  ASSUME NEW d, NEW m, Marked(d, m)
  PROVE  Kids(m.v) = Kids(d.v) /\ Used(m.v) = Used(d.v) /\ Dirs(m.v) = Dirs(d.v) /\ \A n : Leafage(m.v, n) = Leafage(d.v, n)
BY TableTree DEF Marked

LEMMA MarkedOutcome ==
  ASSUME NEW d, NEW m, Marked(d, m), NEW w, NEW s, Outcome(m.v, w, s)
  PROVE  Outcome(d.v, w, s)
<1>1. /\ Kids(m.v) = Kids(d.v) /\ Used(m.v) = Used(d.v) /\ Dirs(m.v) = Dirs(d.v)
      /\ \A n : Leafage(m.v, n) = Leafage(d.v, n)
  BY MarkedTree
<1>2. m.v.table = d.v.table
  BY DEF Marked
<1>3. \A S : Even(m.v, w, S) <=> Even(d.v, w, S)
  BY <1>1 DEF Even
<1>4. Refuses(m.v, w, s) => Refuses(d.v, w, s)
  BY <1>3 DEF Refuses
<1>5. (Fills(m.v, w, s) => Fills(d.v, w, s)) /\ (Touches(m.v, w, s) => Touches(d.v, w, s))
  BY <1>1, <1>2, <1>3 DEF Fills, Touches
<1>6. Plants(m.v, w, s) => Plants(d.v, w, s)
  <2>1. \A p, name, c : Budded(m.v, w, p, name, c) <=> Budded(d.v, w, p, name, c)
    BY <1>1 DEF Budded
  <2> QED BY <1>1, <2>1 DEF Plants
<1>7. Pulls(m.v, w, s) => Pulls(d.v, w, s)
  <2>1. \A p, name, c : Pruned(m.v, w, p, name, c) <=> Pruned(d.v, w, p, name, c)
    BY <1>1 DEF Pruned
  <2> QED BY <1>1, <2>1 DEF Pulls
<1> QED BY <1>4, <1>5, <1>6, <1>7 DEF Outcome

LEMMA FailOutcome ==
  ASSUME NEW d, NEW m, Live(m), Ok(m), m = d \/ Marked(d, m), NEW s \in Statuses, s # "ok"
  PROVE  Outcome(d.v, Fail(m, s).v, Fail(m, s).status)
<1>1. Fail(m, s).v = m.v /\ Fail(m, s).status = s
  BY FailDoes
<1>2. Outcome(m.v, m.v, s)
  BY DEF Outcome, Refuses, Even
<1> QED BY <1>1, <1>2, MarkedOutcome

\* makeNode puts its inode into the tree, or leaves it as it is.
Buds(m, e, p, name, kind) ==
  /\ p \in Dirs(m.v) /\ e.out \in Inode \ Used(m.v) /\ Budded(m.v, e.v, p, name, e.out)
  /\ e.v.table[e.out].kind = kind /\ Leafage(e.v, e.out) = (IF kind = "dir" THEN Tree!Dir ELSE Tree!File(0))

LEMMA MakeBuds ==
  ASSUME NEW d, NEW m, Marked(d, m), NEW p \in Inode, NEW name \in Names, NEW f, Finds(d.v, p, name, f),
         f.status = "notFound", NEW kind \in Kinds, NEW e, e = makeNode(m, p, name, kind)
  PROVE  /\ Live(e) /\ Sound(e.v) /\ e.set
         /\ (~Ok(e) => Refuses(m.v, e.v, e.status)) /\ (Ok(e) => Buds(m, e, p, name, kind))
<1>1. Live(m) /\ Ok(m) /\ m.set /\ Sound(m.v) /\ World(m.v, {})
  BY SoundWorld DEF Marked
<1>2. m.v.table[p].kind = "dir" /\ NoName(m.v, p, name)
  <2>1. Finds(m.v, p, name, f)
    BY MarkedLines
  <2> QED BY <2>1 DEF Finds
<1>3. Makes(m, e, p, name, kind)
  BY <1>1, <1>2, MakeNodeSpec
<1>4. CASE ~Ok(e)
  <2>1. Restored(m.v, e.v) /\ Live(e) /\ e.set
    BY <1>1, <1>3, <1>4 DEF Makes
  <2>2. Sound(e.v) /\ Kids(e.v) = Kids(m.v) /\ Used(e.v) = Used(m.v)
    BY <1>1, <2>1, RestoredKept, KeptSound
  <2>3. \A n \in Used(m.v) : Leafage(e.v, n) = Leafage(m.v, n)
    BY <2>1 DEF Restored, Same, Used, Leafage
  <2> QED BY <1>4, <2>1, <2>2, <2>3 DEF Refuses, Even, Ok
<1>5. CASE Ok(e)
  <2>1. Made(m.v, e.v, p, name, e.out, kind, Links(kind)) /\ Live(e) /\ e.set
    BY <1>1, <1>3, <1>5 DEF Makes
  <2>2. /\ Sound(e.v) /\ Kids(e.v) = Kids(m.v) \cup {<<p, name, e.out>>} /\ Used(e.v) = Used(m.v) \cup {e.out}
        /\ e.out \in Inode \ Used(m.v) /\ p \in Dirs(m.v)
    BY <1>1, <1>2, <2>1, MadeSound
  <2>3. /\ \A n \in Inode : n # e.out /\ n # p => Same(m.v, e.v, n)
        /\ e.v.table[p].kind = "dir" /\ e.v.table[e.out].kind = kind
        /\ kind = "file" => e.v.table[e.out].size = 0
    BY <2>1 DEF Made
  <2>4. ASSUME NEW n \in Used(m.v) PROVE Leafage(e.v, n) = Leafage(m.v, n)
    <3>1. CASE n = p
      BY <1>2, <2>3, <3>1 DEF Leafage
    <3>2. CASE n # p
      BY <2>2, <2>3, <3>2 DEF Leafage, Same, Used
    <3> QED BY <3>1, <3>2
  <2>5. Budded(m.v, e.v, p, name, e.out)
    BY <2>2, <2>4 DEF Budded
  <2>6. Leafage(e.v, e.out) = (IF kind = "dir" THEN Tree!Dir ELSE Tree!File(0))
    BY <2>3, TreeNodes DEF Leafage, Kinds
  <2> QED BY <1>5, <2>1, <2>2, <2>3, <2>5, <2>6 DEF Buds
<1> QED BY <1>4, <1>5

\* The text of a file changes its size, and no name.
LEMMA TextFills ==
  ASSUME NEW m, Live(m), Ok(m), Sound(m.v), NEW n \in Inode, m.v.table[n].kind = "file", NEW len \in Lengths,
         NEW append \in BOOLEAN, NEW e, e = WriteNode(m, n, m.v.table[n], len, append)
  PROVE  /\ Live(e) /\ Sound(e.v) /\ Even(m.v, e.v, {n}) /\ n \in Used(m.v)
         /\ Filed(m.v.table[n].size, e.v, n, e.status)
<1> DEFINE from == IF append THEN m.v.table[n].size ELSE 0
<1>1. Live(e) /\ FileStep(m.v, e.v, n) /\ CutShort(m, e, n, from, from + len) /\ World(m.v, {})
  <2>1. len \in Nat
    BY Ext4Assumption
  <2> QED BY <2>1, SoundWorld, WriteNodeSpec
<1>2. Sound(e.v) /\ Kids(e.v) = Kids(m.v) /\ Used(e.v) = Used(m.v)
  BY <1>1, FileKept, KeptSound
<1>3. \A k \in Used(m.v) \ {n} : Leafage(e.v, k) = Leafage(m.v, k)
  <2>1. \A k \in Inode \ {n} : e.v.table[k] = m.v.table[k]
    BY <1>1, Zenon DEF FileStep, Others, Same
  <2> QED BY <2>1 DEF Leafage, Used
<1> DEFINE old == m.v.table[n].size
           size == e.v.table[n].size
<1>4. from \in {0, old}
  OBVIOUS
<1> HIDE DEF from
<1>5. size \in Nat /\ Texted(e.status, from, len, size)
  <2>1. /\ e.status \in {"ok", "noSpace"} /\ size \in Nat /\ from <= size
        /\ IF Ok(e) THEN size = from + len ELSE size < from + len
    BY <1>1, Zenon DEF CutShort, Ok
  <2>2. Ok(e) <=> e.status = "ok"
    BY DEF Ok
  <2> HIDE DEF size
  <2> QED BY <2>1, <2>2 DEF Texted
<1>6. Leafage(e.v, n) = Tree!File(size)
  BY <1>1, TreeNodes DEF FileStep, Leafage
<1> HIDE DEF size
<1>8. Filed(old, e.v, n, e.status)
  BY <1>4, <1>5, <1>6 DEF Filed
<1>9. Even(m.v, e.v, {n})
  BY <1>2, <1>3, Zenon DEF Even
<1>10. n \in Used(m.v)
  BY DEF Used
<1> QED BY <1>1, <1>2, <1>8, <1>9, <1>10, Zenon

LEMMA WriteFileOutcome ==
  ASSUME NEW d, NEW path, NEW parent, NEW found, Given(d, path, parent, found), NEW n \in Lengths,
         NEW append \in BOOLEAN, NEW e, e = writeFile(d, path, n, append, parent, found)
  PROVE  Outcome(vol, e.v, e.status)
<1> DEFINE m == markDirty(d)
           name == Last(path.comps)
<1>0. Live(d) /\ Ok(d) /\ d.v = vol /\ Sound(d.v) /\ parent.status \in Statuses
  BY DEF Given
<1>1. CASE parent.status # "ok"
  <2>1. e = Fail(d, parent.status)
    BY <1>1 DEF writeFile
  <2> QED BY <1>0, <1>1, <2>1, FailOutcome
<1>2. CASE parent.status = "ok"
  <2>1. parent.ino \in Inode /\ name \in Names /\ Finds(d.v, parent.ino, name, found)
    BY <1>0, <1>2 DEF Given
  <2>2. Marked(d, m)
    BY <1>0, MarkSpec
  <2>3. e = WriteMarked(m, path, n, append, parent, found)
    BY <1>2 DEF writeFile
  <2> HIDE DEF m, name
  <2>4. Live(m) /\ Ok(m) /\ m.set /\ Sound(m.v) /\ m.v.table = vol.table /\ Finds(m.v, parent.ino, name, found)
    BY <1>0, <2>1, <2>2, MarkedLines DEF Marked
  <2>5. CASE found.status = "notFound"
    <3> DEFINE x == makeNode(m, parent.ino, name, "file")
    <3>1. e = WriteMade(x, n, append)
      BY <2>3, <2>4, <2>5 DEF WriteMarked, name
    <3>2. "file" \in Kinds
      BY DEF Kinds
    <3>3. /\ Live(x) /\ Sound(x.v) /\ x.set
          /\ (~Ok(x) => Refuses(m.v, x.v, x.status)) /\ (Ok(x) => Buds(m, x, parent.ino, name, "file"))
      BY <2>1, <2>2, <2>5, <3>2, MakeBuds
    <3> HIDE DEF x
    <3>4. CASE ~Ok(x)
      <4>1. e = x
        BY <3>1, <3>4 DEF WriteMade
      <4> QED BY <1>0, <2>2, <3>3, <3>4, <4>1, MarkedOutcome DEF Outcome
    <3>5. CASE Ok(x)
      <4> DEFINE c == x.out
      <4>1. e = WriteNode(x, c, x.v.table[c], n, append)
        BY <3>1, <3>5 DEF WriteMade
      <4>2. /\ c \in Inode \ Used(m.v) /\ parent.ino \in Dirs(m.v) /\ Budded(m.v, x.v, parent.ino, name, c)
            /\ x.v.table[c].kind = "file" /\ Leafage(x.v, c) = Tree!File(0)
        BY <3>3, <3>5 DEF Buds
      <4> HIDE DEF c
      <4>3. x.v.table[c].size = 0
        BY <4>2, TreeNodes DEF Leafage
      <4>5. Even(x.v, e.v, {c}) /\ Filed(0, e.v, c, e.status)
        BY <3>3, <3>5, <4>1, <4>2, <4>3, TextFills
      <4>6. Budded(m.v, e.v, parent.ino, name, c)
        BY <4>2, <4>5 DEF Budded, Even
      <4>7. Plants(m.v, e.v, e.status)
        BY <2>1, <4>2, <4>5, <4>6, Zenon DEF Plants
      <4> QED BY <1>0, <2>2, <4>7, MarkedOutcome DEF Outcome
    <3> QED BY <3>4, <3>5
  <2>6. CASE found.status = "notDirectory"
    <3>1. e = Fail(m, "notDirectory") /\ "notDirectory" \in Statuses
      BY <2>3, <2>4, <2>6 DEF WriteMarked, Statuses
    <3> QED BY <1>0, <2>2, <2>4, <3>1, FailOutcome
  <2>7. CASE found.status = "ok"
    <3>1. vol.table[found.ino].kind \in Kinds /\ found.ino \in Inode
      BY <1>0, <2>1, <2>7, FoundUsed
    <3>2. CASE vol.table[found.ino].kind = "dir"
      <4>1. e = Fail(m, "isDirectory") /\ "isDirectory" \in Statuses
        BY <2>3, <2>4, <2>7, <3>2 DEF WriteMarked, Statuses
      <4> QED BY <1>0, <2>2, <2>4, <4>1, FailOutcome
    <3>3. CASE vol.table[found.ino].kind = "file"
      <4>1. e = WriteNode(m, found.ino, m.v.table[found.ino], n, append)
        BY <2>3, <2>4, <2>7, <3>3 DEF WriteMarked
      <4>3. m.v.table[found.ino].kind = "file"
        BY <2>4, <3>3
      <4>4. /\ Even(m.v, e.v, {found.ino}) /\ found.ino \in Used(m.v)
            /\ Filed(m.v.table[found.ino].size, e.v, found.ino, e.status)
        BY <2>4, <3>1, <4>1, <4>3, TextFills
      <4>5. Fills(m.v, e.v, e.status)
        BY <4>3, <4>4, Zenon DEF Fills
      <4> QED BY <1>0, <2>2, <4>5, MarkedOutcome DEF Outcome
    <3> QED BY <3>1, <3>2, <3>3 DEF Kinds
  <2> QED BY <2>1, <2>5, <2>6, <2>7, FoundStatus
<1> QED BY <1>1, <1>2

LEMMA CreateFileOutcome ==
  ASSUME NEW d, NEW path, NEW parent, NEW found, Given(d, path, parent, found),
         NEW e, e = createFile(d, path, parent, found)
  PROVE  Outcome(vol, e.v, e.status)
<1>0. Live(d) /\ Ok(d) /\ d.v = vol /\ Sound(d.v) /\ parent.status \in Statuses
  BY DEF Given
<1>1. CASE parent.status # "ok"
  <2>1. e = Fail(d, parent.status)
    BY <1>1 DEF createFile
  <2> QED BY <1>0, <1>1, <2>1, FailOutcome
<1>2. CASE parent.status = "ok"
  <2>1. parent.ino \in Inode /\ Last(path.comps) \in Names /\ Finds(d.v, parent.ino, Last(path.comps), found)
    BY <1>0, <1>2 DEF Given
  <2>2. CASE found.status = "notFound"
    <3> DEFINE m == markDirty(d)
    <3>1. e = makeNode(m, parent.ino, Last(path.comps), "file") /\ "file" \in Kinds
      BY <1>2, <2>2 DEF createFile, Kinds
    <3>2. Marked(d, m)
      BY <1>0, MarkSpec
    <3> HIDE DEF m
    <3>3. /\ (~Ok(e) => Refuses(m.v, e.v, e.status))
          /\ (Ok(e) => Buds(m, e, parent.ino, Last(path.comps), "file"))
      BY <2>1, <2>2, <3>1, <3>2, MakeBuds
    <3>4. Ok(e) => e.status = "ok" /\ Leafage(e.v, e.out) = Tree!File(0)
      BY <3>3 DEF Buds, Ok
    <3>5. Ok(e) => Plants(m.v, e.v, e.status)
      BY <2>1, <3>3, <3>4, Zenon DEF Plants, Buds
    <3> QED BY <1>0, <3>2, <3>3, <3>5, MarkedOutcome DEF Outcome
  <2>3. CASE found.status = "notDirectory"
    <3>1. e = Fail(d, "notDirectory") /\ "notDirectory" \in Statuses
      BY <1>2, <2>3 DEF createFile, Statuses
    <3> QED BY <1>0, <3>1, FailOutcome
  <2>4. CASE found.status = "ok"
    <3>1. vol.table[found.ino].kind \in Kinds /\ found.ino \in Inode
      BY <1>0, <2>1, <2>4, FoundUsed
    <3>2. CASE vol.table[found.ino].kind = "dir"
      <4>1. e = Fail(d, "isDirectory") /\ "isDirectory" \in Statuses
        BY <1>2, <2>4, <3>2 DEF createFile, Statuses
      <4> QED BY <1>0, <4>1, FailOutcome
    <3>3. CASE vol.table[found.ino].kind = "file"
      <4>1. e = Fail(d, "ok") /\ "ok" \in Statuses
        BY <1>2, <2>4, <3>3 DEF createFile, Statuses
      <4>2. e.v = vol /\ e.status = "ok"
        BY <1>0, <4>1, FailDoes
      <4>3. found.ino \in Used(vol)
        BY <3>1, <3>3 DEF Used
      <4>4. Touches(vol, vol, "ok")
        BY <3>3, <4>3 DEF Touches, Even
      <4> QED BY <4>2, <4>4 DEF Outcome
    <3> QED BY <3>1, <3>2, <3>3 DEF Kinds
  <2> QED BY <2>1, <2>2, <2>3, <2>4, FoundStatus
<1> QED BY <1>1, <1>2

LEMMA CreateDirectoryOutcome ==
  ASSUME NEW d, NEW path, NEW parent, NEW found, Given(d, path, parent, found),
         NEW e, e = createDirectory(d, path, parent, found)
  PROVE  Outcome(vol, e.v, e.status)
<1> DEFINE m == markDirty(d)
<1>0. Live(d) /\ Ok(d) /\ d.v = vol /\ Sound(d.v) /\ parent.status \in Statuses
  BY DEF Given
<1>1. CASE parent.status # "ok"
  <2>1. e = Fail(d, parent.status)
    BY <1>1 DEF createDirectory
  <2> QED BY <1>0, <1>1, <2>1, FailOutcome
<1>2. CASE parent.status = "ok"
  <2>1. parent.ino \in Inode /\ Last(path.comps) \in Names /\ Finds(d.v, parent.ino, Last(path.comps), found)
    BY <1>0, <1>2 DEF Given
  <2>2. Marked(d, m)
    BY <1>0, MarkSpec
  <2>3. e = MakeMarked(m, path, parent, found)
    BY <1>2 DEF createDirectory
  <2> HIDE DEF m
  <2>4. Live(m) /\ Ok(m)
    BY <2>2 DEF Marked
  <2>5. CASE found.status = "notFound"
    <3>1. e = makeNode(m, parent.ino, Last(path.comps), "dir") /\ "dir" \in Kinds
      BY <2>3, <2>4, <2>5 DEF MakeMarked, Kinds
    <3>2. /\ (~Ok(e) => Refuses(m.v, e.v, e.status))
          /\ (Ok(e) => Buds(m, e, parent.ino, Last(path.comps), "dir"))
      BY <2>1, <2>2, <2>5, <3>1, MakeBuds
    <3>3. Ok(e) => e.status = "ok" /\ Leafage(e.v, e.out) = Tree!Dir
      BY <3>2 DEF Buds, Ok
    <3>4. Ok(e) => Plants(m.v, e.v, e.status)
      BY <2>1, <3>2, <3>3, Zenon DEF Plants, Buds
    <3> QED BY <1>0, <2>2, <3>2, <3>4, MarkedOutcome DEF Outcome
  <2>6. CASE found.status # "notFound"
    <3>1. \E s \in Statuses : s # "ok" /\ e = Fail(m, s)
      BY <2>1, <2>3, <2>4, <2>6, FoundStatus DEF MakeMarked, Statuses
    <3> QED BY <1>0, <2>2, <2>4, <3>1, FailOutcome
  <2> QED BY <2>5, <2>6
<1> QED BY <1>1, <1>2

LEMMA RemoveOutcome ==
  ASSUME NEW d, NEW path, NEW parent, NEW found, Given(d, path, parent, found), NEW e, e = remove(d, parent, found)
  PROVE  Outcome(vol, e.v, e.status)
<1> DEFINE m == markDirty(d)
           node == vol.table[found.ino]
<1>1. Live(d) /\ Ok(d) /\ d.v = vol /\ Sound(d.v) /\ parent.status \in Statuses /\ "invalidName" \in Statuses
  BY DEF Given, Statuses
<1>2. CASE parent.status # "ok" \/ found.status # "ok" \/ Protected(found.ino)
  <2>1. \E s \in Statuses : s # "ok" /\ e = Fail(d, s)
    BY <1>1, <1>2, FoundStatus DEF Given, remove
  <2> QED BY <1>1, <2>1, FailOutcome
<1>3. CASE ~(parent.status # "ok" \/ found.status # "ok" \/ Protected(found.ino))
  <2>1. /\ parent.ino \in Inode /\ Last(path.comps) \in Names /\ Finds(d.v, parent.ino, Last(path.comps), found)
        /\ found.status = "ok" /\ found.ino # cwd
    BY <1>1, <1>3 DEF Given, Protected
  <2>2. e = RemoveMarked(m, parent, found, node)
    BY <1>3 DEF remove
  <2>3. Marked(d, m)
    BY <1>1, MarkSpec
  <2> HIDE DEF m
  <2>4. /\ Live(m) /\ Ok(m) /\ m.set /\ Sound(m.v) /\ node = m.v.table[found.ino]
        /\ Finds(m.v, parent.ino, Last(path.comps), found) /\ \A n : Ent(m.v, n) = Ent(vol, n)
    BY <1>1, <2>1, <2>3, MarkedLines DEF Marked
  <2>5. node.kind \in Kinds /\ found.ino \in Inode
    BY <2>1, <2>4, FoundUsed
  <2>6. CASE node.kind = "dir" /\ ~dirIsEmpty(vol, found.ino)
    <3>1. e = Fail(m, "directoryNotEmpty") /\ "directoryNotEmpty" \in Statuses
      BY <2>2, <2>4, <2>6 DEF RemoveMarked, Statuses
    <3> QED BY <1>1, <2>3, <2>4, <3>1, FailOutcome
  <2>7. CASE ~(node.kind = "dir" /\ ~dirIsEmpty(vol, found.ino))
    <3> DEFINE x == Erase(m, found, m.v.table[found.ino])
    <3>1. node.kind = "dir" => \A q \in Ent(m.v, found.ino) : q[1] \in {".", ".."}
      <4>1. node.kind = "dir" => Folder(vol, found.ino) /\ dirIsEmpty(vol, found.ino)
        BY <1>1, <2>5, <2>7, SoundWorld DEF Folder, World
      <4> QED BY <2>4, <4>1, EmptyDir
    <3>2. e = IF node.kind = "file" THEN x ELSE adjustLinks(x, parent.ino, -1)
      BY <2>2, <2>4, <2>5, <2>7 DEF RemoveMarked, Kinds
    <3> HIDE DEF node
    <3>3. Erased(m, e, parent.ino, Last(path.comps), found.ino, node.kind)
      BY <2>1, <2>4, <3>1, <3>2, EraseDone
    <3> DEFINE c == found.ino
               p == parent.ino
               name == Last(path.comps)
    <3> HIDE DEF x, c, p, name
    <3>4. /\ Pruned(m.v, e.v, p, name, c) /\ (\A y \in Kids(m.v) : y[1] # c) /\ e.status = "ok"
          /\ Gone(m.v, e.v, p, name, c, node.kind = "dir", -Links(node.kind))
      BY <3>3 DEF Erased, Ok, c, p, name
    <3>5. (\A n \in Inode : n # c /\ n # p => Same(m.v, e.v, n)) /\ e.v.table[p].kind = "dir"
      BY <3>4 DEF Gone
    <3>6. m.v.table[p].kind = "dir"
      BY <2>1, <2>4, FoundUsed DEF p
    <3>7. ASSUME NEW n \in Used(m.v), n # c PROVE Leafage(e.v, n) = Leafage(m.v, n)
      <4>1. CASE n = p
        BY <3>5, <3>6, <4>1 DEF Leafage
      <4>2. CASE n # p
        BY <3>5, <3>7, <4>2 DEF Leafage, Same, Used
      <4> QED BY <4>1, <4>2
    <3>8. c # cwd
      BY <2>1 DEF c
    <3>9. Pulls(m.v, e.v, e.status)
      BY <3>4, <3>7, <3>8, Zenon DEF Pulls
    <3> QED BY <1>1, <2>3, <3>9, MarkedOutcome DEF Outcome
  <2> QED BY <2>6, <2>7
<1> QED BY <1>2, <1>3


--------------------------------------------------------------------------------
(* The driver goes as the tree *)

\* What a command that nothing strikes has come to, for the volume and its tree.
Goes(e) == Works(Healthy, e) /\ Outcome(vol, e.v, e.status)

LEMMA WriteFileGoes ==
  ASSUME Mirror, Faults = {}, WriteFile
  PROVE  \E e : Goes(e)
<1>1. PICK f \in Fault, path \in Paths, n \in Lengths, append \in BOOLEAN :
        Finish(writeFile(Start(f), path, n, append, resolveParent(path), LastIn(resolveParent(path), path)))
  BY Zenon DEF WriteFile
<1>2. f = Healthy /\ Open
  BY DEF Fault, Mirror, Mirrors
<1> DEFINE d == Start(Healthy)
           parent == resolveParent(path)
           found == LastIn(parent, path)
           e == writeFile(d, path, n, append, parent, found)
<1>3. Resolved(path, parent, found) /\ n \in Nat
  BY <1>2, ParentSpec, Ext4Assumption DEF Open
<1>4. Finish(e)
  BY <1>1, <1>2
<1> HIDE DEF parent, found
<1>5. Given(d, path, parent, found)
  BY <1>2, <1>3, StartGiven
<1>6. Marks(d, e)
  BY <1>2, <1>3, StartBegun, WriteFileMarks DEF Fault
<1>7. Done(d, e)
  BY <1>3, <1>5, WriteFileDone
<1> HIDE DEF d
<1>8. Outcome(vol, e.v, e.status)
  BY <1>5, WriteFileOutcome
<1> HIDE DEF e
<1> QED BY <1>4, <1>6, <1>7, <1>8, Zenon DEF Goes, Works, d

LEMMA CreateFileGoes ==
  ASSUME Mirror, Faults = {}, CreateFile
  PROVE  \E e : Goes(e)
<1>1. PICK f \in Fault, path \in Paths :
        Finish(createFile(Start(f), path, resolveParent(path), LastIn(resolveParent(path), path)))
  BY Zenon DEF CreateFile
<1>2. f = Healthy /\ Open
  BY DEF Fault, Mirror, Mirrors
<1> DEFINE d == Start(Healthy)
           parent == resolveParent(path)
           found == LastIn(parent, path)
           e == createFile(d, path, parent, found)
<1>3. Resolved(path, parent, found)
  BY <1>2, ParentSpec DEF Open
<1>4. Finish(e)
  BY <1>1, <1>2
<1> HIDE DEF parent, found
<1>5. Given(d, path, parent, found)
  BY <1>2, <1>3, StartGiven
<1>6. Marks(d, e)
  BY <1>2, StartBegun, CreateFileMarks DEF Fault
<1>7. Done(d, e)
  BY <1>5, CreateFileDone
<1> HIDE DEF d
<1>8. Outcome(vol, e.v, e.status)
  BY <1>5, CreateFileOutcome
<1> HIDE DEF e
<1> QED BY <1>4, <1>6, <1>7, <1>8, Zenon DEF Goes, Works, d

LEMMA CreateDirectoryGoes ==
  ASSUME Mirror, Faults = {}, CreateDirectory
  PROVE  \E e : Goes(e)
<1>1. PICK f \in Fault, path \in Paths :
        Finish(createDirectory(Start(f), path, resolveParent(path), LastIn(resolveParent(path), path)))
  BY Zenon DEF CreateDirectory
<1>2. f = Healthy /\ Open
  BY DEF Fault, Mirror
<1> DEFINE d == Start(Healthy)
           parent == resolveParent(path)
           found == LastIn(parent, path)
           e == createDirectory(d, path, parent, found)
<1>3. Resolved(path, parent, found)
  BY <1>2, ParentSpec DEF Open
<1>4. Finish(e)
  BY <1>1, <1>2
<1> HIDE DEF parent, found
<1>5. Given(d, path, parent, found)
  BY <1>2, <1>3, StartGiven
<1>6. Marks(d, e)
  BY <1>2, StartBegun, CreateDirectoryMarks DEF Fault
<1>7. Done(d, e)
  BY <1>5, CreateDirectoryDone
<1> HIDE DEF d
<1>8. Outcome(vol, e.v, e.status)
  BY <1>5, CreateDirectoryOutcome
<1> HIDE DEF e
<1> QED BY <1>4, <1>6, <1>7, <1>8, Zenon DEF Goes, Works, d

LEMMA RemoveGoes ==
  ASSUME Mirror, Faults = {}, RemovePath
  PROVE  \E e : Goes(e)
<1>1. PICK f \in Fault, path \in Paths :
        Finish(remove(Start(f), resolveParent(path), LastIn(resolveParent(path), path)))
  BY Zenon DEF RemovePath
<1>2. f = Healthy /\ Open
  BY DEF Fault, Mirror
<1> DEFINE d == Start(Healthy)
           parent == resolveParent(path)
           found == LastIn(parent, path)
           e == remove(d, parent, found)
<1>3. Resolved(path, parent, found)
  BY <1>2, ParentSpec DEF Open
<1>4. Finish(e)
  BY <1>1, <1>2
<1> HIDE DEF parent, found
<1>5. Given(d, path, parent, found)
  BY <1>2, <1>3, StartGiven
<1>6. Marks(d, e)
  BY <1>2, <1>3, StartBegun, RemoveMarks DEF Fault
<1>7. Done(d, e)
  BY <1>5, RemoveDone
<1> HIDE DEF d
<1>8. Outcome(vol, e.v, e.status)
  BY <1>5, RemoveOutcome
<1> HIDE DEF e
<1> QED BY <1>4, <1>6, <1>7, <1>8, Zenon DEF Goes, Works, d

LEMMA CommandMirrors ==
  ASSUME Mirror, NEW e, Goes(e)
  PROVE  Mirror' /\ Tree!TreeNext
<1>1. Open'
  BY FinishOpen DEF Mirror, Goes
<1>2. Finish(e) /\ Sound(e.v) /\ e.kind = "none" /\ Outcome(vol, e.v, e.status)
  BY DEF Goes, Works, Done, Live
<1>3. Mirrors(vol', tree', cwd', cwdPath') /\ Tree!TreeNext
  BY <1>2, Reflects
<1> QED BY <1>1, <1>3 DEF Mirror

\* ".." of a directory leads to the one that has it, and that of the root to itself.
LEMMA UpEntry ==
  ASSUME NEW v, Sound(v), NEW n \in Dirs(v), NEW m, <<"..", m>> \in Ent(v, n)
  PROVE  \/ n = rootInode /\ m = rootInode
         \/ n # rootInode /\ \E name \in Names : <<m, name, n>> \in Kids(v)
<1>1. PICK up \in Inode : /\ <<n, up>> \in HeadsOf(v) /\ (n = rootInode => up = rootInode)
                          /\ n # rootInode => \E name \in Names : <<up, name, n>> \in Kids(v)
  BY UsedIn DEF Forest
<1>2. Listed(v, n, up) /\ Folder(v, n)
  BY <1>1, UsedIn DEF HeadsOf, Folder, Dirs
<1>3. 1 \in 1 .. Len(List(v, n)) /\ Line(v, n, 1) \in Seq(RecType)
  BY <1>2, FolderIn DEF Listed
<1>4. 2 \in LiveAt(Line(v, n, 1)) /\ Line(v, n, 1)[2].name = ".." /\ Line(v, n, 1)[2].ino = up
  <2>1. Heads(Line(v, n, 1), n, up) /\ up # none
    <3>1. none \notin Inode
      BY Sizes DEF Inode, none
    <3> QED BY <1>2, <3>1 DEF Listed
  <2>2. 2 \in 1 .. Len(Line(v, n, 1))
    BY <1>3, <2>1, LenProperties DEF Heads
  <2> QED BY <2>1, <2>2 DEF Heads, LiveAt
<1>5. PICK k \in 1 .. Len(List(v, n)) : <<"..", m>> \in Pairs(Line(v, n, k))
  BY DEF Ent
<1>6. k = 1
  <2> DEFINE a == <<"..", up>>
             b == <<"..", m>>
  <2>1. a \in Pairs(Line(v, n, 1)) /\ b \in Pairs(Line(v, n, k)) /\ a[1] = b[1]
    BY <1>4, <1>5 DEF Pairs
  <2> HIDE DEF a, b
  <2> QED BY <1>2, <1>3, <2>1 DEF Listed, Apart
<1>7. PICK i \in LiveAt(Line(v, n, 1)) : Line(v, n, 1)[i].name = ".." /\ Line(v, n, 1)[i].ino = m
  BY <1>5, <1>6 DEF Pairs
<1>8. i = 2
  BY <1>2, <1>3, <1>4, <1>7 DEF Listed, Distinct
<1> QED BY <1>1, <1>4, <1>7, <1>8

\* A walk is at an inode in use, whose path is s.
Leads(P, at, s) == at.status = "ok" => at.ino \in Used(vol) /\ P[at.ino] = s

LEMMA StepLeads ==
  ASSUME Sound(vol), NEW P, Spells(Kids(vol), Used(vol), P), NEW at, NEW s \in Seq(Names), Leads(P, at, s),
         NEW comp \in Names \cup {".."}
  PROVE  Leads(P, Step(at, comp), Edited(s, comp))
<1> DEFINE f == findEntry(vol, at.ino, comp)
           n == at.ino
<1> SUFFICES ASSUME Step(at, comp).status = "ok"
             PROVE  Step(at, comp).ino \in Used(vol) /\ P[Step(at, comp).ino] = Edited(s, comp)
  BY DEF Leads
<1>1. at.status = "ok" /\ Step(at, comp) = f
  BY DEF Step
<1>2. n \in Used(vol) /\ P[n] = s /\ n \in Inode
  BY <1>1, UsedIn DEF Leads
<1>3. Finds(vol, n, comp, f)
  BY <1>2, SoundWorld, FindSpec
<1> HIDE DEF f, n
<1>4. f.status = "ok" /\ vol.table[n].kind = "dir" /\ f.ino \in Inode /\ <<comp, f.ino>> \in Ent(vol, n)
  BY <1>1, <1>3 DEF Finds
<1>5. n \in Dirs(vol) /\ Branches(Kids(vol), Used(vol), Dirs(vol))
  BY <1>2, <1>4, SoundBranches DEF Dirs
<1>6. ASSUME comp \in Names PROVE f.ino \in Used(vol) /\ P[f.ino] = Append(s, comp)
  <2> DEFINE e == <<n, comp, f.ino>>
  <2>1. e \in Dirs(vol) \X Names \X Inode /\ e[1] = n /\ e[2] = comp /\ e[3] = f.ino
    BY <1>4, <1>5, <1>6
  <2>2. <<e[2], e[3]>> \in EntOf(vol)[e[1]]
    BY <1>2, <1>4 DEF EntOf
  <2> HIDE DEF e
  <2>3. e \in Kids(vol)
    BY <2>1, <2>2 DEF Kids, KidsOf
  <2> QED BY <1>2, <1>5, <2>1, <2>3 DEF Branches, Spells
<1>7. CASE comp \in Names
  <2>1. comp # ".."
    BY <1>7, Ext4Assumption
  <2> QED BY <1>1, <1>6, <1>7, <2>1 DEF Edited
<1>8. CASE comp = ".."
  <2>1. \/ n = rootInode /\ f.ino = rootInode
        \/ n # rootInode /\ \E name \in Names : <<f.ino, name, n>> \in Kids(vol)
    BY <1>4, <1>5, <1>8, UpEntry
  <2>2. CASE n = rootInode /\ f.ino = rootInode
    <3>1. P[n] = <<>>
      BY <2>2 DEF Spells
    <3> QED BY <1>1, <1>2, <1>8, <2>2, <3>1 DEF Edited
  <2>3. CASE \E name \in Names : <<f.ino, name, n>> \in Kids(vol)
    <3>1. PICK name \in Names : <<f.ino, name, n>> \in Kids(vol)
      BY <2>3
    <3> DEFINE e == <<f.ino, name, n>>
    <3>2. e \in Kids(vol) /\ e[1] = f.ino /\ e[2] = name /\ e[3] = n
      BY <3>1
    <3> HIDE DEF e
    <3>3. f.ino \in Used(vol) /\ P[n] = Append(P[f.ino], name) /\ P[f.ino] \in Seq(Names)
      BY <1>5, <3>2 DEF Branches, Spells
    <3>4. s # <<>> /\ Front(s) = P[f.ino]
      BY <1>2, <3>3, FrontAppend
    <3> QED BY <1>1, <1>8, <3>3, <3>4 DEF Edited
  <2> QED BY <2>1, <2>2, <2>3
<1> QED BY <1>7, <1>8

LEMMA WalkLeads ==
  ASSUME Open, NEW P, Spells(Kids(vol), Used(vol), P), cwd \in Used(vol), cwdPath = P[cwd], NEW path \in Paths
  PROVE  Leads(P, Walk(path, path.comps), PathText(path))
<1> DEFINE N == Len(path.comps)
<1>1. path.comps \in Seq(Names \cup {".."}) /\ N \in Nat /\ Sound(vol) /\ cwd \in Inode /\ cwdPath \in Seq(Names)
  <2>1. path.comps \in Seq(Names \cup {".."})
    BY Ext4Assumption
  <2> QED BY <2>1, LenProperties DEF Open
<1>2. PICK f : WalkRun(path, path.comps, f)
  BY <1>1, WalkSpec, Zenon DEF Walked
<1>3. PICK g : TextRun(path, g)
  BY <1>1, TextSpec, Zenon DEF Spelled
<1>4. /\ f = [k \in 0 .. N |-> IF k = 0 THEN WalkStart(path) ELSE Step(f[k - 1], path.comps[k])]
      /\ Walk(path, path.comps) = f[N]
  BY <1>2, Zenon DEF WalkRun
<1>5. /\ g = [k \in 0 .. N |-> IF k = 0 THEN (IF path.abs THEN <<>> ELSE cwdPath) ELSE Edited(g[k - 1], path.comps[k])]
      /\ PathText(path) = g[N] /\ \A k \in 0 .. N : g[k] \in Seq(Names)
  BY <1>3, Zenon DEF TextRun
<1> HIDE DEF N
<1> DEFINE V == {k \in Nat : k \in 0 .. N => Leads(P, f[k], g[k])}
<1>6. 0 \in V
  <2>1. 0 \in 0 .. N
    BY <1>1
  <2>2. f[0] = WalkStart(path) /\ g[0] = IF path.abs THEN <<>> ELSE cwdPath
    BY <1>4, <1>5, <2>1, Zenon
  <2>3. rootInode \in Used(vol) /\ P[rootInode] = <<>>
    BY <1>1, SoundBranches DEF Branches, Spells
  <2>4. WalkStart(path).ino = IF path.abs THEN rootInode ELSE cwd
    BY DEF WalkStart
  <2>5. Leads(P, f[0], g[0])
    BY <2>2, <2>3, <2>4 DEF Leads
  <2> QED BY <2>5
<1>7. ASSUME NEW k \in V PROVE k + 1 \in V
  <2> SUFFICES ASSUME k + 1 \in 0 .. N PROVE Leads(P, f[k + 1], g[k + 1])
    OBVIOUS
  <2>1. k \in 0 .. N /\ k + 1 # 0 /\ (k + 1) - 1 = k /\ k + 1 \in 1 .. N
    BY <1>1, <1>7
  <2>2. f[k + 1] = Step(f[(k + 1) - 1], path.comps[k + 1])
    BY <1>4, <2>1, Zenon
  <2>3. g[k + 1] = Edited(g[(k + 1) - 1], path.comps[k + 1])
    BY <1>5, <2>1, Zenon
  <2>4. path.comps[k + 1] \in Names \cup {".."}
    BY <1>1, <2>1 DEF N
  <2>5. Leads(P, f[k], g[k]) /\ g[k] \in Seq(Names)
    BY <1>5, <1>7, <2>1
  <2>6. Leads(P, Step(f[k], path.comps[k + 1]), Edited(g[k], path.comps[k + 1]))
    BY <1>1, <2>4, <2>5, StepLeads
  <2> QED BY <2>1, <2>2, <2>3, <2>6, Zenon
<1>8. V = Nat
  <2>1. V \in SUBSET Nat
    OBVIOUS
  <2> HIDE DEF V
  <2> QED BY <1>6, <1>7, <2>1, HandedOn
<1>9. N \in V /\ N \in 0 .. N
  BY <1>1, <1>8
<1> QED BY <1>4, <1>5, <1>9

\* changeDirectory: the new path is that of the directory the walk has come to.
LEMMA ChangeDirectoryGoes ==
  ASSUME Mirror, ChangeDirectory
  PROVE  Mirror' /\ Tree!TreeNext
<1>1. PICK path \in Paths : \E at \in {Reached(Walk(path, path.comps))} :
        /\ status' = at.status
        /\ cwd' = IF at.status = "ok" THEN at.ino ELSE cwd
        /\ cwdPath' = IF at.status = "ok" THEN PathText(path) ELSE cwdPath
        /\ UNCHANGED <<vol, writable, dirty, tree>>
  BY Zenon DEF ChangeDirectory
<1> DEFINE to == Walk(path, path.comps)
           at == Reached(to)
<1>2. /\ status' = at.status
      /\ cwd' = IF at.status = "ok" THEN at.ino ELSE cwd
      /\ cwdPath' = IF at.status = "ok" THEN PathText(path) ELSE cwdPath
      /\ vol' = vol /\ tree' = tree
  BY <1>1
<1>3. Open /\ Open' /\ Sound(vol) /\ tree = TreeOf(vol) /\ cwd \in Dirs(vol)
  BY ChangeDirectoryOpen DEF Mirror, Mirrors, Open
<1>4. PICK P : Spells(Kids(vol), Used(vol), P) /\ cwdPath = P[cwd]
  BY DEF Mirror, Mirrors
<1>5. cwd \in Used(vol)
  BY <1>3, UsedIn
<1>6. Leads(P, to, PathText(path))
  BY <1>3, <1>4, <1>5, WalkLeads
<1>7. at.status = "ok" => at = to /\ vol.table[to.ino].kind = "dir"
  <2>1. to \in Walks
    <3>1. path.comps \in Seq(Names \cup {".."})
      BY Ext4Assumption
    <3>2. Len(path.comps) \in Nat
      BY <3>1, LenProperties
    <3> QED BY <1>3, <3>2, WalkSpec DEF Open
  <2> HIDE DEF to
  <2>2. [to EXCEPT !.status = "notDirectory"].status = "notDirectory"
    BY <2>1, WalkIn
  <2> QED BY <2>2 DEF Reached
<1> HIDE DEF at, to
<1>8. CASE at.status # "ok"
  <2>1. cwd' = cwd /\ cwdPath' = cwdPath
    BY <1>2, <1>8
  <2>2. Mirror'
    BY <1>2, <1>3, <2>1 DEF Mirror
  <2>3. Tree!Refuse
    BY <1>2, <1>8, <2>1 DEF Tree!Refuse
  <2> QED BY <2>2, <2>3 DEF Tree!TreeNext
<1>9. CASE at.status = "ok"
  <2> DEFINE n == to.ino
  <2>1. n \in Used(vol) /\ P[n] = PathText(path) /\ n \in Dirs(vol)
    BY <1>6, <1>7, <1>9, UsedIn DEF Leads, Dirs, Used
  <2>2. cwd' = n /\ cwdPath' = P[n]
    BY <1>2, <1>7, <1>9, <2>1
  <2> HIDE DEF n
  <2>3. Mirrors(vol, tree, n, P[n])
    BY <1>3, <1>4, <2>1, Zenon DEF Mirrors
  <2>4. Mirror'
    BY <1>2, <1>3, <2>2, <2>3 DEF Mirror
  <2>5. Shows(tree, Used(vol), P, Nodes(vol))
    BY <1>3, <1>4, TreeIs
  <2>6. P[n] \in DOMAIN tree /\ tree[P[n]] = Leafage(vol, n)
    BY <2>1, <2>5 DEF Shows, Nodes
  <2>7. Tree!IsDirectory(P[n])
    <3>1. Leafage(vol, n).dir
      BY <2>1 DEF Leafage, Dirs
    <3> QED BY <2>6, <3>1, Zenon DEF Tree!IsDirectory
  <2>8. Tree!Move
    BY <1>2, <1>9, <2>2, <2>6, <2>7 DEF Tree!Move
  <2> QED BY <2>4, <2>8 DEF Tree!TreeNext
<1> QED BY <1>8, <1>9

\* Remount: the volume is the same but for its clean bit, and the root the
\* current directory.
LEMMA RemountGoes ==
  ASSUME Mirror, Faults = {}, Remount
  PROVE  Mirror' /\ Tree!TreeNext
<1>1. PICK f \in Fault : Mounted(finalize(Start(f)).v) /\ status' = "ok"
  BY Zenon DEF Remount
<1>2. f = Healthy /\ Open /\ Open'
  BY RemountOpen DEF Fault, Mirror
<1> DEFINE w == finalize(Start(f)).v
           r == rootInode
<1>3. Sound(w) /\ (w = vol \/ w = Cleaned(vol, TRUE))
  BY <1>2, RemountWorks
<1>4. vol' = w /\ tree' = TreeOf(w) /\ cwd' = r /\ cwdPath' = <<>> /\ status' = "ok"
  BY <1>1 DEF Mounted
<1> HIDE DEF w, r
<1>5. Sound(vol) /\ tree = TreeOf(vol)
  BY <1>2 DEF Mirror, Mirrors, Open
<1>6. PICK P : Spells(Kids(vol), Used(vol), P)
  BY DEF Mirror, Mirrors
<1>7. w.table = vol.table /\ w.data = vol.data
  BY <1>3, <1>5, CleanSound
<1>8. Kids(w) = Kids(vol) /\ Used(w) = Used(vol) /\ Dirs(w) = Dirs(vol) /\ \A n : Leafage(w, n) = Leafage(vol, n)
  BY <1>7, TableTree
<1>9. tree' = tree
  BY <1>3, <1>4, <1>5, <1>6, <1>8, TreeStays
<1>10. r \in Dirs(vol) /\ r \in Used(vol) /\ P[r] = <<>>
  BY <1>5, <1>6, SoundBranches DEF Branches, Spells, r
<1>12. \E Q : Spells(Kids(w), Used(w), Q) /\ <<>> = Q[r]
  BY <1>6, <1>8, <1>10, Zenon
<1>13. Mirrors(w, TreeOf(w), r, <<>>)
  BY <1>8, <1>10, <1>12, Zenon DEF Mirrors
<1>14. Shows(tree, Used(vol), P, Nodes(vol))
  BY <1>5, <1>6, TreeIs
<1>15. <<>> \in DOMAIN tree /\ tree[<<>>] = Leafage(vol, r)
  BY <1>10, <1>14 DEF Shows, Nodes
<1>16. Tree!IsDirectory(<<>>)
  <2>1. Leafage(vol, r).dir
    BY <1>10 DEF Leafage, Dirs
  <2> QED BY <1>15, <2>1, Zenon DEF Tree!IsDirectory
<1>17. Tree!Move
  BY <1>4, <1>9, <1>15, <1>16 DEF Tree!Move
<1> QED BY <1>2, <1>4, <1>13, <1>17 DEF Mirror, Tree!TreeNext


\* What format leaves is the tree of the root alone.
LEMMA InitMirrors ==
  ASSUME Init
  PROVE  Mirror /\ Tree!TreeInit
<1> DEFINE r == rootInode
           P == [n \in {r} |-> <<>>]
<1>1. Open /\ Formatted(vol) /\ tree = TreeOf(vol) /\ cwd = r /\ cwdPath = <<>> /\ status = "ok"
  BY InitOpen, InitFormatted DEF Init
<1>2. Used(vol) = {r} /\ Dirs(vol) = {r} /\ Sound(vol)
  BY <1>1, FormattedWorld DEF Open
<1>3. Kids(vol) = {}
  <2>1. Branches(Kids(vol), {r}, {r})
    BY <1>2, SoundBranches
  <2> QED BY <2>1 DEF Branches
<1>4. Spells(Kids(vol), Used(vol), P) /\ P[r] = <<>>
  <2>1. <<>> \in Seq(Names)
    OBVIOUS
  <2> QED BY <1>2, <1>3, <2>1 DEF Spells
<1>5. Leafage(vol, r) = [dir |-> TRUE, size |-> 0]
  <2>1. vol.table[r].kind = "dir"
    BY <1>2 DEF Dirs
  <2> QED BY <2>1 DEF Leafage
<1>6. Shows(tree, {r}, P, Nodes(vol))
  BY <1>1, <1>2, <1>4, TreeIs
<1> HIDE DEF P
<1>7. Mirror
  <2>1. cwd \in Dirs(vol)
    BY <1>1, <1>2
  <2>2. \E Q : Spells(Kids(vol), Used(vol), Q) /\ cwdPath = Q[cwd]
    BY <1>1, <1>4, Zenon
  <2> QED BY <1>1, <2>1, <2>2, Zenon DEF Mirror, Mirrors
<1>8. DOMAIN tree = {<<>>} /\ tree[<<>>] = [dir |-> TRUE, size |-> 0] /\ tree = [p \in DOMAIN tree |-> tree[p]]
  BY <1>2, <1>4, <1>5, <1>6 DEF Shows, Nodes
<1>9. tree = [p \in {<<>>} |-> [dir |-> TRUE, size |-> 0]]
  BY <1>8, Zenon
<1> QED BY <1>1, <1>7, <1>9, Zenon DEF Tree!TreeInit, Tree!Dir, Tree!root

LEMMA NextMirrors ==
  ASSUME Mirror, Faults = {}, Next
  PROVE  Mirror' /\ Tree!TreeNext
<1>1. CASE WriteFile \/ CreateFile \/ CreateDirectory \/ RemovePath
  <2>1. \E e : Goes(e)
    BY <1>1, WriteFileGoes, CreateFileGoes, CreateDirectoryGoes, RemoveGoes
  <2> QED BY <2>1, CommandMirrors
<1>2. CASE ChangeDirectory
  BY <1>2, ChangeDirectoryGoes
<1>3. CASE Remount
  BY <1>3, RemountGoes
<1> QED BY <1>1, <1>2, <1>3 DEF Next

LEMMA StutterMirrors ==
  ASSUME Mirror, UNCHANGED vars
  PROVE  Mirror' /\ UNCHANGED Tree!treeVars
<1>1. UNCHANGED <<vol, writable, dirty, cwd, cwdPath, status, tree>>
  BY DEF vars
<1>2. Mirror'
  BY <1>1 DEF Mirror, Open
<1> QED BY <1>1, <1>2 DEF Tree!treeVars

\* The volume always holds a tree of directories and files, the current directory
\* among them under the path the driver has for it.
THEOREM MirrorAlways ==
  ASSUME Faults = {}
  PROVE  Spec => []Mirror
<1>1. Init => Mirror
  BY InitMirrors
<1>2. Mirror /\ [Next]_vars => Mirror'
  BY NextMirrors, StutterMirrors
<1> QED BY <1>1, <1>2, PTL DEF Spec

\* The driver implements the tree of files the shell counts on: each command makes,
\* writes or deletes one path and says so, or says why not and leaves every path and
\* the current directory as they were; a write makes a file as long as its text or
\* longer by it, and only one that runs out of space leaves a part of it.
THEOREM TreeImplemented ==
  ASSUME Faults = {}
  PROVE  Spec => RefinesFileTree
<1>1. Init => Tree!TreeInit
  BY InitMirrors
<1>2. Mirror /\ [Next]_vars => [Tree!TreeNext]_(Tree!treeVars)
  BY NextMirrors, StutterMirrors
<1>3. Spec => []Mirror
  BY MirrorAlways
<1> QED BY <1>1, <1>2, <1>3, PTL DEF Spec, RefinesFileTree, Tree!TreeSpec

================================================================================
