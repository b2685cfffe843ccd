--------------------------------- MODULE Ext4 ---------------------------------
(***************************************************************************)
(* A volume of Driver::FS::Ext4Driver, as the driver's own format() makes  *)
(* it: bitmaps, group descriptors, superblock counters, inodes with their  *)
(* extent trees, directory blocks, and the shell's commands on them.       *)
(*                                                                         *)
(* A command is a program of device writes.  The helpers below thread its  *)
(* state (a "run": the volume, the status, the inode in memory) through    *)
(* those writes in the code's order; one of them may be the last before a  *)
(* power cut, or fail.  Only writes are struck: what becomes of a command  *)
(* whose read fails is not modelled.                                       *)
(*                                                                         *)
(* Only data blocks are numbered apart: block 0 of a group stands for its  *)
(* metadata.  The content of a free block is Junk.  There are no hard      *)
(* links, journals or block maps on these volumes, and lost+found is left  *)
(* out.                                                                    *)
(***************************************************************************)
EXTENDS Integers, Sequences, FiniteSets, SequencesExt, FiniteSetsExt

CONSTANTS
  Groups,          \* groupCount_
  BlocksPerGroup,  \* data blocks of a group
  InodesPerGroup,  \* inodesPerGroup_
  Units,           \* sizes are counted in units, so many to a block
  Slots,           \* entries a directory block has room for
  RootEntries,     \* extents, or index entries, in an inode (4)
  LeafEntries,     \* extents in a block of the extent tree
  Names,           \* names a command may use
  Paths,           \* [abs: BOOLEAN, comps: Seq(Names \cup {".."})]
  Lengths,         \* lengths of the texts a command writes, in units
  MaxSize,         \* bound on the size of a file, in units
  Faults,          \* what may happen to a write: "cut", "fail"
  MaxWrites        \* bound: which write of a command it happens to

ASSUME Ext4Assumption ==
  /\ {Groups, BlocksPerGroup, InodesPerGroup, Units, RootEntries, LeafEntries} \subseteq Nat \ {0}
  /\ LeafEntries > RootEntries /\ Slots \in Nat \ {0, 1} /\ Lengths \subseteq Nat /\ {MaxSize, MaxWrites} \subseteq Nat
  /\ Names \cap {".", "..", ""} = {} /\ Paths \subseteq [abs: BOOLEAN, comps: Seq(Names \cup {".."})]
  /\ Faults \subseteq {"cut", "fail"}

Group     == 0 .. Groups - 1
Span      == BlocksPerGroup + 1
BlocksOf(g) == {g * Span + i : i \in 1 .. BlocksPerGroup}
InodesOf(g) == {g * InodesPerGroup + i : i \in 1 .. InodesPerGroup}
Block     == UNION {BlocksOf(g) : g \in Group}
Inode     == 1 .. (Groups * InodesPerGroup)
rootInode == 1
firstIno  == 2
none      == 0

GroupOfBlock(b) == b \div Span
GroupOfInode(n) == (n - 1) \div InodesPerGroup

\* An inode on the disk: links, size, i_blocks, the depth of its extent tree and
\* the tree's root: the blocks themselves, or the leaves that list them.
NoInode == [kind |-> "none", links |-> 0, size |-> 0, nblk |-> 0, depth |-> 0, root |-> <<>>]
NewInode(kind) == [NoInode EXCEPT !.kind = kind, !.links = IF kind = "dir" THEN 2 ELSE 1]

\* Contents of a block: text in its first units, a leaf of an extent tree, or
\* the records of a directory, whose lengths add up to the block.
Junk         == [kind |-> "junk"]
Text(n)      == [kind |-> "text", units |-> n]
Leaf(blocks) == [kind |-> "leaf", blocks |-> blocks]
Records(s)   == [kind |-> "dir", recs |-> s]
Record(n, name, len) == [ino |-> n, name |-> name, len |-> len]

VARIABLES
  vol,        \* the device
  writable,   \* writable_
  dirty,      \* dirty_
  cwd,        \* cwdInode_
  cwdPath,    \* cwdPath_, as the sequence of its names
  status,     \* what the last command returned
  tree        \* the tree of files the volume holds: TreeOf(vol)

vars == <<vol, writable, dirty, cwd, cwdPath, status, tree>>

Healthy == [kind |-> "none", at |-> -1]
Fault   == {Healthy} \cup [kind: Faults, at: 0 .. MaxWrites - 1]

--------------------------------------------------------------------------------
(* The writes of a command *)

\* left: writes until the fault; out: the block or inode just found; node: the
\* inode in memory; set: markDirty has been through.
Start(f) == [v |-> vol, kind |-> f.kind, left |-> f.at, status |-> "ok",
             out |-> none, node |-> NoInode, set |-> dirty]

Ok(d)      == d.status = "ok"
Fail(d, s) == IF Ok(d) THEN [d EXCEPT !.status = s] ELSE d

\* A write that changes the volume to v.  After a power cut none has an effect;
\* a failed one is reported, and the driver goes on to undo what it did.
Put(d, v) ==
  IF ~Ok(d) THEN d
  ELSE IF d.left = 0 /\ d.kind = "cut" THEN [d EXCEPT !.status = "cut"]
  ELSE IF d.left = 0 THEN [d EXCEPT !.left = -1, !.status = "ioError"]
  ELSE [d EXCEPT !.v = v, !.left = IF @ > 0 THEN @ - 1 ELSE @]

\* Mutant: the clean bit stays on the disk until finalize writes it again.
MarkInMemory(d) == [d EXCEPT !.set = TRUE]

MarkSet(d) == [d EXCEPT !.set = Ok(d)]

markDirty(d) == IF d.set THEN d ELSE MarkSet(Put(d, [d.v EXCEPT !.clean = FALSE]))

writeInode(d, n) == Put(d, [d.v EXCEPT !.table[n] = d.node])
zeroInodeOnDisk(d, n) == Put(d, [d.v EXCEPT !.table[n] = NoInode])
SetBlock(d, b, content) == Put(d, [d.v EXCEPT !.data[b] = content])

--------------------------------------------------------------------------------
(* Allocation: the bitmap, then the group's counters, then the superblock's *)

writeGroupDesc(d, g, desc) == Put(d, [d.v EXCEPT !.groups[g] = desc])

Adjusted(desc, blocks, inodes, dirs) ==
  [blocks |-> Max({0, desc.blocks + blocks}), inodes |-> Max({0, desc.inodes + inodes}),
   dirs   |-> Max({0, desc.dirs + dirs})]

adjustGroup(d, g, blocks, inodes, dirs) ==
  writeGroupDesc(d, g, Adjusted(d.v.groups[g], blocks, inodes, dirs))

adjustSuper(d, blocks, inodes) ==
  Put(d, [d.v EXCEPT !.free = [blocks |-> Max({0, @.blocks + blocks}),
                               inodes |-> Max({0, @.inodes + inodes})]])

\* The first group in a set, from a group on and round the disk.
FirstGroup(from, open) ==
  (from + Min({i \in 0 .. Groups - 1 : (from + i) % Groups \in open})) % Groups

FreeBlocks(v, g)  == BlocksOf(g) \ v.blocks
FreeInodes(v, g)  == {n \in InodesOf(g) : n >= firstIno} \ v.inodes
WithBlocks(v)     == {g \in Group : v.groups[g].blocks # 0 /\ FreeBlocks(v, g) # {}}
WithInodes(v)     == {g \in Group : v.groups[g].inodes # 0 /\ FreeInodes(v, g) # {}}

\* A goal may be the block after the last one.
OnDisk(goal) == goal < Groups * Span

NearestBlock(v, goal, g) ==
  LET above == {b \in FreeBlocks(v, g) : OnDisk(goal) /\ GroupOfBlock(goal) = g => b >= goal}
  IN  Min(IF above # {} THEN above ELSE FreeBlocks(v, g))

TakeBlock(d, b) ==
  [adjustSuper(adjustGroup(Put(d, [d.v EXCEPT !.blocks = @ \cup {b}]), GroupOfBlock(b), -1, 0, 0), -1, 0)
     EXCEPT !.out = b]

\* The first block not below the goal in the goal's group, then any of that
\* group, then any of the groups after it, round the disk.
allocBlock(d, goal) ==
  IF ~Ok(d) THEN d
  ELSE IF WithBlocks(d.v) = {} THEN Fail(d, "noSpace")
  ELSE TakeBlock(d, NearestBlock(d.v, goal, FirstGroup(IF OnDisk(goal) THEN GroupOfBlock(goal) ELSE 0,
                                                       WithBlocks(d.v))))

TakeInode(d, n, dirs) ==
  [adjustSuper(adjustGroup(Put(d, [d.v EXCEPT !.inodes = @ \cup {n}]), GroupOfInode(n), 0, -1, dirs), 0, -1)
     EXCEPT !.out = n]

\* The first inode of the parent's group that is not reserved, or of the groups
\* after it.
allocInode(d, parent, dir) ==
  IF ~Ok(d) THEN d
  ELSE IF WithInodes(d.v) = {} THEN Fail(d, "noSpace")
  ELSE TakeInode(d, Min(FreeInodes(d.v, FirstGroup(GroupOfInode(parent), WithInodes(d.v)))),
                 IF dir THEN 1 ELSE 0)

ClearRun(d, run) ==
  Put(d, [d.v EXCEPT !.blocks = @ \ run, !.data = [b \in Block |-> IF b \in run THEN Junk ELSE @[b]]])

\* Mutant: the counters get one block back, however long the run.
FreeRunOfOne(d, run) ==
  IF ~Ok(d) THEN d ELSE adjustSuper(adjustGroup(ClearRun(d, run), GroupOfBlock(Min(run)), 1, 0, 0), 1, 0)

\* A run of blocks of one group.
freeRun(d, run) ==
  IF ~Ok(d) THEN d
  ELSE adjustSuper(adjustGroup(ClearRun(d, run), GroupOfBlock(Min(run)), Cardinality(run), 0, 0),
                   Cardinality(run), 0)

\* After an error the driver undoes what it did, and reports that error.
FreeAgain(d, run) == [freeRun([d EXCEPT !.status = "ok"], run) EXCEPT !.status = d.status]

ClearInode(d, n) == Put(d, [d.v EXCEPT !.inodes = @ \ {n}])

freeInode(d, n, dir) ==
  IF n < firstIno THEN Fail(d, "ioError")
  ELSE adjustSuper(adjustGroup(ClearInode(zeroInodeOnDisk(d, n), n), GroupOfInode(n), 0, 1,
                               IF dir THEN -1 ELSE 0), 0, 1)

--------------------------------------------------------------------------------
(* Extent trees *)

\* Where the extents of a sequence of blocks begin, and their sets of blocks.
Starts(s)  == {i \in 1 .. Len(s) : i = 1 \/ s[i] # s[i - 1] + 1}
Extents(s) == [k \in 1 .. Cardinality(Starts(s)) |->
                 {s[i] : i \in {j \in 1 .. Len(s) : Cardinality({h \in Starts(s) : h <= j}) = k}}]

Fits(s, entries) == Cardinality(Starts(s)) <= entries

\* The blocks of a file in logical order (mapBlock), and the leaves above them.
Mapped(v, node) ==
  IF node.depth = 0 THEN node.root
  ELSE FlattenSeq([k \in 1 .. Len(node.root) |-> v.data[node.root[k]].blocks])

Leaves(node) == IF node.depth = 0 THEN {} ELSE ToSet(node.root)

\* What there is to free, in the code's order: extent by extent, and a leaf
\* after what it lists.
RunsOf(v, node) ==
  IF node.depth = 0 THEN Extents(node.root)
  ELSE FlattenSeq([k \in 1 .. Len(node.root) |->
                     Append(Extents(v.data[node.root[k]].blocks), {node.root[k]})])

FreeRuns(d, runs) ==
  LET freed[k \in 0 .. Len(runs)] == IF k = 0 THEN d ELSE freeRun(freed[k - 1], runs[k])
  IN  freed[Len(runs)]

\* Mutant: the blocks of the extent tree itself are forgotten.
FreeExtentsOnly(d, node) == FreeRuns(d, Extents(Mapped(d.v, node)))

freeFileBlocks(d, node) == FreeRuns(d, RunsOf(d.v, node))

\* What an overwrite and a removal do: a file without blocks has no runs.
FreeBlocksOf(d, node) == IF node.size > 0 \/ node.nblk # 0 THEN freeFileBlocks(d, node) ELSE d

\* Mutant: the leaf is not counted in i_blocks.
LeafUncounted(node, leaf) == [node EXCEPT !.root = Append(@, leaf)]

WithLeaf(node, leaf) == [node EXCEPT !.root = Append(@, leaf), !.nblk = @ + 1]

\* Mutant: the root is found full one extent late.
RootTakesOneMore(node, phys) == Fits(node.root, RootEntries)

\* appendExtent: the block extends the last extent, or there is room for another.
RootTakes(node, phys) == Fits(Append(node.root, phys), RootEntries)

\* A leaf in the block just allocated, put into the root of a node.
Rooted(d, node, leaf) ==
  IF Ok(d) THEN [d EXCEPT !.node = WithLeaf(node, leaf)] ELSE FreeAgain(d, {leaf})

AddLeaf(a, node, blocks) ==
  IF ~Ok(a) THEN a ELSE Rooted(SetBlock(a, a.out, Leaf(blocks)), node, a.out)

\* The tail of appendBlock: one more block in the last leaf, or a new leaf.
AppendToLeaf(d, phys) ==
  IF ~Ok(d) THEN d
  ELSE LET leaf   == Last(d.node.root)
           blocks == Append(d.v.data[leaf].blocks, phys)
       IN  IF Fits(blocks, LeafEntries) THEN SetBlock(d, leaf, Leaf(blocks))
           ELSE IF Len(d.node.root) >= RootEntries THEN Fail(d, "noSpace")
           ELSE AddLeaf(allocBlock(d, phys + 1), d.node, <<phys>>)

\* A full root is pushed down into a leaf.
PushDown(d, goal) ==
  AddLeaf(allocBlock(d, goal), [d.node EXCEPT !.depth = 1, !.root = <<>>], d.node.root)

\* appendBlock: the inode in memory gets its logical-th block.
appendBlock(d, logical, phys) ==
  IF ~Ok(d) THEN d
  ELSE IF logical < Len(Mapped(d.v, d.node)) THEN Fail(d, "ioError")
  ELSE IF d.node.depth = 1 THEN AppendToLeaf(d, phys)
  ELSE IF RootTakes(d.node, phys) THEN [d EXCEPT !.node.root = Append(@, phys)]
  ELSE AppendToLeaf(PushDown(d, phys + 1), phys)

--------------------------------------------------------------------------------
(* Directories *)

\* The records of a directory in the order a scan meets them.
DirBlocks(v, n) == SubSeq(Mapped(v, v.table[n]), 1, v.table[n].size \div Units)

PositionsIn(v, blocks) ==
  FlattenSeq([k \in 1 .. Len(blocks) |->
                [i \in 1 .. Len(v.data[blocks[k]].recs) |-> [block |-> blocks[k], index |-> i]]])

Positions(v, n) == PositionsIn(v, DirBlocks(v, n))
Nowhere == [block |-> none, index |-> 0]

At(v, pos) == v.data[pos.block].recs[pos.index]

\* The first of a sequence of positions that is wanted.
FirstIn(positions, wanted) ==
  LET hits == {i \in DOMAIN positions : positions[i] \in wanted}
  IN  IF hits = {} THEN Nowhere ELSE positions[Min(hits)]

EntryAt(v, pos) ==
  IF pos = Nowhere THEN [status |-> "notFound"] ELSE [status |-> "ok", pos |-> pos, ino |-> At(v, pos).ino]

EntryIn(v, positions, name) ==
  EntryAt(v, FirstIn(positions, {p \in ToSet(positions) : At(v, p).ino # none /\ At(v, p).name = name}))

findEntry(v, n, name) ==
  IF v.table[n].kind # "dir" THEN [status |-> "notDirectory"] ELSE EntryIn(v, Positions(v, n), name)

\* Mutant: only the first block is looked at.
FirstBlockIsEmpty(v, n) ==
  \A p \in ToSet(Positions(v, n)) :
    At(v, p).ino # none /\ p.block = DirBlocks(v, n)[1] => At(v, p).name \in {".", ".."}

dirIsEmpty(v, n) ==
  \A p \in ToSet(Positions(v, n)) : At(v, p).ino # none => At(v, p).name \in {".", ".."}

\* A record is put into one that is unused, or into the slack of one that is used.
Inserted(recs, i, name, child) ==
  IF recs[i].ino = none THEN [recs EXCEPT ![i] = Record(child, name, recs[i].len)]
  ELSE SubSeq(recs, 1, i - 1) \o <<[recs[i] EXCEPT !.len = 1], Record(child, name, recs[i].len - 1)>>
       \o SubSeq(recs, i + 1, Len(recs))

\* A directory without room gets a block.
SaveDirBlock(d, parent, block) ==
  IF ~Ok(d) THEN FreeAgain(d, {block})
  ELSE writeInode([d EXCEPT !.node.size = @ + Units, !.node.nblk = @ + 1], parent)

AddDirBlock(a, parent, logical, record) ==
  IF ~Ok(a) THEN a
  ELSE SaveDirBlock(appendBlock(SetBlock(a, a.out, Records(<<record>>)), logical, a.out), parent, a.out)

GrowDirectory(d, parent, name, child) ==
  LET node    == d.v.table[parent]
      logical == node.size \div Units
      goal    == IF logical > 0 THEN Mapped(d.v, node)[logical] + 1 ELSE 0
  IN  AddDirBlock(allocBlock([d EXCEPT !.node = node], goal), parent, logical, Record(child, name, Slots))

RoomIn(v, positions) ==
  FirstIn(positions, {p \in ToSet(positions) : At(v, p).ino = none \/ At(v, p).len > 1})

InsertEntryAt(d, p, parent, name, child) ==
  IF p = Nowhere THEN GrowDirectory(d, parent, name, child)
  ELSE SetBlock(d, p.block, Records(Inserted(d.v.data[p.block].recs, p.index, name, child)))

insertEntry(d, parent, name, child) ==
  IF ~Ok(d) THEN d ELSE InsertEntryAt(d, RoomIn(d.v, Positions(d.v, parent)), parent, name, child)

\* The record joins the one before it, or is marked unused if it is the first.
removeEntry(d, p) ==
  LET recs == d.v.data[p.block].recs
  IN  SetBlock(d, p.block,
        Records(IF p.index = 1 THEN [recs EXCEPT ![1].ino = none]
                ELSE [RemoveAt(recs, p.index) EXCEPT ![p.index - 1].len = @ + recs[p.index].len]))

adjustLinks(d, n, delta) ==
  writeInode([d EXCEPT !.node = [d.v.table[n] EXCEPT !.links = Max({0, @ + delta})]], n)

--------------------------------------------------------------------------------
(* Paths *)

Step(at, comp) ==
  IF at.status # "ok" THEN at ELSE findEntry(vol, at.ino, comp)

WalkStart(path) == [status |-> "ok", ino |-> IF path.abs THEN rootInode ELSE cwd]

Walk(path, comps) ==
  LET at[k \in 0 .. Len(comps)] == IF k = 0 THEN WalkStart(path) ELSE Step(at[k - 1], comps[k])
  IN  at[Len(comps)]

NotDots(at, path) ==
  IF at.status = "ok" /\ Last(path.comps) = ".." THEN [at EXCEPT !.status = "invalidName"] ELSE at

\* resolveParent: the directory of the last component, which must be a name.
resolveParent(path) ==
  IF path.comps = <<>> THEN [status |-> "invalidName", ino |-> none]
  ELSE NotDots(Walk(path, Front(path.comps)), path)

\* What a directory has under the last component of a path.
LastIn(parent, path) == findEntry(vol, parent.ino, Last(path.comps))

\* cwdPath_ is edited as text.
Edited(text, comp) ==
  IF comp # ".." THEN Append(text, comp) ELSE IF text = <<>> THEN <<>> ELSE Front(text)

PathText(path) ==
  LET text[k \in 0 .. Len(path.comps)] ==
        IF k = 0 THEN (IF path.abs THEN <<>> ELSE cwdPath) ELSE Edited(text[k - 1], path.comps[k])
  IN  text[Len(path.comps)]

--------------------------------------------------------------------------------
(* Commands *)

\* makeNode, up to the new inode and, for a directory, its first block, which
\* is out.
MadeDir(d, block) ==
  IF Ok(d) THEN [d EXCEPT !.node.size = Units, !.node.nblk = 1, !.out = block]
  ELSE [FreeAgain(d, {block}) EXCEPT !.out = none]

FirstBlock(a, parent, number) ==
  IF ~Ok(a) THEN [a EXCEPT !.out = none]
  ELSE MadeDir(appendBlock(SetBlock(a, a.out, Records(<<Record(number, ".", 1),
                                                        Record(parent, "..", Slots - 1)>>)),
                           0, a.out), a.out)

NewNode(d, parent, number, kind) ==
  IF kind = "file" THEN [d EXCEPT !.node = NewInode(kind), !.out = none]
  ELSE FirstBlock(allocBlock([d EXCEPT !.node = NewInode(kind)], GroupOfInode(number) * Span),
                  parent, number)

\* Mutant: the inode stays.
KeepInode(d, number, kind) == d

GiveBack(d, number, kind) ==
  [freeInode([d EXCEPT !.status = "ok"], number, kind = "dir") EXCEPT !.status = d.status]

\* The entry is written, or nothing of the new node stays; an error in the
\* parent's link count is not reported.
Entered(put, block, number, parent, kind) ==
  IF ~Ok(put) THEN GiveBack(IF block # none THEN FreeAgain(put, {block}) ELSE put, number, kind)
  ELSE IF kind = "dir" THEN [adjustLinks(put, parent, 1) EXCEPT !.status = "ok", !.out = number]
  ELSE [put EXCEPT !.out = number]

Enter(made, number, parent, name, kind) ==
  IF ~Ok(made) THEN GiveBack(made, number, kind)
  ELSE Entered(insertEntry(writeInode(made, number), parent, name, number), made.out, number, parent, kind)

Furnish(i, parent, name, kind) ==
  IF ~Ok(i) THEN i
  ELSE Enter(NewNode(zeroInodeOnDisk(i, i.out), parent, i.out, kind), i.out, parent, name, kind)

\* makeNode: the inode number it made is out.
makeNode(d, parent, name, kind) == Furnish(allocInode(d, parent, kind = "dir"), parent, name, kind)

\* One block of a text: `upto` units of the logical-th block, from inBlock on.
WriteInto(d, block, inBlock, upto) ==
  SetBlock(d, block, IF inBlock = 0 \/ d.v.data[block].kind = "text" THEN Text(upto) ELSE d.v.data[block])

FillBlock(d, block, upto) ==
  IF ~Ok(d) THEN FreeAgain(d, {block})
  ELSE SetBlock([d EXCEPT !.node.nblk = @ + 1], block, Text(upto))

AddBlock(a, logical, upto) ==
  IF ~Ok(a) THEN a ELSE FillBlock(appendBlock(a, logical, a.out), a.out, upto)

WriteBlock(d, number, logical, inBlock, upto) ==
  LET mapped == Mapped(d.v, d.node)
  IN  IF logical < Len(mapped) THEN WriteInto(d, mapped[logical + 1], inBlock, upto)
      ELSE AddBlock(allocBlock(d, IF logical > 0 THEN mapped[logical] + 1 ELSE GroupOfInode(number) * Span),
                    logical, upto)

\* The end of the block that a unit is in, or of the text.
BlockEnd(from, to) == Min({to, from - (from % Units) + Units})

\* A turn of the loop of writeAt.  out is how far the text has come.
WriteNext(d, number, to) ==
  IF ~Ok(d) \/ d.out = to THEN d
  ELSE LET next == WriteBlock(d, number, d.out \div Units, d.out % Units,
                              BlockEnd(d.out, to) - (d.out - (d.out % Units)))
       IN  [next EXCEPT !.out = IF Ok(next) THEN BlockEnd(d.out, to) ELSE d.out]

\* writeAt: the units from `from` on, block by block, one unit at least in a turn.
writeAt(d, number, from, to) ==
  LET turn[k \in 0 .. to - from] ==
        IF k = 0 THEN [d EXCEPT !.out = from] ELSE WriteNext(turn[k - 1], number, to)
  IN  turn[to - from]

\* Mutant: the size is what was asked for.
SizeAsked(e, asked) == asked

\* "Keep i_size in step with the blocks that were really attached, even if
\* writing stopped early."
SizeReached(e, asked) == e.out

\* The size follows the text that was written, and is saved in any case.
SaveSize(d, number, asked) ==
  [writeInode([d EXCEPT !.status = "ok", !.node.size = SizeReached(d, asked)], number)
     EXCEPT !.status = IF Ok(d) THEN @ ELSE d.status]

WriteFrom(d, number, from, to) == IF Ok(d) THEN SaveSize(writeAt(d, number, from, to), number, to) ELSE d

\* An overwrite frees the blocks and empties the inode on the disk first.
Empty(d, number, node) ==
  writeInode([FreeBlocksOf(d, node) EXCEPT !.node = [NoInode EXCEPT !.kind = "file", !.links = node.links]],
             number)

\* writeFile on the file `number`.
WriteNode(d, number, node, n, append) ==
  IF append THEN WriteFrom([d EXCEPT !.node = node], number, node.size, node.size + n)
  ELSE WriteFrom(Empty(d, number, node), number, 0, n)

WriteMade(d, n, append) ==
  IF Ok(d) THEN WriteNode(d, d.out, d.v.table[d.out], n, append) ELSE d

WriteMarked(d, path, n, append, parent, found) ==
  IF ~Ok(d) THEN d
  ELSE IF found.status = "notFound"
  THEN WriteMade(makeNode(d, parent.ino, Last(path.comps), "file"), n, append)
  ELSE IF found.status # "ok" THEN Fail(d, found.status)
  ELSE IF vol.table[found.ino].kind = "dir" THEN Fail(d, "isDirectory")
  ELSE WriteNode(d, found.ino, vol.table[found.ino], n, append)

writeFile(d, path, n, append, parent, found) ==
  IF parent.status # "ok" THEN Fail(d, parent.status)
  ELSE WriteMarked(markDirty(d), path, n, append, parent, found)

createFile(d, path, parent, found) ==
  IF parent.status # "ok" THEN Fail(d, parent.status)
  ELSE IF found.status = "notFound" THEN makeNode(markDirty(d), parent.ino, Last(path.comps), "file")
  ELSE IF found.status # "ok" THEN Fail(d, found.status)
  ELSE Fail(d, IF vol.table[found.ino].kind = "dir" THEN "isDirectory" ELSE "ok")

MakeMarked(d, path, parent, found) ==
  IF ~Ok(d) THEN d
  ELSE IF found.status = "notFound" THEN makeNode(d, parent.ino, Last(path.comps), "dir")
  ELSE Fail(d, IF found.status = "ok" THEN "alreadyExists" ELSE found.status)

createDirectory(d, path, parent, found) ==
  IF parent.status # "ok" THEN Fail(d, parent.status) ELSE MakeMarked(markDirty(d), path, parent, found)

\* Mutant: the blocks and the inode go before the entry.
EraseEntryLast(d, found, node) ==
  removeEntry(freeInode(FreeBlocksOf(d, node), found.ino, node.kind = "dir"), found.pos)

\* The entry first, then the blocks and the inode.
Erase(d, found, node) ==
  freeInode(FreeBlocksOf(removeEntry(d, found.pos), node), found.ino, node.kind = "dir")

\* Mutant: the current directory may be removed.
ProtectsRoot(n) == n = rootInode

Protected(n) == n \in {rootInode, cwd}

RemoveMarked(d, parent, found, node) ==
  IF ~Ok(d) THEN d
  ELSE IF node.kind = "file" THEN Erase(d, found, node)
  ELSE IF ~dirIsEmpty(vol, found.ino) THEN Fail(d, "directoryNotEmpty")
  ELSE adjustLinks(Erase(d, found, node), parent.ino, -1)

remove(d, parent, found) ==
  IF parent.status # "ok" THEN Fail(d, parent.status)
  ELSE IF found.status # "ok" THEN Fail(d, found.status)
  ELSE IF Protected(found.ino) THEN Fail(d, "invalidName")
  ELSE RemoveMarked(markDirty(d), parent, found, vol.table[found.ino])

\* finalize: a dirty volume gets its clean bit back.
finalize(d) == IF dirty THEN Put(d, [d.v EXCEPT !.clean = TRUE]) ELSE d

--------------------------------------------------------------------------------
(* The tree of files that a volume holds *)

\* The entries of a directory apart from "." and "..".
ChildrenAt(v, n) ==
  {p \in ToSet(Positions(v, n)) : At(v, p).ino # none /\ At(v, p).name \notin {".", ".."}}
Children(v, n) == {At(v, p) : p \in ChildrenAt(v, n)}

\* The inodes that the names of a path lead to, level by level.
Named(v) ==
  LET level[k \in 0 .. Cardinality(Inode)] ==
        IF k = 0 THEN {[path |-> <<>>, ino |-> rootInode]}
        ELSE UNION {{[path |-> Append(p.path, r.name), ino |-> r.ino] : r \in Children(v, p.ino)} :
                      p \in {q \in level[k - 1] : v.table[q.ino].kind = "dir"}}
  IN  UNION {level[k] : k \in 0 .. Cardinality(Inode)}

TreeOf(v) ==
  LET named   == Named(v)
      Node(n) == [dir |-> n.kind = "dir", size |-> IF n.kind = "dir" THEN 0 ELSE n.size]
  IN  [p \in {q.path : q \in named} |-> Node(v.table[(CHOOSE q \in named : q.path = p).ino])]

--------------------------------------------------------------------------------
\* mountAt: a volume that was not left clean is read-only.
Mounted(v) ==
  /\ vol' = v /\ tree' = TreeOf(v)
  /\ writable' = v.clean /\ dirty' = FALSE
  /\ cwd' = rootInode /\ cwdPath' = <<>>

\* A command ends, or the power goes and the volume is mounted again.
Finish(d) ==
  IF d.kind = "cut" THEN Mounted(d.v) /\ status' = "ok"
  ELSE /\ vol' = d.v /\ tree' = TreeOf(d.v) /\ dirty' = d.set /\ status' = d.status
       /\ UNCHANGED <<writable, cwd, cwdPath>>

\* The size a write would give a file (for the bound only).
SizeAfter(parent, found, n) ==
  IF parent.status = "ok" /\ found.status = "ok" THEN vol.table[found.ino].size + n ELSE n

WriteFile ==
  /\ writable
  /\ \E f \in Fault, path \in Paths, n \in Lengths, append \in BOOLEAN :
       \E parent \in {resolveParent(path)} :
         /\ append => SizeAfter(parent, LastIn(parent, path), n) <= MaxSize
         /\ \E d \in {writeFile(Start(f), path, n, append, parent, LastIn(parent, path))} : Finish(d)

CreateFile ==
  /\ writable
  /\ \E f \in Fault, path \in Paths : \E parent \in {resolveParent(path)} :
       \E d \in {createFile(Start(f), path, parent, LastIn(parent, path))} : Finish(d)

CreateDirectory ==
  /\ writable
  /\ \E f \in Fault, path \in Paths : \E parent \in {resolveParent(path)} :
       \E d \in {createDirectory(Start(f), path, parent, LastIn(parent, path))} : Finish(d)

RemovePath ==
  /\ writable
  /\ \E f \in Fault, path \in Paths : \E parent \in {resolveParent(path)} :
       \E d \in {remove(Start(f), parent, LastIn(parent, path))} : Finish(d)

Reached(at) ==
  IF at.status = "ok" /\ vol.table[at.ino].kind # "dir" THEN [at EXCEPT !.status = "notDirectory"] ELSE at

ChangeDirectory ==
  \E path \in Paths : \E at \in {Reached(Walk(path, path.comps))} :
    /\ status' = at.status
    /\ cwd' = IF at.status = "ok" THEN at.ino ELSE cwd
    /\ cwdPath' = IF at.status = "ok" THEN PathText(path) ELSE cwdPath
    /\ UNCHANGED <<vol, writable, dirty, tree>>

\* unmnt and mnt: the volume is finalized and mounted again.
Remount ==
  \E f \in Fault : \E d \in {finalize(Start(f))} : Mounted(d.v) /\ status' = "ok"

\* What format leaves: the root directory, in the first block.
Init ==
  LET first == 1 IN
  /\ vol = [blocks |-> {first}, inodes |-> {rootInode},
            groups |-> [g \in Group |->
              [blocks |-> BlocksPerGroup - (IF g = 0 THEN 1 ELSE 0),
               inodes |-> InodesPerGroup - (IF g = 0 THEN 1 ELSE 0), dirs |-> IF g = 0 THEN 1 ELSE 0]],
            free   |-> [blocks |-> Groups * BlocksPerGroup - 1, inodes |-> Groups * InodesPerGroup - 1],
            clean  |-> TRUE,
            table  |-> [n \in Inode |-> IF n # rootInode THEN NoInode
                          ELSE [NewInode("dir") EXCEPT !.size = Units, !.nblk = 1, !.root = <<first>>]],
            data   |-> [b \in Block |-> IF b # first THEN Junk
                          ELSE Records(<<Record(rootInode, ".", 1), Record(rootInode, "..", Slots - 1)>>)]]
  /\ writable = TRUE /\ dirty = FALSE
  /\ cwd = rootInode /\ cwdPath = <<>> /\ status = "ok"
  /\ tree = TreeOf(vol)

Next == WriteFile \/ CreateFile \/ CreateDirectory \/ RemovePath \/ ChangeDirectory \/ Remount

Spec == Init /\ [][Next]_vars

--------------------------------------------------------------------------------
(* Properties *)

Used(v)     == {n \in Inode : v.table[n].kind # "none"}
Dirs(v)     == {n \in Inode : v.table[n].kind = "dir"}
Owned(v, n) == ToSet(Mapped(v, v.table[n])) \cup Leaves(v.table[n])

SizeInBlocks(node) == (node.size + Units - 1) \div Units

\* The block bitmap is what the inodes own: no block has two owners, none is
\* leaked, i_blocks counts them, and a file has blocks for its size and no more.
BlocksMatch(v) ==
  /\ v.blocks = UNION {Owned(v, n) : n \in Used(v)}
  /\ \A n, m \in Used(v) : n # m => Owned(v, n) \cap Owned(v, m) = {}
  /\ \A n \in Used(v) :
       LET node == v.table[n]
           mapped == Mapped(v, node)
       IN  /\ node.nblk = Len(mapped) + Cardinality(Leaves(node))
           /\ node.nblk = Cardinality(Owned(v, n))
           /\ Len(mapped) = SizeInBlocks(node)

\* An entry of the tree: the directory it is in, and its place.
Edges(v)     == UNION {{[dir |-> n, at |-> p] : p \in ChildrenAt(v, n)} : n \in Dirs(v)}
Target(v, e) == At(v, e.at).ino

\* The inode bitmap is the set of inodes some entry names, each named once and
\* with the links that the tree gives it; "." and ".." lead where they should.
InodesMatch(v) ==
  /\ v.inodes = Used(v)
  /\ {Target(v, e) : e \in Edges(v)} = v.inodes \ {rootInode}
  /\ \A e, f \in Edges(v) : Target(v, e) = Target(v, f) => e = f
  /\ \A e, f \in Edges(v) : e.dir = f.dir /\ At(v, e.at).name = At(v, f.at).name => e = f
  /\ \A n \in Dirs(v) :
       LET first == At(v, Positions(v, n)[1])
           second == At(v, Positions(v, n)[2])
       IN  /\ first.name = "." /\ first.ino = n
           /\ second.name = ".."
           /\ IF n = rootInode THEN second.ino = n
              ELSE \E e \in Edges(v) : Target(v, e) = n /\ e.dir = second.ino
  /\ \A n \in Used(v) : v.table[n].links =
       IF n \in Dirs(v) THEN 2 + Cardinality({e \in Edges(v) : e.dir = n /\ Target(v, e) \in Dirs(v)}) ELSE 1

\* The counters of the groups and of the superblock are those of the bitmaps.
CountersMatch(v) ==
  /\ \A g \in Group : v.groups[g] =
       [blocks |-> Cardinality(BlocksOf(g) \ v.blocks), inodes |-> Cardinality(InodesOf(g) \ v.inodes),
        dirs   |-> Cardinality(InodesOf(g) \cap Dirs(v))]
  /\ v.free = [blocks |-> Cardinality(Block \ v.blocks), inodes |-> Cardinality(Inode \ v.inodes)]

LengthOf(recs) ==
  LET sum[i \in 0 .. Len(recs)] == IF i = 0 THEN 0 ELSE sum[i - 1] + recs[i].len
  IN  sum[Len(recs)]

\* Every unit of a file below its size was written, and every block of a
\* directory is full of records.
ContentMatches(v) ==
  \A n \in Used(v) : \A k \in 1 .. SizeInBlocks(v.table[n]) :
    LET mapped  == Mapped(v, v.table[n])
        content == v.data[mapped[k]]
    IN  k <= Len(mapped) /\
    IF n \in Dirs(v)
    THEN /\ content.kind = "dir"
         /\ LengthOf(content.recs) = Slots
    ELSE /\ content.kind = "text"
         /\ content.units >= Min({Units, v.table[n].size - (k - 1) * Units})

Consistent(v) == BlocksMatch(v) /\ InodesMatch(v) /\ CountersMatch(v) /\ ContentMatches(v)

\* The state has the types the code declares: in particular no extent root or
\* leaf holds more entries than it has room for, and every block is of the disk.
TypeOK ==
  /\ vol.blocks \subseteq Block /\ vol.inodes \subseteq Inode
  /\ \A n \in Inode : LET node == vol.table[n] IN
       /\ node.kind \in {"none", "file", "dir"} /\ node.depth \in {0, 1}
       /\ {node.links, node.size, node.nblk} \subseteq Nat
       /\ ToSet(node.root) \subseteq Block
       /\ IF node.depth = 0 THEN Fits(node.root, RootEntries) ELSE Len(node.root) <= RootEntries
  /\ \A b \in Block : vol.data[b].kind = "leaf" => Fits(vol.data[b].blocks, LeafEntries)
  /\ {writable, dirty, vol.clean} \subseteq BOOLEAN
  /\ cwd \in Inode /\ cwdPath \in Seq(Names)

\* No command, whether it succeeds, is refused or runs out of space half way
\* (writeAt, insertEntry, appendBlock, makeNode), leaks a block, gives one to
\* two owners or leaves i_blocks or a size that does not fit its extents.
BlocksAreOwned == BlocksMatch(vol)

\* Through creation, removal, undone creation and growing directories, the names,
\* the inode bitmap and the link counts tell the same tree.
InodesAreNamed == InodesMatch(vol)

\* The counters that allocBlock, allocInode, freeRun and freeInode adjust one by
\* one agree with the bitmaps after every command: free space is neither lost
\* nor offered twice.
CountsAreBitmaps == CountersMatch(vol)

\* What a reader is given is what was written: no free or foreign block shows.
FilesReadable == ContentMatches(vol)

\* A volume that has just been mounted for writing, or is mounted and not yet
\* changed, is consistent (mountAt: "Write support is enabled only when the
\* volume is safe to modify without a journal / checksums").
SafeToWrite == writable /\ ~dirty => Consistent(vol)

\* Wherever the power went, every name of the tree leads to an inode that is in
\* use and not wiped, and every directory can be read: entries are written after
\* what they name, and removed before it.
NamesLeadSomewhere ==
  \A p \in Named(vol) : p.ino \in vol.inodes /\ vol.table[p.ino].kind # "none"

\* The driver implements the tree of files the shell counts on.
Tree == INSTANCE FileTree WITH
          TreeNames <- Names,
          TreeTexts <- Lengths,
          here   <- cwdPath,
          answer <- status
RefinesFileTree == Tree!TreeSpec
==============================================================================
