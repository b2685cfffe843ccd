-------------------------------- MODULE Fat32 --------------------------------
(***************************************************************************)
(* One mounted FAT32 volume: Kernel::FAT32's file allocation table,        *)
(* directory clusters, path walk and file commands.                        *)
(*                                                                         *)
(* A cluster is a row of 32-byte slots, the size of a directory entry, and *)
(* file sizes are counted in slots, so that a cluster read as a directory  *)
(* after it held text (or the reverse) is what it is on the disk.  A path  *)
(* is the sequence of its components, absolute or not.                     *)
(*                                                                         *)
(* A command is one step: nothing else touches the volume while it runs.   *)
(* During a command the device may fail to deliver one entry of the table  *)
(* or to access one cluster, if Faults allows it.                          *)
(***************************************************************************)
EXTENDS Integers, Sequences, FiniteSets, SequencesExt, FiniteSetsExt

CONSTANTS
  Clusters,      \* clusterCount: the clusters are 2 .. Clusters + 1
  Slots,         \* entriesPerCluster()
  Names,         \* short names a command may use
  Paths,         \* [abs: BOOLEAN, comps: Seq(Names \cup {".."})]
  Lengths,       \* the lengths of the texts a command writes, in slots
  MaxSize,       \* bound on the size of a file, in slots
  Faults         \* what may be out of reach while a command runs

ASSUME ConstantsAssumption ==
  /\ Clusters \in Nat \ {0} /\ Slots \in Nat \ {0, 1}
  /\ MaxSize \in Nat /\ Lengths \subseteq 0 .. MaxSize
  /\ Names \cap {".", ".."} = {}
  /\ Faults \subseteq [read: Nat, data: Nat]
  /\ \A p \in Paths : p.abs \in BOOLEAN /\ p.comps \in Seq(Names \cup {".."}) \ {<<>>}

\* The text of a command comes from one line of the shell, which is shorter than
\* the smallest cluster.
ASSUME LinesAreShort == \A n \in Lengths : n <= Slots

Cluster     == 2 .. (Clusters + 1)
rootCluster == 2
Free        == 0
endOfChain  == Clusters + 2
none        == 0                 \* no cluster: an empty file, the end of a chain

\* A slot of a cluster: never used (0x00), deleted (0xE5), part of a file's
\* text, or a directory entry.
End     == [kind |-> "end"]
Deleted == [kind |-> "deleted"]
Text    == [kind |-> "text"]
Entry(name, dir, first, size) ==
  [kind |-> "entry", name |-> name, dir |-> dir, first |-> first, size |-> size]

VARIABLES
  vol,       \* the volume: [fat: Cluster -> ..., slots: Cluster -> row of slots]
  cwd,       \* cwdCluster
  cwdPath,   \* cwdPath, as the sequence of its names
  status,    \* what the last command returned
  harm,      \* history: what no later command can be expected to repair
  shown      \* Shown(vol): what is listed and what is lost, while the volume is sound

vars == <<vol, cwd, cwdPath, status, harm, shown>>

Status == {"ok", "invalidName", "notFound", "alreadyExists", "notDirectory", "isDirectory",
           "directoryNotEmpty", "noSpace", "ioError"}

\* A device that fails: an unreadable table entry, an unusable cluster.
Healthy == [read |-> none, data |-> none]
Fault   == {Healthy} \cup Faults

\* The first of: a failing device, a removed current directory.
Harm  == {"none", "table", "data", "orphan"}
Sound == harm = "none"

\* What nextPathComponent makes of a path, from the root or from the current
\* directory.
Absolute(comps) == [abs |-> TRUE, comps |-> comps]
Relative(comps) == [abs |-> FALSE, comps |-> comps]

Struck(f) == IF f.read # none THEN "table" ELSE IF f.data # none THEN "data" ELSE "none"

------------------------------------------------------------------------------
(* The file allocation table *)

\* A table sector that cannot be read reads as free.
readFat(v, f, c) == IF c = f.read THEN Free ELSE v.fat[c]

\* writeFat reads the sector it changes, and gives up silently if it cannot.
writeFat(v, f, c, value) == IF c = f.read THEN v ELSE [v EXCEPT !.fat[c] = value]

nextCluster(v, f, c) == LET next == readFat(v, f, c) IN IF next = endOfChain THEN none ELSE next

\* Mutant: the chosen cluster is not marked in the table.
allocateClusterUnmarked(v, f) ==
  LET free == {c \in Cluster : readFat(v, f, c) = Free}
  IN  IF free = {} THEN [v |-> v, status |-> "noSpace", cluster |-> none]
      ELSE [v |-> [v EXCEPT !.slots[Min(free)] = [i \in 1 .. Slots |-> End]],
            status |-> "ok", cluster |-> Min(free)]

\* First fit; the table entry is written before the cluster is cleared.
allocateCluster(v, f) ==
  LET free == {c \in Cluster : readFat(v, f, c) = Free}
      c    == Min(free)
      v1   == writeFat(v, f, c, endOfChain)
  IN  IF free = {} THEN [v |-> v, status |-> "noSpace", cluster |-> none]
      ELSE IF c = f.data THEN [v |-> v1, status |-> "ioError", cluster |-> c]
      ELSE [v |-> [v1 EXCEPT !.slots[c] = [i \in 1 .. Slots |-> End]],
            status |-> "ok", cluster |-> c]

\* The clusters a walk from c visits, one after the other, as many as there are
\* at most.
Chain(v, f, c) ==
  LET at[n \in 0 .. Clusters] ==
        IF n = 0 THEN c
        ELSE LET before == at[n - 1]
             IN  IF before \in Cluster THEN nextCluster(v, f, before) ELSE none
  IN  [n \in 1 .. Cardinality({m \in 1 .. Clusters : at[m - 1] \in Cluster}) |-> at[n - 1]]

\* Mutant: only the head of a chain is released.
freeChainHead(v, f, c) == IF c \in Cluster THEN writeFat(v, f, c, Free) ELSE v

\* freeChain: every cluster of the chain, but an entry that cannot be read.
freeChain(v, f, c) ==
  [v EXCEPT !.fat = [x \in Cluster |->
     IF x \in ToSet(Chain(v, f, c)) /\ x # f.read THEN Free ELSE @[x]]]

------------------------------------------------------------------------------
(* Directories *)

SlotAt(v, pos) == v.slots[pos.cluster][pos.index]

Position == [cluster: Cluster, index: 1 .. Slots]
Nowhere  == [cluster |-> none, index |-> 0]

\* The first position that a scan wants, cluster by cluster and slot by slot.
FirstIn(chain, wanted) ==
  LET hits(k)  == {i \in 1 .. Slots : [cluster |-> chain[k], index |-> i] \in wanted}
      clusters == {k \in 1 .. Len(chain) : hits(k) # {}}
  IN  IF clusters = {} THEN Nowhere
      ELSE [cluster |-> chain[Min(clusters)], index |-> Min(hits(Min(clusters)))]

\* readCluster and writeCluster fail.
Unreadable(f) == f.data

EntryAt(v, f, pos) ==
  IF pos = Nowhere THEN [status |-> "notFound"]
  ELSE IF pos.cluster = Unreadable(f) THEN [status |-> "ioError"]
  ELSE IF SlotAt(v, pos) = End THEN [status |-> "notFound"]
  ELSE [status |-> "ok", pos |-> pos, entry |-> SlotAt(v, pos)]

\* findEntry: the scan ends at the first never-used slot.
findEntry(v, f, dir, name) ==
  EntryAt(v, f, FirstIn(Chain(v, f, dir),
                        {p \in Position : \/ p.cluster = Unreadable(f)
                                          \/ SlotAt(v, p) = End
                                          \/ SlotAt(v, p).kind = "entry" /\ SlotAt(v, p).name = name}))

\* A directory without a free slot, whose chain ends in `last`, gets a cluster.
Extended(f, last, new) ==
  IF new.status # "ok" THEN [v |-> new.v, status |-> new.status]
  ELSE [v |-> writeFat(writeFat(new.v, f, last, new.cluster), f, new.cluster, endOfChain),
        status |-> "ok", pos |-> [cluster |-> new.cluster, index |-> 1]]

FreeEntryAt(v, f, dir, pos) ==
  IF pos = Nowhere THEN Extended(f, Last(Chain(v, f, dir)), allocateCluster(v, f))
  ELSE IF pos.cluster = Unreadable(f) THEN [v |-> v, status |-> "ioError"]
  ELSE [v |-> v, status |-> "ok", pos |-> pos]

\* findFreeEntry: reuse a slot or extend the directory by a cluster.
findFreeEntry(v, f, dir) ==
  FreeEntryAt(v, f, dir, FirstIn(Chain(v, f, dir),
                                 {p \in Position : \/ p.cluster = Unreadable(f)
                                                   \/ SlotAt(v, p) \in {End, Deleted}}))

writeEntry(v, f, pos, slot) ==
  IF pos.cluster = Unreadable(f) THEN [v |-> v, status |-> "ioError"]
  ELSE [v |-> [v EXCEPT !.slots[pos.cluster][pos.index] = slot], status |-> "ok"]

PutEntry(v, f, found, slot, entry) ==
  IF found = "ok" THEN [v |-> v, status |-> "alreadyExists"]
  ELSE IF found # "notFound" THEN [v |-> v, status |-> found]
  ELSE IF slot.status # "ok" THEN [v |-> slot.v, status |-> slot.status]
  ELSE writeEntry(slot.v, f, slot.pos, entry)

createEntry(v, f, parent, entry) ==
  PutEntry(v, f, findEntry(v, f, parent, entry.name).status, findFreeEntry(v, f, parent), entry)

\* Mutant: ".." of a new directory is the directory itself.
initializeDirectoryUnlinked(v, f, c, parent) ==
  [v |-> [v EXCEPT !.slots[c] = [i \in 1 .. Slots |->
            IF i <= 2 THEN Entry(IF i = 1 THEN "." ELSE "..", TRUE, c, 0) ELSE End]],
   status |-> "ok"]

\* initializeDirectory: "." and ".." in a cleared cluster.
initializeDirectory(v, f, c, parent) ==
  IF c = f.data THEN [v |-> v, status |-> "ioError"]
  ELSE [v |-> [v EXCEPT !.slots[c] = [i \in 1 .. Slots |->
                 IF i = 1 THEN Entry(".", TRUE, c, 0)
                 ELSE IF i = 2 THEN Entry("..", TRUE, parent, 0) ELSE End]],
        status |-> "ok"]

\* Mutant: only the first cluster of a directory is looked at.
directoryEmptyShort(v, f, c) ==
  \A i \in 1 .. Slots : /\ v.slots[c][i].kind # "text"
                       /\ v.slots[c][i].kind = "entry" => v.slots[c][i].name \in {".", ".."}

\* directoryEmpty: an error counts as "not empty".
directoryEmpty(v, f, c) ==
  LET decides == FirstIn(Chain(v, f, c),
                         {p \in Position : \/ p.cluster = Unreadable(f)
                                           \/ SlotAt(v, p).kind \in {"end", "text"}
                                           \/ SlotAt(v, p).kind = "entry" /\ SlotAt(v, p).name \notin {".", ".."}})
  IN  decides = Nowhere \/ (decides.cluster # Unreadable(f) /\ SlotAt(v, decides) = End)

------------------------------------------------------------------------------
(* Paths *)

\* One component of a walk of resolveExisting: "..", at the root, stays there
\* once the root has been scanned for it.
Entered(at, comp, found) ==
  IF comp = ".." /\ at.cluster = rootCluster /\ found.status = "notFound"
  THEN [status |-> "ok", cluster |-> rootCluster]
  ELSE IF found.status # "ok" THEN [status |-> found.status, cluster |-> none]
  ELSE IF ~found.entry.dir THEN [status |-> "notDirectory", cluster |-> none]
  ELSE [status |-> "ok", cluster |-> found.entry.first]

Step(f, at, comp) ==
  IF at.status # "ok" THEN at ELSE Entered(at, comp, findEntry(vol, f, at.cluster, comp))

Start(path) == [status |-> "ok", cluster |-> IF path.abs THEN rootCluster ELSE cwd]

\* The directory of the last component of a path, for remove.
ExistingParent(f, path) ==
  LET at[k \in 0 .. Len(path.comps) - 1] ==
        IF k = 0 THEN Start(path) ELSE Step(f, at[k - 1], path.comps[k])
  IN  at[Len(path.comps) - 1]

\* resolveParent does not scan the root for "..", and the last component must
\* be a name.
ParentStep(f, at, comp) ==
  IF comp = ".." /\ at.cluster = rootCluster THEN at ELSE Step(f, at, comp)

NotDots(at, path) ==
  IF at.status = "ok" /\ Last(path.comps) = ".." THEN [at EXCEPT !.status = "invalidName"] ELSE at

resolveParent(f, path) ==
  LET at[k \in 0 .. Len(path.comps) - 1] ==
        IF k = 0 THEN Start(path) ELSE ParentStep(f, at[k - 1], path.comps[k])
  IN  NotDots(at[Len(path.comps) - 1], path)

\* What a directory has under the last component of a path.
LastIn(f, parent, path) == findEntry(vol, f, parent.cluster, Last(path.comps))

\* Mutant: ".." is appended to the path like any name.
EditedDots(text, comp, cluster) == Append(text, comp)

\* Mutant: ".." starts the path over wherever it is met.
EditedReset(text, comp, cluster) == IF comp # ".." THEN <<comp>> ELSE <<>>

\* cwdPath after one component of changeDirectory: a name is appended, ".."
\* drops one, and at the root (by cluster, not by text) the text starts over.
Edited(text, comp, cluster) ==
  IF comp # ".." THEN Append(text, comp)
  ELSE IF cluster = rootCluster \/ text = <<>> THEN <<>>
  ELSE Front(text)

\* Both walks of changeDirectory, for the cluster and for the text.
PathStep(f, at, comp) ==
  IF at.walk.status # "ok" THEN at
  ELSE [walk |-> Step(f, at.walk, comp), text |-> Edited(at.text, comp, at.walk.cluster)]

PathWalk(f, path) ==
  LET at[k \in 0 .. Len(path.comps)] ==
        IF k = 0 THEN [walk |-> Start(path), text |-> IF path.abs THEN <<>> ELSE cwdPath]
        ELSE PathStep(f, at[k - 1], path.comps[k])
  IN  at[Len(path.comps)]

------------------------------------------------------------------------------
(* File data *)

ClustersFor(size) == (size + Slots - 1) \div Slots

\* One turn of the loop of ensureChainSize: on to the next cluster, or to a new
\* one behind the last.
Appended(f, g, new) ==
  IF new.status # "ok" THEN [g EXCEPT !.v = new.v, !.status = new.status]
  ELSE [g EXCEPT !.v = writeFat(writeFat(new.v, f, g.at, new.cluster), f, new.cluster, endOfChain),
                 !.at = new.cluster]

GrowStep(f, g) ==
  IF g.status # "ok" THEN g
  ELSE IF nextCluster(g.v, f, g.at) # none THEN [g EXCEPT !.at = nextCluster(g.v, f, g.at)]
  ELSE Appended(f, g, allocateCluster(g.v, f))

\* The loop: the chain at c gets `needed` clusters, counting c itself.
GrowFrom(v, f, c, needed) ==
  LET grown[k \in 0 .. needed] ==
        IF k <= 1 THEN [v |-> v, status |-> "ok", at |-> c] ELSE GrowStep(f, grown[k - 1])
  IN  grown[needed]

Chained(grown, first) == [v |-> grown.v, status |-> grown.status, first |-> first]

NewChain(f, new, size) ==
  IF new.status # "ok" THEN Chained(new, new.cluster)
  ELSE Chained(GrowFrom(new.v, f, new.cluster, ClustersFor(size) - 1), new.cluster)

\* ensureChainSize: a chain that starts here counts its first cluster twice,
\* once when it is allocated and once as the start of the walk.
ensureChainSize(v, f, first, size) ==
  IF size = 0 THEN [v |-> v, status |-> "ok", first |-> first]
  ELSE IF first = none THEN NewChain(f, allocateCluster(v, f), size)
  ELSE Chained(GrowFrom(v, f, first, ClustersFor(size)), first)

\* The slots from .. to - 1 of a chain become text, up to the first cluster that
\* is missing or cannot be accessed; those before `from` are only walked over.
CopyInto(v, f, chain, from, to) ==
  LET touched == {k \in 1 .. ClustersFor(to) : k * Slots > from}
      bad     == {k \in touched : k > Len(chain) \/ chain[k] = Unreadable(f)}
      copied  == {k \in touched : \A b \in bad : k < b}
      text(k) == {i \in 1 .. Slots : from < (k - 1) * Slots + i /\ (k - 1) * Slots + i <= to}
  IN  [v |-> [v EXCEPT !.slots = [c \in Cluster |-> [i \in 1 .. Slots |->
                IF \E k \in copied : chain[k] = c /\ i \in text(k) THEN Text ELSE @[c][i]]]],
       status |-> IF bad = {} THEN "ok" ELSE "ioError"]

\* Mutant: a text always starts at the start of the chain.
writeDataRewind(v, f, first, from, to) ==
  IF to = from THEN [v |-> v, status |-> "ok"]
  ELSE CopyInto(v, f, Chain(v, f, first), 0, to - from)

\* Mutant: a failed transfer is not reported.
writeDataUnchecked(v, f, first, from, to) ==
  [v |-> CopyInto(v, f, Chain(v, f, first), from, to).v, status |-> "ok"]

\* A file without a cluster has an empty chain.
writeData(v, f, first, from, to) ==
  IF to = from THEN [v |-> v, status |-> "ok"]
  ELSE CopyInto(v, f, Chain(v, f, first), from, to)

------------------------------------------------------------------------------
(* What a volume holds, read without faults *)

Slot == {End, Deleted, Text} \cup
        [kind: {"entry"}, name: Names \cup {".", ".."}, dir: BOOLEAN,
         first: {none} \cup Cluster, size: 0 .. MaxSize]

\* The entries a scan of a directory reports, with "." and "..": those before
\* the first never-used slot.
Entries(v, dir) ==
  LET chain      == Chain(v, Healthy, dir)
      ended(k, i) == \E l \in 1 .. Len(chain), j \in 1 .. Slots :
                       (l < k \/ (l = k /\ j <= i)) /\ v.slots[chain[l]][j] = End
      scanned    == {p \in (1 .. Len(chain)) \X (1 .. Slots) : ~ended(p[1], p[2])}
      slots      == {v.slots[chain[p[1]]][p[2]] : p \in scanned}
  IN  {slot \in slots : slot.kind = "entry"}

Children(v, dir) == {e \in Entries(v, dir) : e.name \notin {".", ".."}}

\* Every entry of the tree with the names that lead to it, level by level.
Branches(v, dir, names) ==
  {[path |-> Append(names, e.name), dir |-> e.dir, first |-> e.first, size |-> e.size, parent |-> dir] :
     e \in Children(v, dir)}

Tree(v) ==
  LET level[k \in 0 .. Clusters] ==
        IF k = 0 THEN Branches(v, rootCluster, <<>>)
        ELSE UNION {Branches(v, t.first, t.path) : t \in {u \in level[k - 1] : u.dir}}
  IN  UNION {level[k] : k \in 0 .. Clusters}

Directories(v) ==
  {[path |-> <<>>, first |-> rootCluster, parent |-> rootCluster]} \cup
  {[path |-> t.path, first |-> t.first, parent |-> t.parent] : t \in {u \in Tree(v) : u.dir}}

\* Whose cluster each chain of the tree is: the root, the directories and the
\* files with data.
Chains(v) ==
  {[owner |-> <<>>, chain |-> Chain(v, Healthy, rootCluster)]} \cup
  {[owner |-> t.path, chain |-> Chain(v, Healthy, t.first)] :
     t \in {u \in Tree(v) : u.dir \/ u.first # none}}

Used(v)   == {c \in Cluster : v.fat[c] # Free}
Leaked(v) == Used(v) \ UNION {ToSet(h.chain) : h \in Chains(v)}

\* Who has what: the tree without the clusters.
Listing(v) == {[path |-> t.path, dir |-> t.dir, size |-> t.size] : t \in Tree(v)}

Shown(v) == [tree |-> Listing(v), leaked |-> Leaked(v)]

------------------------------------------------------------------------------
(* The commands of the shell *)

\* The size of the file a command found, 0 if there is none (for the bound only).
SizeIn(parent, found) == IF parent.status = "ok" /\ found.status = "ok" THEN found.entry.size ELSE 0

\* What a command leaves: the volume and the status.
Done(v, s) == [v |-> v, status |-> s]

IsFile(found) == found.status = "ok" /\ ~found.entry.dir
IsDir(found)  == found.status = "ok" /\ found.entry.dir

\* writeFile for a name the directory does not have: the data first, then the
\* entry.  A chain whose text could not be written is released; one whose
\* entry could not be created is not.
NameText(f, parent, name, n, first, written) ==
  IF written.status # "ok" THEN Done(freeChain(written.v, f, first), written.status)
  ELSE createEntry(written.v, f, parent, Entry(name, FALSE, first, n))

WriteNew(f, parent, name, n, chain) ==
  IF chain.status # "ok" THEN Done(chain.v, chain.status)
  ELSE NameText(f, parent, name, n, chain.first, writeData(chain.v, f, chain.first, 0, n))

\* writeFile for a file that exists: an overwrite frees the old chain first.
UpdateEntry(f, found, first, size, written) ==
  IF written.status # "ok" THEN Done(written.v, written.status)
  ELSE writeEntry(written.v, f, found.pos, [found.entry EXCEPT !.first = first, !.size = size])

WriteOld(f, found, from, to, chain) ==
  IF chain.status # "ok" THEN Done(chain.v, chain.status)
  ELSE UpdateEntry(f, found, chain.first, to, writeData(chain.v, f, chain.first, from, to))

writeFile(f, path, n, append, parent, found) ==
  IF parent.status # "ok" THEN Done(vol, parent.status)
  ELSE IF found.status = "notFound"
  THEN WriteNew(f, parent.cluster, Last(path.comps), n, ensureChainSize(vol, f, none, n))
  ELSE IF IsDir(found) THEN Done(vol, "isDirectory")
  ELSE IF found.status # "ok" THEN Done(vol, found.status)
  ELSE IF append
  THEN WriteOld(f, found, found.entry.size, found.entry.size + n,
                ensureChainSize(vol, f, found.entry.first, found.entry.size + n))
  ELSE WriteOld(f, found, 0, n, ensureChainSize(freeChain(vol, f, found.entry.first), f, none, n))

touch(f, path, parent, found) ==
  IF parent.status # "ok" THEN Done(vol, parent.status)
  ELSE IF found.status = "notFound"
  THEN createEntry(vol, f, parent.cluster, Entry(Last(path.comps), FALSE, none, 0))
  ELSE Done(vol, IF IsDir(found) THEN "isDirectory" ELSE found.status)

\* makeDirectory: cluster, dot entries, entry; an error frees the cluster.
UnlessMade(f, c, made) ==
  IF made.status # "ok" THEN Done(freeChain(made.v, f, c), made.status) ELSE made

NameDirectory(f, parent, name, c, dots) ==
  IF dots.status # "ok" THEN dots
  ELSE createEntry(dots.v, f, parent.cluster, Entry(name, TRUE, c, 0))

NewDirectory(f, parent, name, new) ==
  IF new.status # "ok" THEN Done(new.v, new.status)
  ELSE UnlessMade(f, new.cluster,
                  NameDirectory(f, parent, name, new.cluster,
                                initializeDirectory(new.v, f, new.cluster, parent.cluster)))

makeDirectory(f, path, parent, found) ==
  IF parent.status # "ok" THEN Done(vol, parent.status)
  ELSE IF found.status = "ok" THEN Done(vol, "alreadyExists")
  ELSE IF found.status # "notFound" THEN Done(vol, found.status)
  ELSE NewDirectory(f, parent, Last(path.comps), allocateCluster(vol, f))

\* remove: the clusters first, then the entry.
remove(f, path, parent, found) ==
  IF Last(path.comps) = ".." THEN Done(vol, "invalidName")
  ELSE IF parent.status # "ok" THEN Done(vol, parent.status)
  ELSE IF found.status # "ok" THEN Done(vol, found.status)
  ELSE IF found.entry.dir /\ ~directoryEmpty(vol, f, found.entry.first) THEN Done(vol, "directoryNotEmpty")
  ELSE writeEntry(freeChain(vol, f, found.entry.first), f, found.pos, Deleted)

\* A command ends: its volume, its status and the harm it met.  The current
\* directory is gone once its own table entry is free.
Finish(f, result) ==
  /\ vol' = result.v
  /\ status' = result.status
  /\ harm' = IF ~Sound THEN harm
             ELSE IF Struck(f) = "none" /\ result.v.fat[cwd] = Free THEN "orphan" ELSE Struck(f)
  /\ shown' = IF Sound' /\ vol' # vol THEN Shown(vol') ELSE shown
  /\ UNCHANGED <<cwd, cwdPath>>

WriteFile ==
  \E f \in Fault, path \in Paths, n \in Lengths, append \in BOOLEAN :
    \E parent \in {resolveParent(f, path)} : \E found \in {LastIn(f, parent, path)} :
      /\ append => SizeIn(parent, found) + n <= MaxSize
      /\ \E r \in {writeFile(f, path, n, append, parent, found)} : Finish(f, r)

Touch ==
  \E f \in Fault, path \in Paths :
    \E parent \in {resolveParent(f, path)} : \E found \in {LastIn(f, parent, path)} :
      \E r \in {touch(f, path, parent, found)} : Finish(f, r)

MakeDirectory ==
  \E f \in Fault, path \in Paths :
    \E parent \in {resolveParent(f, path)} : \E found \in {LastIn(f, parent, path)} :
      \E r \in {makeDirectory(f, path, parent, found)} : Finish(f, r)

RemovePath ==
  \E f \in Fault, path \in Paths :
    \E parent \in {ExistingParent(f, path)} : \E found \in {LastIn(f, parent, path)} :
      \E r \in {remove(f, path, parent, found)} : Finish(f, r)

ChangeDirectory ==
  \E f \in Fault, path \in Paths :
    \E at \in {PathWalk(f, path)} :
      /\ status' = at.walk.status
      /\ harm' = IF Sound THEN Struck(f) ELSE harm
      /\ cwd' = IF at.walk.status = "ok" THEN at.walk.cluster ELSE cwd
      /\ cwdPath' = IF at.walk.status = "ok" THEN at.text ELSE cwdPath
      /\ UNCHANGED <<vol, shown>>

\* unmnt, and mnt again: the volume stays, the current directory is the root.
Remount ==
  /\ cwd' = rootCluster /\ cwdPath' = <<>>
  /\ status' = "ok"
  /\ UNCHANGED <<vol, harm, shown>>

\* A volume dformat has just made and mnt has mounted.
Init ==
  /\ vol = [fat |-> [c \in Cluster |-> IF c = rootCluster THEN endOfChain ELSE Free],
            slots |-> [c \in Cluster |-> [i \in 1 .. Slots |-> End]]]
  /\ cwd = rootCluster /\ cwdPath = <<>>
  /\ status = "ok" /\ harm = "none"
  /\ shown = Shown(vol)

Next == WriteFile \/ Touch \/ MakeDirectory \/ RemovePath \/ ChangeDirectory \/ Remount

Spec == Init /\ [][Next]_vars

------------------------------------------------------------------------------
(* Properties *)

\* The volume, the current directory and the last status have their types.
TypeOK ==
  /\ vol \in [fat   : [Cluster -> {Free, endOfChain} \cup Cluster],
              slots : [Cluster -> [1 .. Slots -> Slot]]]
  /\ cwd \in Cluster /\ cwdPath \in Seq(Names)
  /\ status \in Status /\ harm \in Harm

ChainsDisjoint ==
  LET chains == Chains(vol)
  IN  /\ \A h \in chains : /\ h.chain # <<>>
                           /\ ToSet(h.chain) \subseteq Used(vol)
                           /\ vol.fat[Last(h.chain)] = endOfChain
      /\ \A g, h \in chains : ToSet(g.chain) \cap ToSet(h.chain) # {} => g = h

\* The clusters of the table are partitioned: a cluster belongs to at most one
\* chain of the tree, every chain is allocated to its end and ends, and so no
\* allocation of allocateCluster or findFreeEntry can hand out a cluster of a
\* file, until a command removes the current directory or the device fails.
NoCrossLink == Sound => ChainsDisjoint

\* readFile can deliver every file: the chain of writeFile reaches over the
\* whole size of the entry, and holds text there, after any sequence of
\* overwrites, appends and removals.
readable(v, file) ==
  LET chain == Chain(v, Healthy, file.first)
  IN  /\ file.size <= Len(chain) * Slots
      /\ \A n \in 1 .. file.size :
           v.slots[chain[((n - 1) \div Slots) + 1]][((n - 1) % Slots) + 1] = Text

Readable(v) == \A t \in Tree(v) : ~t.dir => readable(v, t)
FilesReadable == Sound => Readable(vol)

\* A directory has at most one entry of a name, and its "." and ".." lead to
\* itself and to the directory that lists it, so that `cd ..` goes where the
\* path says (createEntry, initializeDirectory).
DirectoriesLinked ==
  Sound =>
    \A d \in Directories(vol) :
      LET entries == Entries(vol, d.first)
      IN  /\ \A e, g \in entries : e.name = g.name => e = g
          /\ d.first # rootCluster =>
               {[name |-> e.name, first |-> e.first] :
                  e \in {x \in entries : x.name \in {".", ".."}}} =
               {[name |-> ".", first |-> d.first], [name |-> "..", first |-> d.parent]}

\* The path the prompt shows (edited as text) is the path of the directory
\* that relative names start from (found by walking clusters).
CwdPathLeadsToCwd ==
  Sound => \E d \in Directories(vol) : d.path = cwdPath /\ d.first = cwd

\* A command that reports an error leaves every name, kind and size as it was;
\* one that succeeds changes one name at most.
ErrorKeepsTree ==
  [][Sound' =>
       LET before  == shown.tree
           after   == shown'.tree
           changed == (before \ after) \cup (after \ before)
       IN  /\ status' # "ok" => before = after
           /\ Cardinality({t.path : t \in changed}) <= 1]_vol

\* A cluster is lost (allocated, in no file or directory) only by a command
\* that runs out of space: the released chains of writeFile, makeDirectory and
\* remove are released whole.
LeaksOnlyWhenFull ==
  [][Sound' /\ ~(shown'.leaked \subseteq shown.leaked) => status' = "noSpace"]_vol

\* A cluster that cannot be accessed while a command runs is reported ("Block
\* operation or internal metadata operation failed", docs/fat32-filesystem.en.md):
\* a command that answers ok all the same leaves every file readable.
FailuresAreReported ==
  [][Sound /\ harm' = "data" /\ status' = "ok" => Readable(vol')]_vol

==============================================================================
