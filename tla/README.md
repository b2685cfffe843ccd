# A TLA+ model of UnityKernel

UnityKernel is a small single-threaded x86 kernel with a text shell, two file
systems (ext4 and FAT32), a polled AHCI driver and a RAM disk. The modules in this
directory model the parts of it in which many legal steps can add up to an illegal
state: the switch between the two disks, the two file systems, the console and its
interrupt, the heap, the AHCI driver, the layout of a new volume and the shell's dialogue.
TLC checks them on small instances; TLAPS proves the main properties of all eight of these
for every value of their constants.

`PROJECT.json` names, for every definition that models code, the file and lines it
stands for.

    tlc -workers 2 -config Filesystem.cfg Filesystem     # a run
    tlapm FilesystemProofs.tla                            # the proofs of a module

Contents: [the system](#the-system), [the modules](#the-modules),
[the runs](#the-runs), [proofs](#what-is-proved),
[divergences](#known-divergences), [what is left out](#what-is-not-modelled),
[plan](#plan).

## The system

Everything runs on one processor and one thread. The only concurrency is between
that thread and (a) the interrupt handlers for the keyboard and the timer and (b) the
AHCI controller, which reads and writes memory by itself. What makes the rest hard
is state that several components keep about the same thing, and operations that
fail, or lose power, between two of their writes.

| Component (src/portable/kernel/cxx unless named) | State | Operations | Talks to | Hard because | Correct when |
|---|---|---|---|---|---|
| File service, `filesystem.cpp` | `backend`, `preferred`, the one static `Ext4Driver` | `mountSata`, `unmountSata`, `prepareDiskFormat`, `initialize`, forwarding of file commands | called by the shell; binds ext4 and FAT32 to a device | one ext4 driver object serves two devices; each switch may fail half way | what serves is what the switch says; nobody uses a disk that is being formatted |
| Disk format, `dformat.cpp`, `Ext4Driver::format` | only the disk | `partitionAndFormatFat32`, `formatExt4` | called by the shell; writes to AHCI; `mnt` reads back what it wrote | dozens of writes, each may fail or be the last; sizes depend on each other in a circle | a type is preferred only after its format finished; the layout fits the disk and a mount computes the same one |
| FAT32, `fat32.cpp` | the geometry, `cwdCluster`, `cwdPath`; on the disk: table, directories, files | `writeFile`, `touch`, `makeDirectory`, `remove`, `changeDirectory`, list, read, stat | called by the file service | clusters move between owners; deleted slots and grown directories are reused | every cluster has one owner, files are readable, errors change nothing, nothing leaks |
| ext4, `ext4.cpp` | geometry, `writable_`, `dirty_`, `cwdInode_`, `cwdPath_`; on the disk: bitmaps, counters, inodes, extent trees, directories | the same, `mountAt`, `finalize`, `format` | called by the file service | up to two dozen writes per command, no journal, extent trees that grow a level | bitmaps, counters, inodes and names agree; a volume mounted for writing is consistent |
| Console, `console.cpp` | the input ring, the screen and its cursor | `onKeyPress` (in the interrupt), `read`, `readline`, `write` ... | interrupts, shell | the ring's counter is shared with the interrupt handler and not protected | keys come out once each and in order, one that finds the buffer full is dropped and nothing else is; nothing waits for a key that is counted |
| Shell, `shell.cpp` | where the dialogue is | `run`, `executeCommand`, `dformat`, `cmdShutdown` | console, file service | wrapping, erasing and scrolling happen in the same buffer | what is executed is what the screen shows |
| Heap, `liblltools/cxx/allocator.cpp` | a list of blocks in the memory it manages | `initialize`, `allocate`, `deallocate` | everybody | headers and padding between the clients' bytes, merging in two directions | owners never overlap each other or a header; all that is freed can be had again |
| AHCI, `drivers/cxx/ahci/ahci.cpp` | `registers`, `port`, the DMA buffers | `initialize`, `read`, `write`, `finalize` | PCI, heap, the controller | the controller goes on after the driver has stopped waiting | buffers outlive the controller's use of them; success means this command's data |
| Drivers, `driver.cpp` | a map of loaded drivers | load, unload, callbacks | resources | dependencies and callbacks may re-enter | a driver is used only while initialized |
| Resources, `resource.cpp`, RAM disk `drivers/cxx/blockdev/ramdisk.cpp` | registered resources, free identifiers | register, unregister, find | drivers | identifiers are reused | an identifier has one owner |
| Interrupts and timer, `specific/libarch/x86` | IDT, PIC, PIT | `irq_keyboard`, `irq_timer`, `hlt` | console | an interrupt between a test and a `hlt` | every `hlt` ends |
| Kernel entry, `kernel.cpp`, `system.cpp` | none | boot, reboot, panic | all | order of initialization | the RAM disk serves after boot |
| PCI, ACPI, `block.cpp`, libstd, libbase, librt, boot loader | tables and buffers | reads, copies, pure functions | - | - | - |

The `hazards` of `PROJECT.json` list what can go wrong in these components where a
test would hardly reach it, line by line, and which property looks for it.

## The modules

### FileService, Filesystem, FilesystemProofs

`Filesystem` is the switch of `filesystem.cpp` together with what it switches: the mount
state of the one `Ext4Driver` (`ext4`: bound device, mounted, writable, dirty and whose
geometry it uses), the volume selection of FAT32 (`fat`), and what the disks
hold as far as a mount can tell (`super`, `mbr`, `boot`, `complete`). A volume is an
identity, the number of the format that made it, so that a driver that uses the geometry
of a volume that is not there can be told apart from one that does not.

`Mnt`, `Unmnt` and `ModifyExt4` are the shell's commands, one step each: the shell runs one
command at a time and a command's failures are chosen in it (`wrote`: the superblock write
of `finalize` succeeded, `readable`: the volume could be read). `dformat` is `DformatStart`
(the question was answered, `prepareDiskFormat` ran) and then one step for each write
after which a failure or a reset leaves a different disk: `FormatExt4Wipe`,
`FormatExt4Build`, `FormatFatClear`, `FormatFatBoot`, `FormatFatMbr`. `Reboot` may come
between any two of them. `complete` is the set of the volumes whose root directory a format has
cleared since the disk last lost its MBR; `HalfFormatHasOldMbr` says how a volume outside it can be mounted at all.

`FileService` is what the shell counts on: one device serves, the SATA disk is taken out of
service in the step that begins a format, and a mount or format that does not succeed
comes back to the RAM disk. `RefinesFileService` maps `serving` to `backend` and `formatting` to
`shell # "prompt"`.

### DiskFormat, MCDiskFormat, DiskFormatProofs

The numbers of both formats, with the code's own constants, for a disk of any size below 2^32 sectors.
`Iterate` and `NextClusterSize` are the two loops of `chooseGeometry`, one step per iteration:
a table of `fatSectors` sectors leaves some clusters, those need a table of some size, and the
search ends where the two agree. `DropGroup` is the loop of `Ext4Driver::format` that gives up a
trailing group without room for its own metadata. `WriteFat32` and `WriteExt4` put what was chosen on the
disk (`volume`), and `Mount` computes from that what `readVolumeGeometry` and `mountAt` would
(`found`), with the mount's formulas and not the format's. Which of the writes may fail is `Filesystem`'s subject.

### Fat32, MCFat32, Fat32Proofs

A mounted volume of `fat32.cpp`: the allocation table (`vol.fat`) and the clusters
(`vol.slots`), each a row of 32-byte slots. A slot is never used, deleted, an entry, or a part of a
file's text, and file sizes are counted in slots; so a cluster that is read as a directory
after it held text is what it is on the disk. Helpers keep the source's names
(`allocateCluster`, `freeChain`, `findFreeEntry`, `ensureChainSize`, ...), take the volume and
return the new one with a status; a command is one step that composes them in the code's
order. Where a function goes on with what it just got, the rest of it is an operator with that result
as a parameter (`WriteNew` has the chain, `NameText` the written text, `createEntry` ends it); `Ext4` is
written in the same way. `f` is what the device fails to do while the command runs: one sector of the table (`f.read`), for
which `readFat` answers "free", or one cluster (`f.data`). `harm` remembers that a failing
device or the removal of the current directory is behind us; past that point nothing is
promised and nothing is explored. `shown` caches what is listed and what is lost, for
the two properties that compare them before and after a command.

### FileTree, Ext4, MCExt4, Ext4BlockProofs, Ext4Proofs

`Ext4` is a volume as `Ext4Driver::format` makes it: block and inode bitmaps, group and superblock
counters, inodes with extent trees, directory blocks with their records. A command is a
program of device writes. Its state, a "run", is threaded through helpers that keep
the source's names; `Put` is the one operator that writes, and the one at which a
power cut or a failed write strikes. So the order of the writes of each command is the
code's order, and each is a place to stop. A cut is followed by `mountAt`. Writes of the
same bitmap or text block that become visible together are one `Put`.

Block 0 of a group stands for the group's metadata, a free block holds `Junk`, sizes are in
units. The reserved inodes and `lost+found` are left out, and so are hard links, block
maps, htree directories and meta_bg: `format` makes none of them. `tree` is `TreeOf(vol)`, kept as a
variable so that TLC computes it once per state.

`FileTree` is the abstract volume: a function from paths to nodes, and commands that change
one path or answer with an error and change nothing. A write makes a file as long as its text, or an
append longer by it; the one exception is a write that runs out of
space, which may leave a shorter text. The path and the kind of node a command asked for are not part of the abstract
state: that the command changes the path it named is not what `FileTree` says. `RefinesFileTree` says that `Ext4` implements it; TLC checks it, `Ext4Proofs` proves it.

### Console

The ring of `console.cpp`. Handlers run through interrupt gates and are one step each
(`irq_keyboard`, `irq_timer`). `read()` is split where an interrupt matters: the test
of `inputCount`, the `hlt`, the store of `inputCount`, the load of the character. `inputCount`
is a plain `size_t` changed on both sides, a data race, so what the stores do is the compiler's
choice: `CountFirst` (the counter is stored before the character is loaded) and `CountLoaded` (it is
stored as the value the test loaded, minus one). `build` is the set of liberties taken, chosen at the start from `Builds`. With the
`-O2` of `CMakeLists.txt` gcc emits load, test, subtract, store and takes both; the run `console` and the proofs cover all four builds. Two history
variables follow the keys: `unread` is the set of slots with a key that `read()` has not taken, `lapped` tells that a key has been put
over one of them.

### Shell, MCShell, TerminalProofs

The line editor with its echo. `putchar`, `write`, `newline` and `scroll` are the functions of
`console.cpp` on a screen of `Columns` by `Rows`; `readline` takes one key per step; `LineDone` is the
rest of `Shell::run` or of `dformat`'s question. A command line is one key per word the
dialogue depends on: "d" for dformat, "q" for shutdown, "c" for clear.

### Heap, HeapProofs

`FirstFitAllocator` on addresses: `mem` maps the address of a header to its fields, `last`
is `lastMemoryBlock`, `owned` is a history of what each client asked for. `allocate` begins a request,
`PassOver` is a turn of its loop, `Take` and `NoBlock` end it; `deallocate` is one step. `split` and
`merge` are the code's, with the padding that aligning the second block costs.

### Ahci, AhciProofs

The driver's program (`pc`, `k` for `portNumber`) and the controller's (`Fetch`, `Move`, `Complete`,
`Fail`, `EngineStops`) interleave. The controller is external: it is modelled from what the
driver relies on. A wait of the driver ends when the register says so or when its poll limit is
reached, which may happen at any time if `"hang" \in faults`. `faults` is chosen once per
behaviour, so that a property can speak of behaviours in which nothing of a kind fails.
`issued`, `done` and `answered` are histories of whose data was moved and who was told so.

## The runs

Deadlock is checked everywhere except in `Ahci.cfg` (an idle driver whose command bound
is used up has nothing to do) and `Shell.cfg` (a confirmed shutdown turns the machine off).

| Run | States | Question, and why the bounds are enough |
|---|---|---|
| `filesystem` | 5,922 | May any sequence of `mnt`, `unmnt`, writes, `dformat` and reset, with any I/O failing, leave a driver behind, format a disk in service, mount a half-formatted volume of a new disk or record an unfinished format? Three formats give an old volume of each type, a new one over it and one more that fails over both; every property is about at most two volumes. |
| `filesystem_mount` | violation | Is a mounted driver's geometry that of the volume it is bound to? One format, or none, is enough to show it is not. |
| `fat32` | 36,573 | Do the table, the directories and the files stay consistent, are errors without effect, and is a bad cluster reported? Four clusters of two slots: "." and ".." fill a directory, so its first entry makes it grow; the root, a grown directory and one file fill the disk, so every allocation is also tried when it must fail. Texts are one slot: the shell cannot type a text of more than a cluster. Files grow to a second cluster by appending (`MaxSize` 3). Three paths: one is absolute and walks over ".." at the root, one is relative and names a different entry in each directory ("b", of which a directory may hold another), one is "..". The bad cluster is in the middle, where first fit gives it to everyone in turn. |
| `console` | 40,608 | With `read()` as any of four builds has it, can it skip, repeat or swap keys before one is put over another, and does a counted key end the wait? And executed as it is written, can it ever? A ring of three slots and two keys: the ring wraps, fills, overflows while the count is wrong, and holds keys on both sides of the wrap. Any number of keys may be typed. |
| `console_count` | violation | Is `inputCount` the number of characters in the buffer, in the build gcc makes? One key at the wrong moment shows it is not. |
| `shell` | 25,974 | Is the line that will be executed the one on the screen? 3 x 4 cells, a prompt of two and lines of four keys, so that a line never fills the screen (`ShellAssumption`): it wraps in the first row or the last, scrolls in the middle of a word, and is erased back over the line break. |
| `heap` | 219,225 | Can blocks overlap, or freed memory be lost? 36 bytes hold six smallest blocks; sizes 1, 4 and 7 against alignment 2 and minimum 4 give all cases of splitting: no room, exact, with padding. |
| `ahci` | 29,656 | Do DMA buffers outlive the controller's use, does success belong to the command, is a disk found, does every call end? Two ports with every attachment (a port before and one after), every set of faults, four commands: IDENTIFY on both ports, a command that times out, and the next one. |
| `ext4` | 32,080 | Do bitmaps, counters, inodes, names and contents agree after every command, full disk included, and does the driver implement `FileTree`? Two groups of two blocks and two inodes: allocation goes over to the next group and comes back, and every second command runs out of something. An extent root of one entry makes the second run of blocks push the root down. |
| `ext4_cut` | 5,886 | Power goes before any one write: is what is mounted for writing consistent, and does every name still lead somewhere, while an extent tree grows through all its shapes? Eleven groups of one block: no two blocks are neighbours, so each is an extent of its own. Root of two, leaves of three: full root, one leaf, two leaves, tree full, and out of space in between. One name, used at two levels, and two slots in a block, so that every directory grows with its first entry. `MaxWrites` 32 is more than any command of this volume makes, so every write is struck. |
| `ext4_fail` | violation | The same with a write that fails: is what is mounted for writing consistent? The sixth write is late enough. |
| `disk_format` | 32,739 | Do both layouts fit the disk, does the search for a FAT32 geometry pass over none that is exact, does a mount compute the same? The numbers are the code's, 501 sizes: both sides of each size at which a decision changes (smallest volume, one more sector of the table, other cluster or block size, a group dropped or kept, the descriptors' second block), and some between them. |

What each property says, and about which code, stands above it in its module. Every
property is also known to notice a plausible bug: `PROJECT.json` pairs it with a changed definition
(kept next to the original, marked "Mutant") under which TLC finds it violated.

Bounds by name: `MaxFormats` (Filesystem), `Clusters`, `Slots`, `Lengths`, `MaxSize`, the paths of
`MCFat32` and the constraint `WhileSound` (Fat32), `Size` (Console), `Columns`, `Rows`,
`LineSize`, `AnswerSize` (Shell), `heapEndAddr` and `Sizes` (Heap), `AllSizes` of `MCDiskFormat` (DiskFormat), `LastPort`, `MaxCommands` (Ahci),
`Groups`, `BlocksPerGroup`, `InodesPerGroup`, `Lengths`, `MaxSize`, `MaxWrites` and the paths of
`MCExt4` (Ext4). One fault strikes a command at most.

### Fairness

`Console` and `Ahci` state some. In `Console`, `WF(Reader)`: the processor executes the shell's instructions, and
`WF(irq_timer)`: `init` of `interrupt.cpp` starts the PIT, which interrupts a thousand times a second for ever, so a
halted processor is woken. In `Ahci` (`FairSpec`), the processor executes the driver, and the controller goes on
with what it was told, but only where `"hang" \notin faults`: where it may hang, nothing is asked of it, and
`CallsEnd` rests on the limits of the driver's polls alone. Nothing obliges anybody to type or to call the
driver, and no other module's properties need more than safety.

## What is proved

TLAPS checks eight modules of proofs, for every value of the constants. The assumptions are those of the modules
about their own constants: that bounds are numbers, that the ring has a slot, that a size is below 2^32, that `initialize` of
the heap succeeded, and two that the code owes to its constants: a prompt and a full line leave a row of the screen
free (`ShellAssumption`; 256 characters and a path against 80 x 24 cells), and a typed text is not longer than the smallest cluster (`LinesAreShort` of
`Fat32`; divergence 6 is what happens otherwise).

**FilesystemProofs**. The properties are not inductive: `RamServes` says nothing of the other back ends,
yet leaving them must lead into it. `SwitchInv` says for each back end what both drivers are bound to, that
the RAM disk always holds its volume, and that a running format implies the RAM back end. The central lemma,
`SwitchSucceeds`, is that under `SwitchInv` `switchToRam` cannot fail (the RAM disk does not
fail) and where it leaves the drivers; every action but a write begins with it. `SwitchInvariant`
then has one lemma per group of actions, and from it follow `TypeCorrect`, `RamServesAlways`,
`FatServesAlways`, `FormatAloneAlways`, `PreferredIsFormattedAlways` and `ImplementsFileService` (initial
state and every step of the switch map to those of `FileService`). A second invariant, `MbrInv`, about the disk alone
(volumes are numbered in the order of their formats, and a disk with an MBR holds the root of one no newer than its boot sector), gives
`HalfFormatHasOldMbrAlways`.

**DiskFormatProofs**. The search applies an antitone function to the size of the table. Around an exact size
e, an iteration brings the distance d down to at most (2d + 127) div 128 and to the other side of e (`Closer`); next to e the
second iteration from there is at it, because the two neighbours of an exact size do not lead to
each other (`Settles`). `FormatInv` says how far the current iteration can still be from every exact size, which is 0 at the seventh;
so `NoGeometryIsMissedAlways`. The rest is arithmetic about the two layouts: the numbers fit their groups and
partitions (`LayoutFitsAlways`), and the mount's formulas give the format's (`MountAgreesAlways`).

**AhciProofs**. `AhciInv` joins the properties with what carries them: the driver's record of its port (`Bound`), that
the engine of the port in use cannot stop (`Engine`), that the port holds the command of the last `Issue` or none
(`OwnEnd`), that without hangs a port nobody polls is idle (`Quiet`), and what the scan knows of the ports behind it
(`Scanned`). One lemma per action or small group of them; from it the types and all four safety properties, for any number of ports and commands.

**HeapProofs**. `HeapInv` is `ListIsWhole` strengthened (`Whole`: the list goes back as it goes forth, every block is aligned and not
empty, `last` is the highest), what the clients hold (`Held`), no two free neighbours (`Merged`), and that the walk
of `allocate` has passed nothing that fits (`Walk`). `split` and `merge` are first shown to be what they should on
any whole list (`MergeJoins`, `CarveCarves`) and to keep it whole; `deallocate` passes through a list on
which only the freed block may have a free neighbour (`Almost`, `Settled`). From `HeapInv`: the types, the three properties of the run,
that the empty heap is the initial one (`EmptyIsInitialAlways`), and that the allocator is first fit
(`FirstFitAlways`: the lowest block that fits, and none is refused while one does).

**TerminalProofs**, the ring. That `read()` takes the oldest key depends on where the keys stand and on how far the counter may be off at
that moment. `Queued` says that the keys not taken stand in a row from `inputTail` to `inputHead`; `ClaimBounds` how many of them `inputCount` may claim, for
each step of `read()` and each build; both only until a key is put over another (`InOrder`). `CopyBounds` relates `loaded` to `inputCount`
at all times. With `ConsoleTypeOK` the three are inductive. From them: `ConsoleTypes` (no index leaves
the buffer, no underflow of the counter) and `ReadsInOrderAlways`, for every build; and where `build` is empty (`AsWritten`) the counter
is exact (`ExactInv`), so `AddsIfNotFull` (no key is ever put over another), which `ReadsInOrderAlways` uses, and `CountsAsWritten`.

**TerminalProofs**, the line editor. `ShellInv` is that the cells before the cursor are the prompt and the line (`Shows`), at every key. One
lemma for each thing that can happen to a text on the screen: a cell joins it (`WriteShows`, with the scroll when
the last cell of the screen is passed; here the free row is needed, without which the beginning would be scrolled away), the last cell
is erased (`EraseShows`), a whole text is printed (`PrintShows`).

**Fat32Proofs**. `TypeInv` is inductive by itself. The properties speak of a tree of directories that is found by walking the table
from the root, and say nothing a single write could be shown to keep. So the invariant turns them around: it claims
that there *are* an owner and a place for each cluster and a set of directories (`SoundAt`: `own`, `rank`, `D`), and says what each slot and
each entry of the table means under them, one cluster at a time:

| Part | Says | Needed because |
|---|---|---|
| `Tiled` | used clusters are in chains, linked in the order of their places | a chain ends, and freeing one ends where another begins |
| `Scanned` | directories hold no text, and nothing behind a never-used slot | a scan that stops there has seen all entries |
| `Named` | an entry leads to the head of a chain, no two to the same | freeing a file's chain frees nobody else's |
| `Unique` | a name is once in a directory | removing it removes all of it; an overwrite cannot leave an older one |
| `Dotted` | directories but the root have dot entries and are listed by the directory ".." names | `cd ..` and the walk down agree |
| `Written` | a file's chain holds text as far as its size | reading, and appending behind it |
| `Leads` | the path of the prompt passes through directories to the current one | it is edited as text and followed by clusters |

`Named`, `Dotted` and `Written` take a slot that is excused: in the middle of `writeFile`, `makeDirectory` and `remove` one
entry does not fit its chain, and the helpers are proved for that state. Each helper has a lemma that says what it does to
the volume (`allocateCluster` grants, `freeChain` frees, `ensureChainSize` appends, ...), each command one that puts them together, and
`VolumeSound` takes them by CASE. The commands of a device that fails, and the removal of the current directory, leave `Sound` behind, which the invariant, like the
properties, is conditional on. `FileInvImplies` and the lemmas on `Entries`, `Tree`, `Chain` and the walks of paths then give `NoCrossLinkAlways`, `FilesReadableAlways`,
`DirectoriesLinkedAlways` and `CwdPathAlways`. Chains, walks and the tree are recursive functions; what they
compute is proved without an induction theorem, from the least element of a set of numbers (`LeastOf`, by the
well-foundedness of finite sets) and two consequences (`HandedOn`, `Iterated`).

**Ext4BlockProofs, Ext4Proofs**. As in `Fat32`, the properties are about what a walk of the volume finds (its blocks from the extent trees, its
names from the root), and a command breaks them between any two of its writes. `Sound` says what holds between commands:

| Part | Says | Needed because |
|---|---|---|
| `World(v, {})` | every inode is `Whole`, what they own is disjoint, and the bitmap is what they own | a block that is handed out is nobody's, one that is freed was one inode's |
| `Whole` | a tree within its root and leaves, no block twice, as many blocks as the size asks for, each filled with what its kind of inode reads there | reading; appending behind the last block; freeing all of an inode frees its leaves too |
| `Counted` | free blocks, free inodes and directories are counted, in groups and superblock | allocation believes the counters before it looks at a bitmap |
| `Treed` | the inode bitmap, the entries, the link counts and the ".." entries are those of one tree (`Forest`) | removing a name removes an inode's only name; the parent's link count falls with it |

`World(v, X)` has a parameter: X are the blocks a command has taken or is about to free, so the lemmas about `allocBlock`, `freeRun`, `appendBlock`
and the loops over them (proved like those of `Fat32`, by least elements) can be stated for the middle of a command.
`Ext4BlockProofs` has these, for one inode seen apart from the bitmap (`View`, `Rest`), and the directories
(a record is split, joined or appended, and the entries change by that one name); `Ext4Proofs` has the trees of names (`Forest` under
the birth and the death of a leaf), the commands (`Done`: `Sound` again, and marked as changed if it was), and the paths from `Sound` to the
properties as the runs state them. The invariant is `Open`: `Sound`, writable, and called clean exactly as long as it is unchanged since
a mount. That is for `Faults = {}`, where every write reaches the disk.

Where the power may go before any write (`Faults \subseteq {"cut"}`) a command leaves what `Sound` says nothing of, but the clean bit is off by then.
`Held` says so of a run in the middle of a command, with the inodes it has not touched (`Off`), and every helper keeps it whatever strikes it:
no helper but `finalize` writes that bit. The inodes are needed because a text goes into the inode just made, and the loops
of a command end only if what an inode owns can be counted (`Countable`). So a command has either not changed the volume or left
it marked (`Marks`), the next mount is read-only (`Closed`), and nothing is written to it again: `Open \/ Closed` is
inductive (`CautiousAlways`), and gives `AlwaysSafeToWrite` and, for all the invariants that the run `ext4` checks at `Faults = {}` and
`NamesLeadSomewhere`, `WritableAlwaysWhole`. With writes that fail and a system that goes on, the claim is false (divergence 3).

The refinement (`TreeImplemented`, at `Faults = {}`) needs more than that each command ends in a sound volume: which one. `Mirror` adds to `Open` that the
abstract tree is the volume's, and that the path the driver keeps is the one that leads
to the current directory. Paths are found by a walk of
as many steps as they have names; the proofs give each inode its names instead (`Spells`), which one walk by levels shows to exist
(`Branches`), to differ (`PathsApart`) and to be short enough for the walk (`PathsShort`). Then each command is shown to do one of five things to the
entries (`Outcome`): it refuses and changes none, touches a file that is there, fills a file, plants a new leaf, or pulls one; and each of these is a step of `FileTree`.
How long a file is after a write is in `Filed`: from its start or from its old end, by as much as the text has. That a write may come
out short only with `noSpace`, and an `rm` pulls a directory only when nothing is below it, comes from the commands;
that a refused or undone command leaves the other names alone is what the abstract frame asks for.

Only model-checked: `CountedKeysAreRead` and `CallsEnd` (liveness under fairness is outside this prover); the three action
properties of `Fat32` (`ErrorKeepsTree`, `LeaksOnlyWhenFull`, `FailuresAreReported`), which compare two trees and not a volume
with itself, and for the last of which every step of every command would be done again with a failing device; and of `Ext4` what
a read-only mount still shows after a power cut (`NamesLeadSomewhere` where the volume is not `writable`), for which the volume between any two writes
of every command would have to be described.

Times of a check from nothing: `Fat32Proofs` about a quarter of an hour, `Ext4BlockProofs` and `Ext4Proofs` about 17 and 20
minutes, the others less than ten together.

## Known divergences

Where the code does not do what its documentation or comments say, or loses what it should keep. The first three have
runs whose counterexamples show them:

1. `mnt` of an ext4 SATA volume never reads it (`ext4.cpp:525`): the driver is already mounted on the
   RAM disk, `initialize` returns at once, and RAM geometry is used on the SATA disk. Run `filesystem_mount`.
2. A key pressed while `read()` is between its test and its store is not counted (`console.cpp:174`) and comes out
   one key late (run `console_count`). And a key pressed while a full buffer is between the store of the count and the load of the character is put over the
   oldest one, where `console.cpp:145` says it is added "if not full": a key is lost, and with the count too low
   for good, keys come out in another order or twice. That is the `lapped` of the model; only the build as written is without it
   (theorem `AddsIfNotFull`), and in the others `ReadsInOrder` ends there.
3. `finalize` marks a volume clean also after a command that failed between two of its writes
   (`ext4.cpp:533`). Run `ext4_fail`.

The others follow from reading the code and were met as counterexamples while the models were built; no run of the
project repeats them:

4. After a write, `mnt` and `unmnt`, the RAM volume is read-only until the next boot: the clean bit
   goes to whatever device the driver is bound to by then (`ext4.cpp:533`, `filesystem.cpp:139`).
5. A second `dformat fat32` that fails after the boot sector (`dformat.cpp:194`) leaves a volume that `mnt` accepts
   although its root directory was not cleared; the MBR of the first format is still there, and `HalfFormatHasOldMbr` states that this is the only way; and no FAT32 format erases the superblock of an ext4 volume (`dformat.cpp:211`).
6. A new chain of n > 1 clusters gets n - 1 of them (`fat32.cpp:622`); no text the shell can type is
   that long, which `LinesAreShort` of `Fat32` says.
7. A sector of the table that cannot be read reads as "free" (`fat32.cpp:178`): a used cluster may be handed out. The run `fat32`
   therefore lets only a cluster fail, not a table sector.
8. `readline` returns with a full buffer without Enter (`console.cpp:194`): "y" and six blanks start a format, where
   docs/fat32-filesystem.en.md:103 says "type `y` and press Enter to confirm".
9. After a rejected device on an earlier port, `initialize` scans the later ports with `registers` at null
   (`ahci.cpp:419`): a CD-ROM drive on port 0 hides the disk on port 1. `DiskIsFound` states what does hold.
10. `chooseGeometry` wants a table that is exactly as large as its own clusters need (`dformat.cpp:45`). For two of every 130 sizes or so between
   68,639 and 134,000 sectors (33 to 65 MiB) there is none: the search alternates between f and f + 1, and the disk is refused as
   "too small" (`dformat.cpp:230`) although a table of f + 1 sectors would serve. `NoGeometryIsMissed` states what does hold: nothing exact
   is missed.
11. When the directory of a new file has to grow and no cluster is left, `writeFile` answers `noSpace` and keeps the clusters it allocated
   for the text (`fat32.cpp:1117`): they belong to nobody until the next format. `LeaksOnlyWhenFull` states what does hold.
12. When IDENTIFY times out, its buffer is released (`ahci.cpp:413`) before the engine is stopped: a device that answers late writes to
   memory that may be somebody else's by then. `NoStrayDma` states what does hold, for devices that answer within the poll limit.

## What is not modelled

- Drivers, resources and the RAM disk's registration: planned (below). This kernel loads two drivers, without dependencies, and
  never unloads one; that a failed AHCI driver is loaded again is in `Ahci` (`Retry`).
- ext4 volumes made elsewhere: block maps, htree directories, holes, hard links, meta_bg; and reads that
  fail, before or after the first write of a command. FAT32 long names and the fields of the boot sector.
- Listing, `stat` and reading files change nothing and are not actions; whether they can deliver is
  `FilesReadable`.
- The keyboard's shift and control maps; `tryRead`, `freeze` and `defrost`, which nothing calls.
- PCI, ACPI, libstd, libbase, librt, boot loader, other architectures: straight-line I/O or pure functions,
  or not in the build. The components of `PROJECT.json` give the reason for each.

## Plan

1. `Drivers`: `driver.cpp`, `resource.cpp` and `ramdisk.cpp` together: loading in dependency order, callbacks that re-enter,
   identifiers that are reused first in, first out while a finalized driver still keeps its own. It becomes worth the
   effort with the first driver that has dependencies.
2. Runs for the divergences 4 to 12, each against the line it contradicts.
3. `Ext4`: failed writes with the promise that does hold after them (nothing that was readable before and was not
   named by the command is lost); a second power cut while the first is being cleaned up.
4. Compositions: the shell's dialogue over the console's ring (keys typed ahead of a question), and the switch
   over the AHCI driver (loading tried again by `mnt` and `dformat`).
5. Proofs of `NamesLeadSomewhere` for what is mounted read-only after a power cut, and of the action properties of `Fat32`.
