---------------------------------- MODULE Heap ----------------------------------
(***************************************************************************)
(* The kernel heap: LLTools::FirstFitAllocator, which Kernel::Heap hands   *)
(* to new, malloc and the containers.  Blocks form a doubly linked list in *)
(* the memory they manage; allocate takes the first free block that is     *)
(* large enough and splits it, deallocate merges a block with its free     *)
(* neighbours.                                                             *)
(*                                                                         *)
(* Addresses and sizes are numbers; mem maps the address of a header to    *)
(* its fields.  A header absorbed by a merge is forgotten (in the machine  *)
(* its bytes stay behind in free memory).  The clients free only pointers  *)
(* they were given, once.  The kernel runs one thread and no interrupt       *)
(* handler allocates, so calls follow each other: deallocate is one step,  *)
(* and allocate one step for each block that it looks at.                  *)
(***************************************************************************)
EXTENDS Integers

CONSTANTS
  heapStartAddr, heapEndAddr,
  Header,           \* sizeof(MemoryBlockHeader)
  minBlockSize, heapAlignment,
  Sizes             \* bound: the sizes clients ask for

alignAddress(addr) == addr + ((heapAlignment - (addr % heapAlignment)) % heapAlignment)

firstData   == alignAddress(heapStartAddr + Header)
firstBlock  == firstData - Header
usableSize  == heapEndAddr - firstData
Addr        == 1 .. heapEndAddr
nullptr     == 0

\* initialize succeeded.
ASSUME HeapAssumption ==
  /\ {heapStartAddr, heapEndAddr, Header, minBlockSize, heapAlignment} \subseteq Nat \ {0}
  /\ firstData + minBlockSize < heapEndAddr
  /\ Sizes \subseteq Nat \ {0}

Block    == [size: Nat, used: BOOLEAN, next: Addr \cup {nullptr}, prev: Addr \cup {nullptr}]
NoHeader == [size |-> 0, used |-> FALSE, next |-> nullptr, prev |-> nullptr]

VARIABLES
  mem,     \* the headers, by address
  last,    \* lastMemoryBlock
  request, \* the size allocate is asked for, 0 outside a call
  mbh,     \* the block its loop looks at
  owned    \* history: the size each client asked for, by the pointer it holds

vars == <<mem, last, request, mbh, owned>>

IsHeader(m, h)  == m[h] # NoHeader
dataStart(h)    == h + Header
dataEnd(m, h)   == dataStart(h) + m[h].size

--------------------------------------------------------------------------------
\* The allocator's fields and the list, as [mem, last].
\* Mutant: a neighbour keeps its old back pointer.
RelinkNever(m, h, prev) == m

Relink(m, h, prev) == IF h = nullptr THEN m ELSE [m EXCEPT ![h].prev = prev]

\* Block h ends after size bytes; the data of a second block starts at second.
carve(s, h, size, second) ==
  LET at   == second - Header
      rest == [s.mem[h] EXCEPT !.size = dataEnd(s.mem, h) - second, !.prev = h]
  IN  [mem  |-> Relink([s.mem EXCEPT ![h].size = size, ![h].next = at, ![at] = rest],
                       rest.next, at),
       last |-> IF s.last = h THEN at ELSE s.last]

\* Mutant: no room for the second header.
splitTight(s, h, size) ==
  LET second == alignAddress(dataStart(h) + size)
  IN  IF second + minBlockSize >= dataEnd(s.mem, h) THEN s ELSE carve(s, h, size, second)

\* The part behind the first size bytes becomes a block of its own, unless too
\* little would remain.  The bytes lost to alignment in between belong to nobody
\* until the two are merged.
split(s, h, size) ==
  LET second == alignAddress(dataStart(h) + size + Header)
  IN  IF second + minBlockSize >= dataEnd(s.mem, h) THEN s ELSE carve(s, h, size, second)

joinedSize(m, a, b) == dataEnd(m, b) - dataStart(a)

merge(s, a, b) ==
  IF s.mem[a].next # b \/ s.mem[b].used THEN s
  ELSE [mem  |-> Relink([s.mem EXCEPT ![a].size = joinedSize(s.mem, a, b),
                                      ![a].next = s.mem[b].next,
                                      ![b] = NoHeader],
                        s.mem[b].next, a),
        last |-> IF s.last = b THEN a ELSE s.last]

Free(m, h) == h # nullptr /\ ~m[h].used

--------------------------------------------------------------------------------
Init ==
  /\ mem = [h \in Addr |-> IF h = firstBlock THEN [NoHeader EXCEPT !.size = usableSize]
                                             ELSE NoHeader]
  /\ last = firstBlock
  /\ request = 0 /\ mbh = nullptr
  /\ owned = [p \in Addr |-> 0]

\* A request begins with the first block, unless it is larger than the heap.
allocate(size) ==
  /\ request = 0
  /\ size <= usableSize
  /\ request' = size /\ mbh' = firstBlock
  /\ UNCHANGED <<mem, last, owned>>

Fits == mbh # nullptr /\ ~mem[mbh].used /\ mem[mbh].size >= request

\* The loop goes on to the next block.
PassOver ==
  /\ request # 0 /\ mbh # nullptr /\ ~Fits
  /\ mbh' = mem[mbh].next
  /\ UNCHANGED <<mem, last, request, owned>>

\* No block was large enough: nullptr.
NoBlock ==
  /\ request # 0 /\ mbh = nullptr
  /\ request' = 0
  /\ UNCHANGED <<mem, last, mbh, owned>>

\* The block is the client's, without what can be split off.
Take ==
  /\ request # 0 /\ Fits
  /\ LET s == [mem |-> mem, last |-> last]
         t == IF mem[mbh].size >= request + minBlockSize THEN split(s, mbh, request) ELSE s
     IN  /\ mem' = [t.mem EXCEPT ![mbh].used = TRUE]
         /\ last' = t.last
  /\ owned' = [owned EXCEPT ![dataStart(mbh)] = request]
  /\ request' = 0 /\ mbh' = nullptr

\* Mutant: a block merged with the next one is not merged with the one before.
mergeNeighboursElse(s, h) ==
  IF Free(s.mem, s.mem[h].next) THEN merge(s, h, s.mem[h].next)
  ELSE IF Free(s.mem, s.mem[h].prev) THEN merge(s, s.mem[h].prev, h) ELSE s

\* A freed block with its free neighbours: the next one first.
mergeNeighbours(s, h) ==
  LET t == IF Free(s.mem, s.mem[h].next) THEN merge(s, h, s.mem[h].next) ELSE s
  IN  IF Free(t.mem, t.mem[h].prev) THEN merge(t, t.mem[h].prev, h) ELSE t

deallocate(p) ==
  /\ request = 0
  /\ owned[p] # 0
  /\ LET h == p - Header
         t == mergeNeighbours([mem |-> [mem EXCEPT ![h].used = FALSE], last |-> last], h)
     IN  mem' = t.mem /\ last' = t.last
  /\ owned' = [owned EXCEPT ![p] = 0]
  /\ UNCHANGED <<request, mbh>>

Next == \/ \E size \in Sizes : allocate(size)
        \/ PassOver \/ NoBlock \/ Take
        \/ \E p \in Addr : deallocate(p)

Spec == Init /\ [][Next]_vars
--------------------------------------------------------------------------------
TypeOK ==
  /\ mem \in [Addr -> Block]
  /\ last \in Addr
  /\ request \in Nat /\ mbh \in Addr \cup {nullptr}
  /\ owned \in [Addr -> Nat]

Headers == {h \in Addr : IsHeader(mem, h)}
Owned   == {p \in Addr : owned[p] # 0}

\* What every client relies on: its bytes lie inside the heap, are aligned, and
\* are neither another client's nor the header of a block.
OwnersAreAlone ==
  \A p \in Owned :
    /\ p % heapAlignment = 0
    /\ p + owned[p] <= heapEndAddr
    /\ \A q \in Owned \ {p} : q + owned[q] <= p \/ p + owned[p] <= q
    /\ \A h \in Headers : h + Header <= p \/ p + owned[p] <= h

\* The list is the blocks in address order, both ways, from the first to the
\* last; a block ends before the next header and at most its alignment before it.
ListIsWhole ==
  /\ mem[firstBlock].prev = nullptr /\ mem[last].next = nullptr
  /\ dataEnd(mem, last) = heapEndAddr
  /\ \A h \in Headers \ {last} :
       LET n == mem[h].next
       IN  /\ n \in Headers /\ mem[n].prev = h
           /\ dataEnd(mem, h) <= n /\ n < dataEnd(mem, h) + heapAlignment
           /\ \A g \in Headers : g <= h \/ g >= n

\* A block is in use exactly when a client holds it, and no two free blocks are
\* neighbours: what is freed can be had again in one piece.
FreeIsMerged ==
  \A h \in Headers :
    /\ mem[h].used <=> dataStart(h) \in Owned
    /\ mem[h].used => owned[dataStart(h)] <= mem[h].size
    /\ ~mem[h].used /\ h # last => mem[mem[h].next].used

\* Whatever was allocated and freed in whatever order, the empty heap is the
\* heap that was initialized.
EmptyIsInitial == Owned = {} => mem[firstBlock].size = usableSize /\ Headers = {firstBlock}
==============================================================================
