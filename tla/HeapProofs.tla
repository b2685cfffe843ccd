------------------------------- MODULE HeapProofs -------------------------------
(***************************************************************************)
(* Proofs about the heap of Heap.tla, for every heap, header, alignment    *)
(* and minimum block size that initialize accepts, and all requests.       *)
(*                                                                         *)
(* ListIsWhole is nearly inductive: Whole adds that the list goes back as  *)
(* it goes forth, that last is the highest block and that every block is   *)
(* aligned and not empty.  That the clients' bytes are apart then follows  *)
(* from the blocks being apart (Apart) and from Held, which ties what a    *)
(* client holds to a block in use.  split and merge are shown to keep      *)
(* Whole as functions of any list, before they are used in a step.         *)
(***************************************************************************)
EXTENDS Heap, TLAPS

Heads(m) == {h \in Addr : IsHeader(m, h)}

\* The blocks of m are one list, from firstBlock to l, in address order.
Whole(m, l) ==
  /\ m \in [Addr -> Block]
  /\ firstBlock \in Heads(m) /\ l \in Heads(m)
  /\ m[firstBlock].prev = nullptr /\ m[l].next = nullptr
  /\ dataEnd(m, l) = heapEndAddr
  /\ \A h \in Heads(m) :
       firstBlock <= h /\ h <= l /\ m[h].size > 0 /\ dataStart(h) % heapAlignment = 0
  /\ \A h \in Heads(m) \ {l} :
       /\ m[h].next \in Heads(m) /\ m[m[h].next].prev = h
       /\ dataEnd(m, h) <= m[h].next /\ m[h].next < dataEnd(m, h) + heapAlignment
       /\ \A g \in Heads(m) : g <= h \/ g >= m[h].next
  /\ \A h \in Heads(m) \ {firstBlock} : m[h].prev \in Heads(m) /\ m[m[h].prev].next = h

\* Blocks in use are the clients', and large enough.
Held(m, o) ==
  /\ o \in [Addr -> Nat]
  /\ \A h \in Heads(m) :
       /\ m[h].used <=> o[dataStart(h)] # 0
       /\ m[h].used => o[dataStart(h)] <= m[h].size
  /\ \A p \in Addr : o[p] # 0 => p - Header \in Heads(m)

\* No two neighbours are free.
Merged(m, l) == \A h \in Heads(m) : ~m[h].used /\ h # l => m[m[h].next].used

\* The loop of allocate is at a block, and none of those behind it fits.
Walk ==
  /\ request \in Nat
  /\ request = 0 => mbh = nullptr
  /\ mbh # nullptr => mbh \in Heads(mem)
  /\ request # 0 =>
       \A h \in Heads(mem) : mbh = nullptr \/ h < mbh => mem[h].used \/ mem[h].size < request

HeapInv == Whole(mem, last) /\ Held(mem, owned) /\ Merged(mem, last) /\ Walk

--------------------------------------------------------------------------------
(* Addresses *)

\* Every constant is a positive number.
LEMMA Positive ==
  /\ heapStartAddr \in Nat \ {0} /\ heapEndAddr \in Nat \ {0} /\ Header \in Nat \ {0}
  /\ minBlockSize \in Nat \ {0} /\ heapAlignment \in Nat \ {0}
  BY HeapAssumption

\* alignAddress rounds up to the next multiple.
LEMMA Aligned ==
  ASSUME NEW a \in Nat
  PROVE  /\ alignAddress(a) \in Nat
         /\ alignAddress(a) >= a /\ alignAddress(a) < a + heapAlignment
         /\ alignAddress(a) % heapAlignment = 0
<1>1. \A b \in Nat \ {0} : a + ((b - (a % b)) % b) \in Nat
  BY SMT
<1>2. \A b \in Nat \ {0} : a + ((b - (a % b)) % b) >= a
  BY SMT
<1>3. \A b \in Nat \ {0} : a + ((b - (a % b)) % b) < a + b
  BY SMT
<1>4. \A b \in Nat \ {0} : (a + ((b - (a % b)) % b)) % b = 0
  BY SMT
<1>5. heapAlignment \in Nat \ {0}
  BY Positive
<1>6. QED
  BY <1>1, <1>2, <1>3, <1>4, <1>5, Zenon DEF alignAddress

\* The first block lies in the heap, with room for its data.
LEMMA FirstBlock ==
  /\ firstBlock \in Addr /\ firstBlock + Header = firstData /\ firstData % heapAlignment = 0
  /\ usableSize \in Nat \ {0} /\ firstData + usableSize = heapEndAddr
<1>1. heapStartAddr + Header \in Nat
  BY Positive
<1>2. /\ firstData \in Nat /\ firstData >= heapStartAddr + Header
      /\ firstData % heapAlignment = 0
  BY <1>1, Aligned DEF firstData
<1> HIDE DEF firstData
<1>3. firstData + minBlockSize < heapEndAddr
  BY HeapAssumption
<1>4. QED
  BY <1>2, <1>3, Positive, SMT DEF firstBlock, usableSize, Addr

\* A block of a whole list ends before every block above it, and in the heap.
LEMMA Apart ==
  ASSUME NEW m, NEW l, Whole(m, l), NEW g \in Heads(m), NEW h \in Heads(m)
  PROVE  /\ g < h => dataEnd(m, g) <= h
         /\ dataEnd(m, g) <= heapEndAddr
         /\ dataStart(g) \in Addr /\ g \in Addr /\ g \in Nat
<1>1. /\ g \in Addr /\ h \in Addr /\ l \in Addr /\ m[g] \in Block /\ m[l] \in Block
      /\ g \in Nat /\ h \in Nat /\ l \in Nat
  <2>1. g \in Addr /\ h \in Addr /\ l \in Addr /\ m \in [Addr -> Block]
    BY DEF Whole, Heads
  <2>2. QED
    BY <2>1 DEF Addr
<1>2. /\ m[g].size \in Nat /\ m[l].size \in Nat /\ m[g].size > 0 /\ m[l].size > 0
      /\ m[g].next \in Addr \cup {nullptr}
  BY <1>1 DEF Whole, Block
<1>3. CASE g = l
  <2>1. h <= l /\ l + Header + m[l].size = heapEndAddr
    BY DEF Whole, dataEnd, dataStart
  <2>2. QED
    BY <1>1, <1>2, <1>3, <2>1, Positive DEF dataEnd, dataStart, Addr
<1>4. CASE g # l
  <2>1. /\ m[g].next \in Heads(m) /\ dataEnd(m, g) <= m[g].next
        /\ h <= g \/ h >= m[g].next
        /\ m[g].next <= l /\ dataEnd(m, l) = heapEndAddr
    BY <1>4 DEF Whole
  <2>2. m[g].next \in Nat
    BY <2>1 DEF Heads, Addr
  <2>3. QED
    BY <1>1, <1>2, <2>1, <2>2, Positive DEF dataEnd, dataStart, Addr
<1>5. QED
  BY <1>3, <1>4

--------------------------------------------------------------------------------
(* merge *)

\* What merging block a with the next one makes of a list m that ends in l.
Joined(m, l, a, tm, tl) ==
  LET b == m[a].next
  IN  /\ tm \in [Addr -> Block] /\ tm[b] = NoHeader
      /\ tl = IF l = b THEN a ELSE l
      /\ \A g \in Addr \ {b} :
           /\ tm[g].used = m[g].used
           /\ tm[g].size = IF g = a THEN dataEnd(m, b) - dataStart(a) ELSE m[g].size
           /\ tm[g].next = IF g = a THEN m[b].next ELSE m[g].next
           /\ tm[g].prev = IF g = m[b].next THEN a ELSE m[g].prev
      /\ \A g \in Addr \ Heads(m) : tm[g] = m[g]

\* merge does just that to a whole list.
LEMMA MergeJoins ==
  ASSUME NEW m, NEW l, Whole(m, l), NEW a \in Heads(m) \ {l}, ~m[m[a].next].used
  PROVE  LET t == merge([mem |-> m, last |-> l], a, m[a].next)
         IN  Joined(m, l, a, t.mem, t.last)
<1> DEFINE b == m[a].next
           c == m[b].next
           js == dataEnd(m, b) - dataStart(a)
           m1 == [m EXCEPT ![a].size = js, ![a].next = c, ![b] = NoHeader]
           t == merge([mem |-> m, last |-> l], a, b)
<1>1. /\ m \in [Addr -> Block] /\ a \in Addr /\ b \in Heads(m) /\ b \in Addr
      /\ a \in Nat /\ b \in Nat /\ c \in Addr \cup {nullptr}
  <2>1. m \in [Addr -> Block] /\ a \in Addr /\ b \in Heads(m) /\ b \in Addr
    BY DEF Whole, Heads
  <2>2. QED
    BY <2>1 DEF Addr, Block
<1>2. dataEnd(m, a) <= b /\ m[a].size \in Nat /\ m[b].size \in Nat /\ m[a].size > 0
  BY <1>1 DEF Whole, Block
<1>3. a < b /\ js \in Nat
  BY <1>1, <1>2, Positive DEF dataEnd, dataStart
<1>4. c # a /\ c # b /\ (c # nullptr => c \in Heads(m))
  <2>1. CASE b = l
    BY <1>1, <2>1 DEF Whole, nullptr, Addr
  <2>2. CASE b # l
    <3>1. c \in Heads(m) /\ dataEnd(m, b) <= c
      BY <1>1, <2>2 DEF Whole
    <3>2. QED
      BY <1>1, <1>2, <1>3, <3>1, Positive DEF dataEnd, dataStart, Heads, Addr
  <2>3. QED
    BY <2>1, <2>2
<1>5. t = [mem |-> Relink(m1, c, a), last |-> IF l = b THEN a ELSE l]
  BY DEF merge, joinedSize
<1> HIDE DEF b, js, c, t
<1>6. NoHeader \in Block /\ nullptr \notin Addr
  BY DEF NoHeader, Block, nullptr, Addr
<1>7. /\ m1 \in [Addr -> Block] /\ m1[b] = NoHeader
      /\ m1[a].used = m[a].used /\ m1[a].size = js
      /\ m1[a].next = c /\ m1[a].prev = m[a].prev
      /\ \A g \in Addr \ {a, b} : m1[g] = m[g]
  <2>1. m1 = [m EXCEPT ![a] = [m[a] EXCEPT !.size = js, !.next = c], ![b] = NoHeader]
    BY <1>1, <1>3
  <2>2. [m[a] EXCEPT !.size = js, !.next = c] \in Block
    BY <1>1, <1>3 DEF Block
  <2>3. /\ m1 \in [Addr -> Block] /\ m1[b] = NoHeader
        /\ m1[a] = [m[a] EXCEPT !.size = js, !.next = c]
        /\ \A g \in Addr \ {a, b} : m1[g] = m[g]
    BY <1>1, <1>3, <1>6, <2>1, <2>2
  <2>4. m[a] \in Block
    BY <1>1
  <2>5. QED
    BY <2>3, <2>4 DEF Block
<1> HIDE DEF m1
<1>8. /\ t.mem \in [Addr -> Block]
      /\ \A g \in Addr : t.mem[g] = IF g = c THEN [m1[g] EXCEPT !.prev = a] ELSE m1[g]
  <2>1. CASE c = nullptr
    BY <1>5, <1>6, <1>7, <2>1 DEF Relink
  <2>2. CASE c # nullptr
    <3>1. c \in Addr /\ [m1[c] EXCEPT !.prev = a] \in Block
      BY <1>1, <1>7, <2>2 DEF Block
    <3>2. t.mem = [m1 EXCEPT ![c] = [m1[c] EXCEPT !.prev = a]]
      BY <1>5, <1>7, <2>2, <3>1 DEF Relink
    <3>3. QED
      BY <1>7, <3>1, <3>2
  <2>3. QED
    BY <2>1, <2>2
<1>9. t.last = IF l = b THEN a ELSE l
  BY <1>5
<1>10. t.mem[b] = NoHeader
  BY <1>1, <1>4, <1>7, <1>8
<1>11. ASSUME NEW g \in Addr \ {b}
       PROVE  /\ t.mem[g].used = m[g].used
              /\ t.mem[g].size = IF g = a THEN js ELSE m[g].size
              /\ t.mem[g].next = IF g = a THEN c ELSE m[g].next
              /\ t.mem[g].prev = IF g = c THEN a ELSE m[g].prev
  <2>1. m1[g] \in Block /\ m[g] \in Block
    BY <1>1, <1>7
  <2>2. CASE g = a
    BY <1>4, <1>7, <1>8, <2>1, <2>2 DEF Block
  <2>3. CASE g # a
    <3>1. m1[g] = m[g] /\ t.mem[g] = IF g = c THEN [m[g] EXCEPT !.prev = a] ELSE m[g]
      BY <1>7, <1>8, <2>3
    <3>2. QED
      BY <2>1, <2>3, <3>1 DEF Block
  <2>4. QED
    BY <2>2, <2>3
<1>12. ASSUME NEW g \in Addr \ Heads(m) PROVE t.mem[g] = m[g]
  BY <1>1, <1>4, <1>6, <1>7, <1>8
<1>13. QED
  BY <1>8, <1>9, <1>10, <1>11, <1>12 DEF Joined, t, b, c, js

\* Merging a block with a free next one leaves a whole list without that one.
LEMMA MergeWhole ==
  ASSUME NEW m, NEW l, Whole(m, l), NEW a \in Heads(m) \ {l}, NEW tm, NEW tl,
         Joined(m, l, a, tm, tl)
  PROVE  Heads(tm) = Heads(m) \ {m[a].next} /\ Whole(tm, tl)
<1> DEFINE b == m[a].next
           c == m[b].next
           js == dataEnd(m, b) - dataStart(a)
<1>1. /\ tm \in [Addr -> Block] /\ tm[b] = NoHeader
      /\ tl = IF l = b THEN a ELSE l
      /\ \A g \in Addr \ {b} :
           /\ tm[g].used = m[g].used
           /\ tm[g].size = IF g = a THEN js ELSE m[g].size
           /\ tm[g].next = IF g = a THEN c ELSE m[g].next
           /\ tm[g].prev = IF g = c THEN a ELSE m[g].prev
      /\ \A g \in Addr \ Heads(m) : tm[g] = m[g]
  BY DEF Joined
<1>2. /\ m \in [Addr -> Block] /\ a \in Heads(m) /\ b \in Heads(m) /\ l \in Heads(m)
      /\ firstBlock \in Heads(m)
      /\ dataEnd(m, a) <= b /\ b < dataEnd(m, a) + heapAlignment
      /\ \A g \in Heads(m) : g <= a \/ g >= b
      /\ m[b].prev = a
  BY DEF Whole
<1>3. \A g \in Heads(m) : /\ g \in Addr /\ g \in Nat /\ m[g].size \in Nat /\ m[g].size > 0
                          /\ firstBlock <= g /\ g <= l
                          /\ dataStart(g) % heapAlignment = 0
  <2>1. \A g \in Heads(m) : g \in Addr /\ m[g] \in Block
    BY <1>2 DEF Heads
  <2>2. QED
    BY <2>1 DEF Whole, Addr, Block
<1>4. a < b /\ js \in Nat /\ js > 0
  BY <1>2, <1>3, Positive DEF dataEnd, dataStart
<1>5. b = l => c = nullptr
  BY DEF Whole
<1>6. b # l => /\ c \in Heads(m) /\ m[c].prev = b
               /\ dataEnd(m, b) <= c /\ c < dataEnd(m, b) + heapAlignment
               /\ \A g \in Heads(m) : g <= b \/ g >= c
  BY <1>2 DEF Whole
<1>7. dataStart(a) + js = dataEnd(m, b) /\ dataEnd(m, b) > b
  BY <1>2, <1>3, <1>4, Positive DEF dataEnd, dataStart
<1> HIDE DEF b, c, js
<1>8. b # firstBlock /\ c # firstBlock /\ c # a /\ c # b /\ nullptr \notin Heads(m)
  <2>1. firstBlock <= a /\ firstBlock \in Nat /\ firstBlock # nullptr /\ nullptr \notin Heads(m)
    BY <1>2, <1>3 DEF Addr, Heads, nullptr
  <2>2. CASE b = l
    BY <1>2, <1>3, <1>4, <1>5, <2>1, <2>2
  <2>3. CASE b # l
    <3>1. c > b
      BY <1>2, <1>3, <1>6, <1>7, <2>3, Positive DEF dataEnd, dataStart
    <3>2. QED
      BY <1>2, <1>3, <1>4, <1>6, <2>1, <2>3, <3>1
  <2>4. QED
    BY <2>2, <2>3
<1>9. Heads(tm) = Heads(m) \ {b}
  <2>1. ASSUME NEW g \in Addr, g # b PROVE IsHeader(tm, g) <=> IsHeader(m, g)
    <3>1. CASE g \in Heads(m)
      <4>1. tm[g].size > 0
        BY <1>1, <1>3, <1>4, <2>1, <3>1
      <4>2. tm[g] # NoHeader
        BY <4>1 DEF NoHeader
      <4>3. QED
        BY <3>1, <4>2 DEF IsHeader, Heads
    <3>2. CASE g \notin Heads(m)
      BY <1>1, <3>2 DEF IsHeader
    <3>3. QED
      BY <3>1, <3>2
  <2>2. ~IsHeader(tm, b)
    BY <1>1 DEF IsHeader
  <2>3. QED
    BY <2>1, <2>2 DEF Heads
<1>10. /\ firstBlock \in Heads(tm) /\ tl \in Heads(tm)
       /\ tm[firstBlock].prev = nullptr /\ tm[tl].next = nullptr
       /\ dataEnd(tm, tl) = heapEndAddr
  <2>1. firstBlock \in Heads(tm) /\ tl \in Heads(tm) /\ tl \in Addr /\ firstBlock \in Addr
    BY <1>1, <1>2, <1>3, <1>4, <1>8, <1>9
  <2>2. m[firstBlock].prev = nullptr /\ m[l].next = nullptr /\ dataEnd(m, l) = heapEndAddr
    BY DEF Whole
  <2>3. tm[firstBlock].prev = nullptr
    BY <1>1, <1>8, <2>1, <2>2
  <2>4. CASE b = l
    BY <1>1, <1>3, <1>4, <1>5, <1>7, <2>1, <2>2, <2>3, <2>4 DEF dataEnd, dataStart
  <2>5. CASE b # l
    <3>1. tl = l /\ l # a
      BY <1>1, <2>5
    <3>2. QED
      BY <1>1, <2>1, <2>2, <2>3, <2>5, <3>1 DEF dataEnd, dataStart
  <2>6. QED
    BY <2>4, <2>5
<1>11. ASSUME NEW h \in Heads(tm)
       PROVE  firstBlock <= h /\ h <= tl /\ tm[h].size > 0 /\ dataStart(h) % heapAlignment = 0
  <2>1. h \in Heads(m) /\ h # b
    BY <1>9
  <2>2. tm[h].size > 0
    BY <1>1, <1>3, <1>4, <2>1
  <2>3. h <= tl
    BY <1>1, <1>2, <1>3, <2>1
  <2>4. QED
    BY <1>3, <2>1, <2>2, <2>3
<1>12. ASSUME NEW h \in Heads(tm) \ {tl}
       PROVE  /\ tm[h].next \in Heads(tm) /\ tm[tm[h].next].prev = h
              /\ dataEnd(tm, h) <= tm[h].next
              /\ tm[h].next < dataEnd(tm, h) + heapAlignment
              /\ \A g \in Heads(tm) : g <= h \/ g >= tm[h].next
  <2>1. h \in Heads(m) /\ h # b /\ h \in Addr /\ h # l
    BY <1>1, <1>3, <1>9
  <2>2. CASE h = a
    <3>1. b # l
      BY <1>1, <2>2
    <3>2. tm[h].next = c /\ c \in Heads(tm) /\ c \in Addr /\ tm[c].prev = h
      BY <1>1, <1>3, <1>6, <1>8, <1>9, <2>1, <2>2, <3>1
    <3>3. dataEnd(tm, h) = dataEnd(m, b)
      BY <1>1, <1>7, <2>1, <2>2 DEF dataEnd
    <3>4. \A g \in Heads(tm) : g <= h \/ g >= c
      BY <1>2, <1>3, <1>6, <1>9, <2>2, <3>1
    <3>5. QED
      BY <1>6, <3>1, <3>2, <3>3, <3>4
  <2>3. CASE h # a
    <3>1. /\ m[h].next \in Heads(m) /\ m[m[h].next].prev = h
          /\ dataEnd(m, h) <= m[h].next /\ m[h].next < dataEnd(m, h) + heapAlignment
          /\ \A g \in Heads(m) : g <= h \/ g >= m[h].next
      BY <2>1 DEF Whole
    <3>2. m[h].next # b /\ m[h].next # c /\ m[h].next \in Addr
      BY <1>2, <1>3, <1>6, <1>5, <1>8, <2>1, <2>3, <3>1
    <3>3. tm[h].next = m[h].next /\ tm[h].size = m[h].size
      BY <1>1, <2>1, <2>3
    <3>4. tm[m[h].next].prev = h
      BY <1>1, <3>1, <3>2
    <3>5. QED
      BY <1>9, <3>1, <3>2, <3>3, <3>4 DEF dataEnd
  <2>4. QED
    BY <2>2, <2>3
<1>13. ASSUME NEW h \in Heads(tm) \ {firstBlock}
       PROVE  tm[h].prev \in Heads(tm) /\ tm[tm[h].prev].next = h
  <2>1. /\ h \in Heads(m) /\ h # b /\ h \in Addr
        /\ m[h].prev \in Heads(m) /\ m[m[h].prev].next = h
    BY <1>3, <1>9 DEF Whole
  <2>2. CASE h = c
    BY <1>1, <1>2, <1>3, <1>4, <1>9, <2>1, <2>2
  <2>3. CASE h # c
    <3>1. m[h].prev # b
      BY <2>1, <2>3 DEF c
    <3>2. m[h].prev # a
      BY <2>1 DEF b
    <3>3. QED
      BY <1>1, <1>3, <1>9, <2>1, <2>3, <3>1, <3>2
  <2>4. QED
    BY <2>2, <2>3
<1>14. Whole(tm, tl)
  BY <1>1, <1>10, <1>11, <1>12, <1>13 DEF Whole
<1>15. QED
  BY <1>9, <1>14 DEF b

--------------------------------------------------------------------------------
(* split *)

\* Block h has room for size bytes and, behind them, for a block whose data begin
\* at the aligned address second.
Room(m, h, size, second) ==
  /\ size \in Nat \ {0} /\ second \in Nat /\ second % heapAlignment = 0
  /\ dataStart(h) + size + Header <= second
  /\ second < dataStart(h) + size + Header + heapAlignment
  /\ second + minBlockSize < dataEnd(m, h)

\* What carving block h makes of a list m that ends in l.
Carved(m, l, h, size, second, tm, tl) ==
  LET at == second - Header
  IN  /\ tm \in [Addr -> Block]
      /\ tl = IF l = h THEN at ELSE l
      /\ tm[at].size = dataEnd(m, h) - second /\ tm[at].used = m[h].used
      /\ tm[at].next = m[h].next /\ tm[at].prev = h
      /\ \A g \in Addr \ {at} :
           /\ tm[g].used = m[g].used
           /\ tm[g].size = IF g = h THEN size ELSE m[g].size
           /\ tm[g].next = IF g = h THEN at ELSE m[g].next
           /\ tm[g].prev = IF g = m[h].next THEN at ELSE m[g].prev
      /\ \A g \in Addr \ (Heads(m) \cup {at}) : tm[g] = m[g]

\* The header of the second block lies between h and the next block.
LEMMA RoomBetween ==
  ASSUME NEW m, NEW l, Whole(m, l), NEW h \in Heads(m), NEW size, NEW second,
         Room(m, h, size, second)
  PROVE  /\ second - Header \in Addr /\ h < second - Header
         /\ second < dataEnd(m, h) /\ dataEnd(m, h) <= heapEndAddr
         /\ second \in Nat /\ dataEnd(m, h) \in Nat
         /\ \A g \in Heads(m) : g <= h \/ g > second - Header
<1>1. /\ h \in Addr /\ h \in Nat /\ dataEnd(m, h) <= heapEndAddr /\ m[h].size \in Nat
      /\ \A g \in Heads(m) : g \in Nat /\ (h < g => dataEnd(m, h) <= g)
  <2>1. h \in Addr /\ m[h] \in Block
    BY DEF Whole, Heads
  <2>2. \A g \in Heads(m) : g \in Nat
    BY DEF Heads, Addr
  <2>3. QED
    BY <2>1, <2>2, Apart DEF Block
<1>2. /\ second \in Nat /\ size \in Nat
      /\ h + Header + size + Header <= second /\ second + minBlockSize < dataEnd(m, h)
  BY DEF Room, dataStart
<1>3. dataEnd(m, h) \in Nat
  BY <1>1, Positive DEF dataEnd, dataStart
<1>4. QED
  BY <1>1, <1>2, <1>3, Positive DEF Addr

\* carve does just that to a whole list.
LEMMA CarveCarves ==
  ASSUME NEW m, NEW l, Whole(m, l), NEW h \in Heads(m), NEW size, NEW second,
         Room(m, h, size, second)
  PROVE  LET t == carve([mem |-> m, last |-> l], h, size, second)
         IN  Carved(m, l, h, size, second, t.mem, t.last)
<1> DEFINE at == second - Header
           c == m[h].next
           rest == [m[h] EXCEPT !.size = dataEnd(m, h) - second, !.prev = h]
           m1 == [m EXCEPT ![h].size = size, ![h].next = at, ![at] = rest]
           t == carve([mem |-> m, last |-> l], h, size, second)
<1>1. /\ m \in [Addr -> Block] /\ h \in Addr /\ m[h] \in Block /\ c \in Addr \cup {nullptr}
      /\ size \in Nat
  BY DEF Whole, Heads, Block, Room
<1>2. at \in Addr /\ at # h /\ at \notin Heads(m)
  BY RoomBetween DEF Heads, Addr
<1>3. c # h /\ c # at /\ (c # nullptr => c \in Heads(m))
  <2>1. CASE h = l
    BY <1>1, <1>2, <2>1 DEF Whole, nullptr, Addr
  <2>2. CASE h # l
    <3>1. c \in Heads(m) /\ m[c].prev = h /\ dataEnd(m, h) <= c
      BY <2>2 DEF Whole
    <3>2. c # h
      BY <1>1, <3>1, Positive DEF dataEnd, dataStart, Addr, Block
    <3>3. QED
      BY <1>2, <3>1, <3>2
  <2>3. QED
    BY <2>1, <2>2
<1>4. /\ rest \in Block
      /\ rest.size = dataEnd(m, h) - second /\ rest.used = m[h].used
      /\ rest.next = c /\ rest.prev = h
  <2>1. dataEnd(m, h) - second \in Nat
    BY RoomBetween
  <2>2. QED
    BY <1>1, <2>1 DEF Block
<1>5. t = [mem |-> Relink(m1, rest.next, at), last |-> IF l = h THEN at ELSE l]
  BY DEF carve
<1> HIDE DEF at, c, t
<1>6. /\ m1 \in [Addr -> Block] /\ m1[at] = rest
      /\ m1[h].used = m[h].used /\ m1[h].size = size
      /\ m1[h].next = at /\ m1[h].prev = m[h].prev
      /\ \A g \in Addr \ {h, at} : m1[g] = m[g]
  <2> HIDE DEF rest
  <2>1. m1 = [m EXCEPT ![h] = [m[h] EXCEPT !.size = size, !.next = at], ![at] = rest]
    BY <1>1, <1>2
  <2>2. [m[h] EXCEPT !.size = size, !.next = at] \in Block
    BY <1>1, <1>2 DEF Block
  <2>3. /\ m1 \in [Addr -> Block] /\ m1[at] = rest
        /\ m1[h] = [m[h] EXCEPT !.size = size, !.next = at]
        /\ \A g \in Addr \ {h, at} : m1[g] = m[g]
    BY <1>1, <1>2, <1>4, <2>1, <2>2
  <2>4. QED
    BY <1>1, <2>3 DEF Block
<1> HIDE DEF m1, rest
<1>7. /\ t.mem \in [Addr -> Block]
      /\ \A g \in Addr : t.mem[g] = IF g = c THEN [m1[g] EXCEPT !.prev = at] ELSE m1[g]
  <2>1. CASE c = nullptr
    <3>1. nullptr \notin Addr
      BY DEF nullptr, Addr
    <3>2. QED
      BY <1>4, <1>5, <1>6, <2>1, <3>1 DEF Relink
  <2>2. CASE c # nullptr
    <3>1. c \in Addr /\ [m1[c] EXCEPT !.prev = at] \in Block
      BY <1>1, <1>2, <1>6, <2>2 DEF Block
    <3>2. t.mem = [m1 EXCEPT ![c] = [m1[c] EXCEPT !.prev = at]]
      BY <1>4, <1>5, <1>6, <2>2, <3>1 DEF Relink
    <3>3. QED
      BY <1>6, <3>1, <3>2
  <2>3. QED
    BY <2>1, <2>2
<1>8. t.last = IF l = h THEN at ELSE l
  BY <1>5
<1>9. t.mem[at] = rest
  BY <1>2, <1>3, <1>6, <1>7
<1>10. ASSUME NEW g \in Addr \ {at}
       PROVE  /\ t.mem[g].used = m[g].used
              /\ t.mem[g].size = IF g = h THEN size ELSE m[g].size
              /\ t.mem[g].next = IF g = h THEN at ELSE m[g].next
              /\ t.mem[g].prev = IF g = c THEN at ELSE m[g].prev
  <2>1. m1[g] \in Block /\ m[g] \in Block
    BY <1>1, <1>6
  <2>2. CASE g = h
    BY <1>3, <1>6, <1>7, <2>1, <2>2 DEF Block
  <2>3. CASE g # h
    <3>1. m1[g] = m[g] /\ t.mem[g] = IF g = c THEN [m[g] EXCEPT !.prev = at] ELSE m[g]
      BY <1>6, <1>7, <2>3
    <3>2. QED
      BY <2>1, <2>3, <3>1 DEF Block
  <2>4. QED
    BY <2>2, <2>3
<1>11. ASSUME NEW g \in Addr \ (Heads(m) \cup {at}) PROVE t.mem[g] = m[g]
  <2>1. g # c /\ g # h
    BY <1>3, <1>1 DEF nullptr, Addr
  <2>2. QED
    BY <1>6, <1>7, <2>1
<1>12. QED
  BY <1>4, <1>7, <1>8, <1>9, <1>10, <1>11 DEF Carved, t, at, c

\* Carving a block leaves a whole list with one block more.
LEMMA CarveWhole ==
  ASSUME NEW m, NEW l, Whole(m, l), NEW h \in Heads(m), NEW size, NEW second,
         Room(m, h, size, second), NEW tm, NEW tl, Carved(m, l, h, size, second, tm, tl)
  PROVE  /\ second - Header \notin Heads(m)
         /\ Heads(tm) = Heads(m) \cup {second - Header} /\ Whole(tm, tl)
<1> DEFINE at == second - Header
           c == m[h].next
           rs == dataEnd(m, h) - second
<1>1. /\ tm \in [Addr -> Block]
      /\ tl = IF l = h THEN at ELSE l
      /\ tm[at].size = rs /\ tm[at].next = c /\ tm[at].prev = h
      /\ \A g \in Addr \ {at} :
           /\ tm[g].used = m[g].used
           /\ tm[g].size = IF g = h THEN size ELSE m[g].size
           /\ tm[g].next = IF g = h THEN at ELSE m[g].next
           /\ tm[g].prev = IF g = c THEN at ELSE m[g].prev
      /\ \A g \in Addr \ (Heads(m) \cup {at}) : tm[g] = m[g]
  BY DEF Carved
<1>2. /\ m \in [Addr -> Block] /\ h \in Heads(m) /\ l \in Heads(m)
      /\ firstBlock \in Heads(m)
  BY DEF Whole
<1>3. \A g \in Heads(m) : /\ g \in Addr /\ g \in Nat /\ m[g].size \in Nat /\ m[g].size > 0
                          /\ firstBlock <= g /\ g <= l
                          /\ dataStart(g) % heapAlignment = 0
  <2>1. \A g \in Heads(m) : g \in Addr /\ m[g] \in Block
    BY <1>2 DEF Heads
  <2>2. QED
    BY <2>1 DEF Whole, Addr, Block
<1>4. /\ at \in Addr /\ at \in Nat /\ h < at /\ second \in Nat /\ dataEnd(m, h) \in Nat
      /\ second < dataEnd(m, h) /\ dataEnd(m, h) <= heapEndAddr
      /\ at + Header = second
      /\ \A g \in Heads(m) : g <= h \/ g > at
  BY RoomBetween, Positive DEF Addr
<1>5. /\ size \in Nat /\ size > 0 /\ second % heapAlignment = 0
      /\ dataStart(h) + size <= at /\ at < dataStart(h) + size + heapAlignment
  BY <1>4, <1>3, Positive DEF Room, dataStart
<1>6. rs \in Nat /\ rs > 0 /\ second + rs = dataEnd(m, h)
  BY <1>4
<1>7. h = l => c = nullptr /\ dataEnd(m, h) = heapEndAddr
  BY DEF Whole
<1>8. h # l => /\ c \in Heads(m) /\ m[c].prev = h
               /\ dataEnd(m, h) <= c /\ c < dataEnd(m, h) + heapAlignment
               /\ \A g \in Heads(m) : g <= h \/ g >= c
  BY <1>2 DEF Whole
<1> HIDE DEF at, c, rs
<1>9. at \notin Heads(m) /\ at # firstBlock /\ at # h /\ at # l /\ nullptr \notin Heads(m)
  <2>1. nullptr \notin Heads(m)
    BY DEF nullptr, Heads, Addr
  <2>2. \A g \in Heads(m) : at # g
    BY <1>3, <1>4
  <2>3. QED
    BY <1>2, <2>1, <2>2
<1>10. c # firstBlock /\ c # h /\ c # at
  <2>1. CASE h = l
    BY <1>2, <1>4, <1>7, <1>9, <2>1 DEF nullptr, Addr
  <2>2. CASE h # l
    <3>1. c > h
      BY <1>2, <1>3, <1>4, <1>8, <2>2, Positive
    <3>2. QED
      BY <1>2, <1>3, <1>8, <1>9, <2>2, <3>1
  <2>3. QED
    BY <2>1, <2>2
<1>11. Heads(tm) = Heads(m) \cup {at}
  <2>1. ASSUME NEW g \in Addr, g # at PROVE IsHeader(tm, g) <=> IsHeader(m, g)
    <3>1. CASE g \in Heads(m)
      <4>1. tm[g].size > 0
        BY <1>1, <1>3, <1>5, <2>1, <3>1
      <4>2. tm[g] # NoHeader
        BY <4>1 DEF NoHeader
      <4>3. QED
        BY <3>1, <4>2 DEF IsHeader, Heads
    <3>2. CASE g \notin Heads(m)
      BY <1>1, <2>1, <3>2 DEF IsHeader
    <3>3. QED
      BY <3>1, <3>2
  <2>2. IsHeader(tm, at)
    BY <1>1, <1>6 DEF IsHeader, NoHeader
  <2>3. QED
    BY <1>4, <2>1, <2>2 DEF Heads
<1>12. /\ firstBlock \in Heads(tm) /\ tl \in Heads(tm)
       /\ tm[firstBlock].prev = nullptr /\ tm[tl].next = nullptr
       /\ dataEnd(tm, tl) = heapEndAddr
  <2>1. firstBlock \in Heads(tm) /\ tl \in Heads(tm) /\ l \in Addr /\ firstBlock \in Addr
    BY <1>1, <1>2, <1>3, <1>11
  <2>2. m[firstBlock].prev = nullptr /\ m[l].next = nullptr /\ dataEnd(m, l) = heapEndAddr
    BY DEF Whole
  <2>3. tm[firstBlock].prev = nullptr
    BY <1>1, <1>9, <1>10, <2>1, <2>2
  <2>4. CASE h = l
    BY <1>1, <1>4, <1>6, <1>7, <2>1, <2>3, <2>4 DEF dataEnd, dataStart
  <2>5. CASE h # l
    BY <1>1, <1>9, <2>1, <2>2, <2>3, <2>5 DEF dataEnd, dataStart
  <2>6. QED
    BY <2>4, <2>5
<1>13. ASSUME NEW g \in Heads(tm)
       PROVE  firstBlock <= g /\ g <= tl /\ tm[g].size > 0 /\ dataStart(g) % heapAlignment = 0
  <2>1. CASE g = at
    BY <1>1, <1>2, <1>3, <1>4, <1>5, <1>6, <1>8, <2>1 DEF dataStart
  <2>2. CASE g # at
    <3>1. g \in Heads(m)
      BY <1>11, <2>2
    <3>2. QED
      BY <1>1, <1>2, <1>3, <1>4, <1>5, <2>2, <3>1
  <2>3. QED
    BY <2>1, <2>2
<1>14. ASSUME NEW g \in Heads(tm) \ {tl}
       PROVE  /\ tm[g].next \in Heads(tm) /\ tm[tm[g].next].prev = g
              /\ dataEnd(tm, g) <= tm[g].next
              /\ tm[g].next < dataEnd(tm, g) + heapAlignment
              /\ \A f \in Heads(tm) : f <= g \/ f >= tm[g].next
  <2>1. CASE g = at
    <3>1. h # l
      BY <1>1, <2>1
    <3>2. tm[g].next = c /\ c \in Heads(tm) /\ tm[c].prev = g
      BY <1>1, <1>3, <1>8, <1>10, <1>11, <2>1, <3>1
    <3>3. dataEnd(tm, g) = dataEnd(m, h)
      BY <1>1, <1>4, <1>6, <2>1 DEF dataEnd, dataStart
    <3>4. \A f \in Heads(tm) : f <= g \/ f >= c
      BY <1>2, <1>3, <1>4, <1>8, <1>11, <2>1, <3>1
    <3>5. QED
      BY <1>8, <3>1, <3>2, <3>3, <3>4
  <2>2. CASE g = h
    <3>1. tm[g].next = at /\ tm[at].prev = g /\ dataEnd(tm, g) = dataStart(h) + size
      BY <1>1, <1>2, <1>3, <1>9, <2>2 DEF dataEnd
    <3>2. \A f \in Heads(tm) : f <= g \/ f >= at
      BY <1>3, <1>4, <1>11, <2>2
    <3>3. QED
      BY <1>5, <1>11, <3>1, <3>2
  <2>3. CASE g # at /\ g # h
    <3>1. g \in Heads(m) /\ g # l /\ g \in Addr
      BY <1>1, <1>3, <1>11, <2>3
    <3>2. /\ m[g].next \in Heads(m) /\ m[m[g].next].prev = g
          /\ dataEnd(m, g) <= m[g].next /\ m[g].next < dataEnd(m, g) + heapAlignment
          /\ \A f \in Heads(m) : f <= g \/ f >= m[g].next
      BY <3>1 DEF Whole
    <3>3. m[g].next # c /\ m[g].next # at /\ m[g].next \in Addr
      BY <1>3, <1>7, <1>8, <1>9, <2>3, <3>2
    <3>4. tm[g].next = m[g].next /\ tm[g].size = m[g].size /\ tm[m[g].next].prev = g
      BY <1>1, <2>3, <3>1, <3>2, <3>3
    <3>5. at <= g \/ at >= m[g].next
      <4>1. g \in Nat /\ h \in Nat /\ m[g].next \in Nat
        BY <1>2, <1>3, <3>1, <3>2
      <4>2. (h <= g \/ h >= m[g].next) /\ (g <= h \/ g > at) /\ g # h
        BY <1>2, <1>4, <2>3, <3>1, <3>2
      <4>3. QED
        BY <1>4, <4>1, <4>2
    <3>6. QED
      BY <1>11, <3>2, <3>4, <3>5 DEF dataEnd
  <2>4. QED
    BY <2>1, <2>2, <2>3
<1>15. ASSUME NEW g \in Heads(tm) \ {firstBlock}
       PROVE  tm[g].prev \in Heads(tm) /\ tm[tm[g].prev].next = g
  <2>1. CASE g = at
    BY <1>1, <1>2, <1>3, <1>9, <1>11, <2>1
  <2>2. CASE g # at
    <3>1. /\ g \in Heads(m) /\ g \in Addr
          /\ m[g].prev \in Heads(m) /\ m[m[g].prev].next = g
      BY <1>3, <1>11, <2>2 DEF Whole
    <3>2. CASE g = c
      BY <1>1, <1>11, <2>2, <3>1, <3>2
    <3>3. CASE g # c
      <4>1. m[g].prev # h
        BY <3>1, <3>3 DEF c
      <4>2. QED
        BY <1>1, <1>3, <1>9, <1>11, <2>2, <3>1, <3>3, <4>1
    <3>4. QED
      BY <3>2, <3>3
  <2>3. QED
    BY <2>1, <2>2
<1>16. Whole(tm, tl)
  BY <1>1, <1>12, <1>13, <1>14, <1>15 DEF Whole
<1>17. QED
  BY <1>9, <1>11, <1>16 DEF at

--------------------------------------------------------------------------------
(* Use of the blocks *)

\* n is the list m with block h in use or free, by u.
Marked(m, h, u, n) ==
  /\ n \in [Addr -> Block] /\ Heads(n) = Heads(m)
  /\ \A g \in Addr : /\ n[g].used = (IF g = h THEN u ELSE m[g].used)
                     /\ n[g].size = m[g].size /\ n[g].next = m[g].next
                     /\ n[g].prev = m[g].prev

\* A block's place in the list does not depend on who uses it.
LEMMA UsedWhole ==
  ASSUME NEW m, NEW l, Whole(m, l), NEW h \in Heads(m), NEW u \in BOOLEAN, NEW n,
         n = [m EXCEPT ![h].used = u]
  PROVE  Marked(m, h, u, n) /\ Whole(n, l)
<1>1. m \in [Addr -> Block] /\ h \in Addr /\ m[h].size > 0
  BY DEF Whole, Heads
<1>2. n \in [Addr -> Block] /\ n[h] = [m[h] EXCEPT !.used = u]
  BY <1>1 DEF Block
<1>3. ASSUME NEW g \in Addr
      PROVE  /\ n[g].used = (IF g = h THEN u ELSE m[g].used)
             /\ n[g].size = m[g].size /\ n[g].next = m[g].next /\ n[g].prev = m[g].prev
  <2>1. CASE g = h
    BY <1>1, <1>2, <2>1 DEF Block
  <2>2. CASE g # h
    BY <1>1, <2>2
  <2>3. QED
    BY <2>1, <2>2
<1>4. Heads(n) = Heads(m)
  <2>1. IsHeader(n, h) /\ h \in Heads(m)
    <3>1. n[h].size > 0
      BY <1>1, <1>3
    <3>2. QED
      BY <3>1 DEF IsHeader, NoHeader
  <2>2. \A g \in Addr \ {h} : n[g] = m[g]
    BY <1>1
  <2>3. QED
    BY <2>1, <2>2 DEF Heads, IsHeader
<1>5. \A g \in Heads(m) : g \in Addr
  BY DEF Heads
<1>6. /\ firstBlock \in Heads(m) /\ l \in Heads(m)
      /\ m[firstBlock].prev = nullptr /\ m[l].next = nullptr /\ dataEnd(m, l) = heapEndAddr
      /\ \A g \in Heads(m) :
           firstBlock <= g /\ g <= l /\ m[g].size > 0 /\ dataStart(g) % heapAlignment = 0
  BY DEF Whole
<1>7. \A g \in Heads(m) : dataEnd(n, g) = dataEnd(m, g)
  BY <1>3, <1>5 DEF dataEnd
<1>8. ASSUME NEW g \in Heads(m) \ {l}
      PROVE  /\ n[g].next \in Heads(m) /\ n[n[g].next].prev = g
             /\ dataEnd(n, g) <= n[g].next /\ n[g].next < dataEnd(n, g) + heapAlignment
             /\ \A f \in Heads(m) : f <= g \/ f >= n[g].next
  BY <1>3, <1>5, <1>7 DEF Whole
<1>9. ASSUME NEW g \in Heads(m) \ {firstBlock}
      PROVE  n[g].prev \in Heads(m) /\ n[n[g].prev].next = g
  BY <1>3, <1>5 DEF Whole
<1>10. Whole(n, l)
  BY <1>2, <1>3, <1>4, <1>5, <1>6, <1>7, <1>8, <1>9 DEF Whole
<1>11. QED
  BY <1>2, <1>3, <1>4, <1>10 DEF Marked

\* A block is given to a client, or back.
LEMMA UsedHeld ==
  ASSUME NEW m, NEW l, Whole(m, l), NEW o, Held(m, o), NEW h \in Heads(m), NEW size \in Nat,
         size <= m[h].size, NEW u \in BOOLEAN, u <=> size # 0, NEW n, Marked(m, h, u, n)
  PROVE  Held(n, [o EXCEPT ![dataStart(h)] = size])
<1> DEFINE q == [o EXCEPT ![dataStart(h)] = size]
<1>1. /\ Heads(n) = Heads(m)
      /\ \A g \in Addr : /\ n[g].used = (IF g = h THEN u ELSE m[g].used)
                         /\ n[g].size = m[g].size
  BY DEF Marked
<1>2. \A g \in Heads(m) : g \in Addr /\ g \in Nat /\ dataStart(g) \in Addr
  BY Apart
<1>3. /\ q \in [Addr -> Nat] /\ q[dataStart(h)] = size
      /\ \A p \in Addr : p # dataStart(h) => q[p] = o[p]
  BY <1>2 DEF Held
<1> HIDE DEF q
<1>4. \A g \in Heads(m) : dataStart(g) = dataStart(h) => g = h
  BY <1>2, Positive DEF dataStart
<1>5. ASSUME NEW g \in Heads(m)
      PROVE  /\ n[g].used <=> q[dataStart(g)] # 0
             /\ n[g].used => q[dataStart(g)] <= n[g].size
  <2>1. CASE g = h
    BY <1>1, <1>2, <1>3, <2>1
  <2>2. CASE g # h
    BY <1>1, <1>2, <1>3, <1>4, <2>2 DEF Held
  <2>3. QED
    BY <2>1, <2>2
<1>6. ASSUME NEW p \in Addr, q[p] # 0 PROVE p - Header \in Heads(m)
  <2>1. CASE p = dataStart(h)
    BY <1>2, <2>1, Positive DEF dataStart
  <2>2. CASE p # dataStart(h)
    BY <1>3, <1>6, <2>2 DEF Held
  <2>3. QED
    BY <2>1, <2>2
<1>7. Held(n, q)
  BY <1>1, <1>3, <1>5, <1>6 DEF Held
<1>8. QED
  BY <1>7 DEF q

\* Merging two free blocks takes nothing from a client.
LEMMA MergeHeld ==
  ASSUME NEW m, NEW l, Whole(m, l), NEW o, Held(m, o), NEW a \in Heads(m) \ {l},
         ~m[a].used, ~m[m[a].next].used, NEW tm, NEW tl, Joined(m, l, a, tm, tl)
  PROVE  Held(tm, o)
<1> DEFINE b == m[a].next
<1>1. Heads(tm) = Heads(m) \ {b} /\ b \in Heads(m)
  BY MergeWhole DEF Whole
<1>2. \A g \in Heads(m) : g \in Addr /\ g \in Nat /\ dataStart(g) \in Addr
  BY Apart
<1>3. \A g \in Heads(m) \ {b} : /\ tm[g].used = m[g].used
                                /\ g # a => tm[g].size = m[g].size
  BY <1>2 DEF Joined
<1>4. o[dataStart(b)] = 0
  BY <1>1 DEF Held
<1>5. ASSUME NEW p \in Addr, o[p] # 0 PROVE p - Header \in Heads(tm)
  <2>1. p - Header \in Heads(m)
    BY <1>5 DEF Held
  <2>2. p - Header # b
    BY <1>4, <1>5, Positive DEF dataStart, Addr
  <2>3. QED
    BY <1>1, <2>1, <2>2
<1>6. ASSUME NEW g \in Heads(tm)
      PROVE  (tm[g].used <=> o[dataStart(g)] # 0) /\ (tm[g].used => o[dataStart(g)] <= tm[g].size)
  BY <1>1, <1>3 DEF Held
<1>7. QED
  BY <1>5, <1>6 DEF Held

\* Nor does carving a free block.
LEMMA CarveHeld ==
  ASSUME NEW m, NEW l, Whole(m, l), NEW o, Held(m, o), NEW h \in Heads(m), ~m[h].used,
         NEW size, NEW second, Room(m, h, size, second),
         NEW tm, NEW tl, Carved(m, l, h, size, second, tm, tl)
  PROVE  Held(tm, o)
<1> DEFINE at == second - Header
<1>1. at \notin Heads(m) /\ Heads(tm) = Heads(m) \cup {at}
  BY CarveWhole
<1>2. \A g \in Heads(m) : g \in Addr /\ g \in Nat /\ dataStart(g) \in Addr
  BY Apart
<1>3. /\ ~tm[at].used
      /\ \A g \in Heads(m) : tm[g].used = m[g].used /\ (g # h => tm[g].size = m[g].size)
  BY <1>1, <1>2 DEF Carved
<1>4. second \in Addr /\ dataStart(at) = second
  BY RoomBetween, Positive DEF dataStart, Addr
<1>5. o[second] = 0
  BY <1>1, <1>4 DEF Held
<1> HIDE DEF at
<1>6. ASSUME NEW g \in Heads(tm)
      PROVE  (tm[g].used <=> o[dataStart(g)] # 0) /\ (tm[g].used => o[dataStart(g)] <= tm[g].size)
  <2>1. CASE g = at
    BY <1>3, <1>4, <1>5, <2>1
  <2>2. CASE g # at
    BY <1>1, <1>3, <2>2 DEF Held
  <2>3. QED
    BY <2>1, <2>2
<1>7. QED
  BY <1>1, <1>6 DEF Held

--------------------------------------------------------------------------------
(* Neighbours *)

\* Only block h and a neighbour may both be free.
Almost(m, l, h) ==
  \A g \in Heads(m) \ {h, l} : ~m[g].used => m[g].next = h \/ m[m[g].next].used

\* The list is right up to block h, which is free: nothing free follows it.
Settled(m, l, o, h) ==
  /\ Whole(m, l) /\ Held(m, o) /\ Almost(m, l, h)
  /\ h \in Heads(m) /\ ~m[h].used
  /\ h # l => m[m[h].next].used

\* Carving a free block leaves at most its two parts as free neighbours.
LEMMA CarveAlmost ==
  ASSUME NEW m, NEW l, Whole(m, l), Merged(m, l), NEW h \in Heads(m), ~m[h].used,
         NEW size, NEW second, Room(m, h, size, second),
         NEW tm, NEW tl, Carved(m, l, h, size, second, tm, tl)
  PROVE  Almost(tm, tl, h)
<1> DEFINE at == second - Header
<1>1. at \notin Heads(m) /\ Heads(tm) = Heads(m) \cup {at}
  BY CarveWhole
<1>2. /\ \A g \in Heads(m) : g \in Addr
      /\ \A g \in Heads(m) \ {l} : m[g].next \in Heads(m)
  BY DEF Whole, Heads
<1>3. /\ tl = IF l = h THEN at ELSE l
      /\ tm[at].next = m[h].next
      /\ \A g \in Addr \ {at} : /\ tm[g].used = m[g].used
                                /\ tm[g].next = IF g = h THEN at ELSE m[g].next
  BY DEF Carved
<1> HIDE DEF at
<1>4. ASSUME NEW g \in Heads(tm) \ {h, tl}, ~tm[g].used
      PROVE  tm[g].next = h \/ tm[tm[g].next].used
  <2>1. CASE g = at
    <3>1. h # l
      BY <1>3, <1>4, <2>1
    <3>2. m[h].next \in Heads(m) /\ m[m[h].next].used
      BY <1>2, <3>1 DEF Merged
    <3>3. QED
      BY <1>1, <1>2, <1>3, <2>1, <3>2
  <2>2. CASE g # at
    <3>1. g \in Heads(m) /\ g # l /\ g # h /\ ~m[g].used
      BY <1>1, <1>2, <1>3, <1>4, <2>2
    <3>2. m[g].next \in Heads(m) /\ m[m[g].next].used
      BY <1>2, <3>1 DEF Merged
    <3>3. QED
      BY <1>1, <1>2, <1>3, <2>2, <3>1, <3>2
  <2>3. QED
    BY <2>1, <2>2
<1>5. QED
  BY <1>4 DEF Almost

\* A freed block merged with a free next one: nothing free follows it any more.
LEMMA MergeNext ==
  ASSUME NEW m, NEW l, NEW o, Whole(m, l), Held(m, o), NEW h \in Heads(m), ~m[h].used,
         Almost(m, l, h), NEW t,
         t = IF Free(m, m[h].next) THEN merge([mem |-> m, last |-> l], h, m[h].next)
                                   ELSE [mem |-> m, last |-> l]
  PROVE  t = [mem |-> t.mem, last |-> t.last] /\ Settled(t.mem, t.last, o, h)
<1> DEFINE x == m[h].next
<1>1. /\ \A g \in Heads(m) : g \in Addr /\ g # nullptr
      /\ \A g \in Heads(m) \ {l} : m[g].next \in Heads(m) /\ m[m[g].next].prev = g
      /\ m[l].next = nullptr /\ l \in Heads(m)
  BY DEF Whole, Heads, Addr, nullptr
<1>2. CASE ~Free(m, x)
  <2>1. t.mem = m /\ t.last = l /\ t = [mem |-> t.mem, last |-> t.last]
    BY <1>2
  <2>2. h # l => m[x].used
    BY <1>1, <1>2 DEF Free
  <2>3. QED
    BY <2>1, <2>2 DEF Settled
<1>3. CASE Free(m, x)
  <2>1. h # l /\ x \in Heads(m) /\ ~m[x].used
    BY <1>1, <1>3 DEF Free
  <2>2. t = merge([mem |-> m, last |-> l], h, x)
    BY <1>3
  <2>3. t = [mem |-> t.mem, last |-> t.last]
    BY <2>2 DEF merge
  <2>4. Joined(m, l, h, t.mem, t.last)
    BY <2>1, <2>2, MergeJoins
  <2>5. Heads(t.mem) = Heads(m) \ {x} /\ Whole(t.mem, t.last)
    BY <2>1, <2>4, MergeWhole
  <2>6. Held(t.mem, o)
    BY <2>1, <2>4, MergeHeld
  <2>7. /\ t.last = IF l = x THEN h ELSE l
        /\ \A g \in Addr \ {x} : /\ t.mem[g].used = m[g].used
                                 /\ t.mem[g].next = IF g = h THEN m[x].next ELSE m[g].next
    BY <2>4 DEF Joined
  <2>8. x # h /\ (x # l => m[x].next # h /\ m[x].next # x)
    <3>1. \A g \in Heads(m) : g \in Nat /\ m[g].size \in Nat
      BY DEF Whole, Heads, Addr, Block
    <3>2. \A g \in Heads(m) \ {l} : dataEnd(m, g) <= m[g].next
      BY DEF Whole
    <3>3. h < x
      BY <2>1, <3>1, <3>2, Positive DEF dataEnd, dataStart
    <3>4. x # l => x < m[x].next
      BY <1>1, <2>1, <3>1, <3>2, Positive DEF dataEnd, dataStart
    <3>5. QED
      BY <1>1, <2>1, <3>1, <3>3, <3>4
  <2> HIDE DEF x
  <2>9. h \in Heads(t.mem) /\ ~t.mem[h].used
    BY <1>1, <2>5, <2>7, <2>8
  <2>10. ASSUME h # t.last PROVE t.mem[t.mem[h].next].used
    <3>1. x # l /\ t.mem[h].next = m[x].next
      BY <1>1, <2>7, <2>8, <2>10
    <3>2. m[x].next \in Heads(m) /\ m[m[x].next].used
      BY <1>1, <2>1, <2>8, <3>1 DEF Almost
    <3>3. QED
      BY <1>1, <2>7, <2>8, <3>1, <3>2
  <2>11. ASSUME NEW g \in Heads(t.mem) \ {h, t.last}, ~t.mem[g].used
         PROVE  t.mem[g].next = h \/ t.mem[t.mem[g].next].used
    <3>1. g \in Heads(m) \ {h, l} /\ g # x /\ g \in Addr
      BY <1>1, <2>5, <2>7
    <3>2. ~m[g].used /\ t.mem[g].next = m[g].next
      BY <2>7, <2>11, <3>1
    <3>3. m[g].next \in Heads(m) /\ (m[g].next = h \/ m[m[g].next].used)
      BY <1>1, <3>1, <3>2 DEF Almost
    <3>4. m[g].next # x
      BY <1>1, <2>1, <3>1 DEF x
    <3>5. QED
      BY <1>1, <2>7, <3>2, <3>3, <3>4
  <2>12. Almost(t.mem, t.last, h)
    BY <2>11 DEF Almost
  <2>13. QED
    BY <2>3, <2>5, <2>6, <2>9, <2>10, <2>12 DEF Settled
<1>4. QED
  BY <1>2, <1>3

\* Merged with a free block before it as well, no two neighbours are free.
LEMMA MergePrev ==
  ASSUME NEW m, NEW l, NEW o, NEW h, Settled(m, l, o, h), NEW t,
         t = IF Free(m, m[h].prev) THEN merge([mem |-> m, last |-> l], m[h].prev, h)
                                   ELSE [mem |-> m, last |-> l]
  PROVE  Whole(t.mem, t.last) /\ Held(t.mem, o) /\ Merged(t.mem, t.last)
<1> DEFINE z == m[h].prev
<1>1. /\ Whole(m, l) /\ Held(m, o) /\ Almost(m, l, h) /\ h \in Heads(m) /\ ~m[h].used
      /\ h # l => m[m[h].next].used
  BY DEF Settled
<1>2. /\ \A g \in Heads(m) : g \in Addr /\ g # nullptr
      /\ \A g \in Heads(m) \ {l} : m[g].next \in Heads(m) /\ m[m[g].next].prev = g
      /\ m[l].next = nullptr /\ m[firstBlock].prev = nullptr
      /\ \A g \in Heads(m) \ {firstBlock} : m[g].prev \in Heads(m) /\ m[m[g].prev].next = g
  BY <1>1 DEF Whole, Heads, Addr, nullptr
<1>3. CASE ~Free(m, z)
  <2>1. t.mem = m /\ t.last = l
    BY <1>3
  <2>2. ASSUME NEW g \in Heads(m), ~m[g].used, g # l PROVE m[m[g].next].used
    <3>1. CASE g = h
      BY <1>1, <2>2, <3>1
    <3>2. CASE g # h
      <4>1. m[g].next # h
        BY <1>2, <1>3, <2>2 DEF Free
      <4>2. QED
        BY <1>1, <2>2, <3>2, <4>1 DEF Almost
    <3>3. QED
      BY <3>1, <3>2
  <2>3. QED
    BY <1>1, <2>1, <2>2 DEF Merged
<1>4. CASE Free(m, z)
  <2>1. z \in Heads(m) /\ z # l /\ m[z].next = h /\ ~m[z].used
    BY <1>1, <1>2, <1>4 DEF Free
  <2>2. t = merge([mem |-> m, last |-> l], z, m[z].next)
    BY <1>4, <2>1
  <2>3. Joined(m, l, z, t.mem, t.last)
    BY <1>1, <2>1, <2>2, MergeJoins
  <2>4. Heads(t.mem) = Heads(m) \ {h} /\ Whole(t.mem, t.last)
    BY <1>1, <2>1, <2>3, MergeWhole
  <2>5. Held(t.mem, o)
    BY <1>1, <2>1, <2>3, MergeHeld
  <2>6. /\ t.last = IF l = h THEN z ELSE l
        /\ \A g \in Addr \ {h} : /\ t.mem[g].used = m[g].used
                                 /\ t.mem[g].next = IF g = z THEN m[h].next ELSE m[g].next
    BY <2>1, <2>3 DEF Joined
  <2> HIDE DEF z
  <2>7. ASSUME NEW g \in Heads(t.mem), ~t.mem[g].used, g # t.last
        PROVE  t.mem[t.mem[g].next].used
    <3>1. g \in Heads(m) /\ g \in Addr /\ g # h /\ g # l /\ ~m[g].used
      BY <1>2, <2>4, <2>6, <2>7
    <3>2. CASE g = z
      <4>1. h # l
        BY <2>6, <2>7, <3>2
      <4>2. t.mem[g].next = m[h].next /\ m[h].next \in Heads(m) /\ m[m[h].next].used
        BY <1>1, <1>2, <2>6, <3>1, <3>2, <4>1
      <4>3. QED
        BY <1>1, <1>2, <2>6, <4>2
    <3>3. CASE g # z
      <4>1. t.mem[g].next = m[g].next /\ m[g].next \in Heads(m) /\ m[g].next # h
        BY <1>2, <2>6, <3>1, <3>3 DEF z
      <4>2. m[m[g].next].used
        BY <1>1, <3>1, <4>1 DEF Almost
      <4>3. QED
        BY <1>2, <2>6, <4>1, <4>2
    <3>4. QED
      BY <3>2, <3>3
  <2>8. QED
    BY <2>4, <2>5, <2>7 DEF Merged
<1>5. QED
  BY <1>3, <1>4

\* deallocate's merging, whatever block was freed.
LEMMA FreedMerged ==
  ASSUME NEW m, NEW l, NEW o, Whole(m, l), Held(m, o), NEW h \in Heads(m), ~m[h].used,
         Almost(m, l, h), NEW u, u = mergeNeighbours([mem |-> m, last |-> l], h)
  PROVE  Whole(u.mem, u.last) /\ Held(u.mem, o) /\ Merged(u.mem, u.last)
<1> DEFINE t == IF Free(m, m[h].next) THEN merge([mem |-> m, last |-> l], h, m[h].next)
                                      ELSE [mem |-> m, last |-> l]
<1>1. u = IF Free(t.mem, t.mem[h].prev) THEN merge(t, t.mem[h].prev, h) ELSE t
  BY DEF mergeNeighbours
<1>2. t = [mem |-> t.mem, last |-> t.last] /\ Settled(t.mem, t.last, o, h)
  BY MergeNext
<1> HIDE DEF t
<1>3. u = IF Free(t.mem, t.mem[h].prev)
            THEN merge([mem |-> t.mem, last |-> t.last], t.mem[h].prev, h)
            ELSE [mem |-> t.mem, last |-> t.last]
  BY <1>1, <1>2
<1>4. QED
  BY <1>2, <1>3, MergePrev

\* Marking a block as used settles what was left about it.
LEMMA TakenMerged ==
  ASSUME NEW m, NEW l, NEW o, Whole(m, l), Held(m, o), NEW h \in Heads(m),
         Almost(m, l, h), NEW size \in Nat \ {0}, size <= m[h].size, NEW n, n = [m EXCEPT ![h].used = TRUE]
  PROVE  Whole(n, l) /\ Held(n, [o EXCEPT ![dataStart(h)] = size]) /\ Merged(n, l)
<1>1. Marked(m, h, TRUE, n) /\ Whole(n, l)
  BY UsedWhole
<1>2. Held(n, [o EXCEPT ![dataStart(h)] = size])
  BY <1>1, UsedHeld
<1>3. ASSUME NEW g \in Heads(n), ~n[g].used, g # l PROVE n[n[g].next].used
  <2>1. /\ g \in Heads(m) /\ g \in Addr /\ g # h /\ ~m[g].used /\ n[g].next = m[g].next
        /\ m[g].next \in Heads(m) /\ m[g].next \in Addr
    <3>1. g \in Heads(m) /\ g \in Addr /\ n[g].next = m[g].next
      BY <1>1, <1>3 DEF Marked, Heads
    <3>2. g # h /\ ~m[g].used
      BY <1>1, <1>3, <3>1 DEF Marked
    <3>3. m[g].next \in Heads(m)
      BY <1>3, <3>1 DEF Whole
    <3>4. QED
      BY <3>1, <3>2, <3>3 DEF Heads
  <2>2. m[g].next = h \/ m[m[g].next].used
    BY <1>3, <2>1 DEF Almost
  <2>3. QED
    BY <1>1, <2>1, <2>2 DEF Marked
<1>4. QED
  BY <1>1, <1>2, <1>3 DEF Merged

--------------------------------------------------------------------------------
(* The steps *)

LEMMA InitHeapInv ==
  ASSUME Init
  PROVE  HeapInv
<1>1. /\ firstBlock \in Addr /\ usableSize \in Nat \ {0}
      /\ dataStart(firstBlock) = firstData /\ firstData % heapAlignment = 0
      /\ firstData + usableSize = heapEndAddr
  BY FirstBlock DEF dataStart
<1> HIDE DEF firstBlock, usableSize, firstData
<1>2. /\ mem \in [Addr -> Block] /\ mem[firstBlock] = [NoHeader EXCEPT !.size = usableSize]
      /\ \A h \in Addr \ {firstBlock} : mem[h] = NoHeader
  BY <1>1 DEF Init, Block, NoHeader
<1>3. /\ mem[firstBlock].size = usableSize /\ mem[firstBlock].used = FALSE
      /\ mem[firstBlock].next = nullptr /\ mem[firstBlock].prev = nullptr
  BY <1>2 DEF NoHeader
<1>4. Heads(mem) = {firstBlock}
  <2>1. IsHeader(mem, firstBlock)
    BY <1>1, <1>3 DEF IsHeader, NoHeader
  <2>2. QED
    BY <1>1, <1>2, <2>1 DEF Heads, IsHeader
<1>5. Whole(mem, last)
  <2>1. dataEnd(mem, firstBlock) = heapEndAddr
    BY <1>1, <1>3 DEF dataEnd
  <2>2. firstBlock <= firstBlock /\ mem[firstBlock].size > 0
    BY <1>1, <1>3 DEF Addr
  <2>3. last = firstBlock
    BY DEF Init
  <2>4. QED
    BY <1>1, <1>2, <1>3, <1>4, <2>1, <2>2, <2>3 DEF Whole
<1>6. Held(mem, owned)
  <2>1. owned \in [Addr -> Nat] /\ \A p \in Addr : owned[p] = 0
    BY DEF Init
  <2>2. dataStart(firstBlock) \in Addr
    BY <1>4, <1>5, Apart
  <2>3. QED
    BY <1>3, <1>4, <2>1, <2>2 DEF Held
<1>7. Merged(mem, last) /\ Walk
  BY <1>4 DEF Merged, Walk, Init, nullptr
<1>8. QED
  BY <1>5, <1>6, <1>7 DEF HeapInv

\* The first block of a request is the first of the list.
LEMMA AllocateStep ==
  ASSUME HeapInv, NEW size \in Sizes, allocate(size)
  PROVE  HeapInv'
<1>1. UNCHANGED <<mem, last, owned>> /\ request' = size /\ mbh' = firstBlock
  BY DEF allocate
<1>2. firstBlock \in Heads(mem) /\ \A h \in Heads(mem) : firstBlock <= h
  BY DEF HeapInv, Whole
<1>3. size \in Nat /\ size # 0
  BY HeapAssumption
<1>4. \A h \in Heads(mem) : h \in Nat /\ h # nullptr
  BY DEF Heads, Addr, nullptr
<1> HIDE DEF firstBlock
<1>5. Walk'
  <2>1. mbh' \in Heads(mem) /\ mbh' # nullptr /\ \A h \in Heads(mem) : ~(h < mbh')
    BY <1>1, <1>2, <1>4
  <2>2. Heads(mem)' = Heads(mem)
    BY <1>1 DEF Heads, IsHeader
  <2>3. QED
    BY <1>1, <1>3, <2>1, <2>2 DEF Walk
<1>6. Whole(mem, last)' /\ Held(mem, owned)' /\ Merged(mem, last)'
  BY <1>1 DEF HeapInv
<1>7. QED
  BY <1>5, <1>6 DEF HeapInv

\* Going on passes over one block, which does not fit.
LEMMA PassOverStep ==
  ASSUME HeapInv, PassOver
  PROVE  HeapInv'
<1>1. /\ UNCHANGED <<mem, last, owned, request>> /\ mbh' = mem[mbh].next
      /\ request # 0 /\ mbh # nullptr /\ request \in Nat /\ mbh \in Heads(mem)
      /\ \A h \in Heads(mem) : h < mbh => mem[h].used \/ mem[h].size < request
  BY DEF PassOver, HeapInv, Walk
<1>2. \A h \in Heads(mem) : h \in Nat /\ mem[h].size \in Nat /\ h <= last /\ h # nullptr
  BY DEF HeapInv, Whole, Heads, Addr, Block, nullptr
<1>3. mem[mbh].used \/ mem[mbh].size < request
  BY <1>1, <1>2 DEF PassOver, Fits
<1>4. /\ mbh = last => mbh' = nullptr
      /\ mbh # last => mbh' \in Heads(mem) /\ \A g \in Heads(mem) : g <= mbh \/ g >= mbh'
  BY <1>1 DEF HeapInv, Whole
<1>5. mbh' # nullptr => mbh' \in Heads(mem)
  BY <1>4
<1>6. ASSUME NEW h \in Heads(mem), mbh' = nullptr \/ h < mbh'
      PROVE  mem[h].used \/ mem[h].size < request
  <2>1. h <= mbh
    BY <1>1, <1>2, <1>4, <1>6
  <2>2. h < mbh \/ h = mbh
    BY <1>1, <1>2, <2>1
  <2>3. QED
    BY <1>1, <1>3, <2>2
<1>7. Heads(mem)' = Heads(mem)
  BY <1>1 DEF Heads, IsHeader
<1>8. Walk'
  BY <1>1, <1>5, <1>6, <1>7 DEF Walk
<1>9. Whole(mem, last)' /\ Held(mem, owned)' /\ Merged(mem, last)'
  BY <1>1 DEF HeapInv
<1>10. QED
  BY <1>8, <1>9 DEF HeapInv

LEMMA NoBlockStep ==
  ASSUME HeapInv, NoBlock
  PROVE  HeapInv'
<1>1. UNCHANGED <<mem, last, owned, mbh>> /\ request' = 0 /\ mbh = nullptr
  BY DEF NoBlock
<1>2. Walk'
  BY <1>1 DEF Walk
<1>3. Whole(mem, last)' /\ Held(mem, owned)' /\ Merged(mem, last)'
  BY <1>1 DEF HeapInv
<1>4. QED
  BY <1>2, <1>3 DEF HeapInv

\* The block is split when there is room, and marked.
LEMMA TakeStep ==
  ASSUME HeapInv, Take
  PROVE  HeapInv'
<1> DEFINE s == [mem |-> mem, last |-> last]
           second == alignAddress(dataStart(mbh) + request + Header)
           t == IF mem[mbh].size >= request + minBlockSize THEN split(s, mbh, request) ELSE s
<1>1. /\ mbh \in Heads(mem) /\ ~mem[mbh].used /\ mem[mbh].size >= request
      /\ request \in Nat \ {0}
      /\ mem' = [t.mem EXCEPT ![mbh].used = TRUE] /\ last' = t.last
      /\ owned' = [owned EXCEPT ![dataStart(mbh)] = request]
      /\ request' = 0 /\ mbh' = nullptr
  BY DEF Take, Fits, HeapInv, Walk
<1>2. Whole(mem, last) /\ Held(mem, owned) /\ Merged(mem, last)
  BY DEF HeapInv
<1>3. /\ mbh \in Nat /\ mem[mbh].size \in Nat
      /\ dataStart(mbh) + request + Header \in Nat /\ dataEnd(mem, mbh) \in Nat
  <2>1. mbh \in Addr /\ mem[mbh] \in Block
    BY <1>1, <1>2 DEF Whole, Heads
  <2>2. QED
    BY <1>1, <2>1, Positive DEF Addr, Block, dataStart, dataEnd
<1>4. /\ second \in Nat /\ second % heapAlignment = 0
      /\ dataStart(mbh) + request + Header <= second
      /\ second < dataStart(mbh) + request + Header + heapAlignment
  BY <1>3, Aligned
<1>5. t = s \/ (Room(mem, mbh, request, second) /\ t = carve(s, mbh, request, second))
  <2>1. CASE second + minBlockSize >= dataEnd(mem, mbh)
    BY <2>1 DEF split
  <2>2. CASE ~(second + minBlockSize >= dataEnd(mem, mbh))
    <3>1. second + minBlockSize < dataEnd(mem, mbh)
      BY <1>3, <1>4, <2>2, Positive
    <3>2. Room(mem, mbh, request, second)
      BY <1>1, <1>4, <3>1 DEF Room
    <3>3. split(s, mbh, request) = carve(s, mbh, request, second)
      BY <2>2 DEF split
    <3>4. QED
      BY <3>2, <3>3
  <2>3. QED
    BY <2>1, <2>2
<1> HIDE DEF second
<1>6. /\ Whole(t.mem, t.last) /\ Held(t.mem, owned) /\ Almost(t.mem, t.last, mbh)
      /\ mbh \in Heads(t.mem) /\ request <= t.mem[mbh].size
  <2>1. CASE t = s
    <3>1. t.mem = mem /\ t.last = last
      BY <2>1
    <3>2. Almost(mem, last, mbh)
      BY <1>2 DEF Merged, Almost
    <3>3. QED
      BY <1>1, <1>2, <1>3, <3>1, <3>2
  <2>2. CASE Room(mem, mbh, request, second) /\ t = carve(s, mbh, request, second)
    <3> HIDE DEF t
    <3>1. Carved(mem, last, mbh, request, second, t.mem, t.last)
      BY <1>1, <1>2, <2>2, CarveCarves
    <3>2. /\ second - Header \notin Heads(mem)
          /\ Heads(t.mem) = Heads(mem) \cup {second - Header} /\ Whole(t.mem, t.last)
      BY <1>1, <1>2, <2>2, <3>1, CarveWhole
    <3>3. Held(t.mem, owned)
      BY <1>1, <1>2, <2>2, <3>1, CarveHeld
    <3>4. Almost(t.mem, t.last, mbh)
      BY <1>1, <1>2, <2>2, <3>1, CarveAlmost
    <3>5. t.mem[mbh].size = request
      BY <1>1, <3>1, <3>2 DEF Carved, Heads
    <3>6. QED
      BY <1>1, <3>2, <3>3, <3>4, <3>5
  <2>3. QED
    BY <1>5, <2>1, <2>2
<1> HIDE DEF t
<1>7. Whole(mem', last') /\ Held(mem', owned') /\ Merged(mem', last')
  BY <1>1, <1>6, TakenMerged
<1>8. Walk'
  BY <1>1 DEF Walk
<1>9. QED
  BY <1>7, <1>8 DEF HeapInv

\* The block before the pointer is marked free and merged with its neighbours.
LEMMA DeallocateStep ==
  ASSUME HeapInv, NEW p \in Addr, deallocate(p)
  PROVE  HeapInv'
<1> DEFINE h == p - Header
           n == [mem EXCEPT ![h].used = FALSE]
           t == mergeNeighbours([mem |-> n, last |-> last], h)
<1>1. /\ request = 0 /\ owned[p] # 0 /\ mem' = t.mem /\ last' = t.last
      /\ owned' = [owned EXCEPT ![p] = 0] /\ request' = request /\ mbh' = mbh
  BY DEF deallocate
<1>2. Whole(mem, last) /\ Held(mem, owned) /\ Merged(mem, last) /\ Walk
  BY DEF HeapInv
<1>3. h \in Heads(mem)
  BY <1>1, <1>2 DEF Held
<1>4. dataStart(h) = p /\ mem[h].size \in Nat
  <2>1. h \in Addr /\ mem[h] \in Block
    BY <1>2, <1>3 DEF Whole, Heads
  <2>2. QED
    BY <2>1, Positive DEF dataStart, Addr, Block
<1> HIDE DEF h
<1>5. Marked(mem, h, FALSE, n) /\ Whole(n, last)
  BY <1>2, <1>3, UsedWhole
<1> HIDE DEF n
<1>6. Held(n, owned')
  <2>1. Held(n, [owned EXCEPT ![dataStart(h)] = 0])
    <3>1. 0 \in Nat /\ 0 <= mem[h].size /\ FALSE \in BOOLEAN /\ (FALSE <=> 0 # 0)
      BY <1>4
    <3>2. QED
      BY <1>2, <1>3, <1>5, <3>1, UsedHeld
  <2>2. QED
    BY <1>1, <1>4, <2>1
<1>7. h \in Heads(n) /\ ~n[h].used
  BY <1>3, <1>5 DEF Marked, Heads
<1>8. ASSUME NEW g \in Heads(n) \ {h, last}, ~n[g].used
      PROVE  n[g].next = h \/ n[n[g].next].used
  <2>1. g \in Heads(mem) /\ g \in Addr /\ n[g].next = mem[g].next /\ ~mem[g].used
    BY <1>5, <1>8 DEF Marked, Heads
  <2>2. mem[g].next \in Heads(mem) /\ mem[mem[g].next].used
    BY <1>2, <1>8, <2>1 DEF Whole, Merged
  <2>3. QED
    BY <1>5, <2>1, <2>2 DEF Marked, Heads
<1>9. Almost(n, last, h)
  BY <1>8 DEF Almost
<1>10. Whole(t.mem, t.last) /\ Held(t.mem, owned') /\ Merged(t.mem, t.last)
  BY <1>5, <1>6, <1>7, <1>9, FreedMerged
<1> HIDE DEF t
<1>11. Walk'
  BY <1>1, <1>2 DEF Walk
<1>12. QED
  BY <1>1, <1>10, <1>11 DEF HeapInv

\* The inductive invariant: after any calls of allocate and deallocate, and in the
\* middle of allocate's walk, the blocks are one list that agrees with the clients.
THEOREM HeapInvariant == Spec => []HeapInv
<1>1. Init => HeapInv
  BY InitHeapInv
<1>2. HeapInv /\ [Next]_vars => HeapInv'
  <2> SUFFICES ASSUME HeapInv, [Next]_vars PROVE HeapInv'
    OBVIOUS
  <2>1. CASE \E size \in Sizes : allocate(size)
    BY <2>1, AllocateStep
  <2>2. CASE PassOver
    BY <2>2, PassOverStep
  <2>3. CASE NoBlock
    BY <2>3, NoBlockStep
  <2>4. CASE Take
    BY <2>4, TakeStep
  <2>5. CASE \E p \in Addr : deallocate(p)
    BY <2>5, DeallocateStep
  <2>6. CASE UNCHANGED vars
    <3>1. UNCHANGED <<mem, last, request, mbh, owned>>
      BY <2>6 DEF vars
    <3>2. Heads(mem)' = Heads(mem)
      BY <3>1 DEF Heads, IsHeader
    <3>3. Walk'
      BY <3>1, <3>2 DEF Walk, HeapInv
    <3>4. Whole(mem, last)' /\ Held(mem, owned)' /\ Merged(mem, last)'
      BY <3>1 DEF HeapInv
    <3>5. QED
      BY <3>3, <3>4 DEF HeapInv
  <2>7. QED
    BY <2>1, <2>2, <2>3, <2>4, <2>5, <2>6 DEF Next
<1>3. QED
  BY <1>1, <1>2, PTL DEF Spec

--------------------------------------------------------------------------------
(* What follows *)

\* Every variable has its type.
THEOREM HeapTypes == Spec => []TypeOK
<1>1. HeapInv => TypeOK
  BY DEF HeapInv, Whole, Held, Walk, Heads, TypeOK
<1>2. QED
  BY <1>1, HeapInvariant, PTL

\* The blocks are one list from the first to the last, however the clients'
\* calls follow each other.
THEOREM ListIsWholeAlways == Spec => []ListIsWhole
<1>1. HeapInv => ListIsWhole
  BY DEF HeapInv, Whole, Heads, ListIsWhole, Headers
<1>2. QED
  BY <1>1, HeapInvariant, PTL

\* A block is in use exactly when a client holds it, and what is freed is merged.
THEOREM FreeIsMergedAlways == Spec => []FreeIsMerged
<1>1. ASSUME HeapInv PROVE FreeIsMerged
  <2>1. Whole(mem, last) /\ Held(mem, owned) /\ Merged(mem, last)
    BY <1>1 DEF HeapInv
  <2>2. \A h \in Headers : h \in Heads(mem) /\ dataStart(h) \in Addr
    BY <2>1, Apart DEF Headers, Heads
  <2>3. QED
    BY <2>1, <2>2 DEF FreeIsMerged, Held, Merged, Owned
<1>2. QED
  BY <1>1, HeapInvariant, PTL

\* What one client holds is nobody else's, in any heap.
THEOREM OwnersAreAloneAlways == Spec => []OwnersAreAlone
<1>1. ASSUME HeapInv PROVE OwnersAreAlone
  <2>1. Whole(mem, last) /\ Held(mem, owned)
    BY <1>1 DEF HeapInv
  <2>2. ASSUME NEW p \in Owned
        PROVE  /\ p - Header \in Heads(mem) /\ p \in Nat /\ p % heapAlignment = 0
               /\ owned[p] \in Nat /\ p + owned[p] <= heapEndAddr
               /\ \A h \in Heads(mem) : h > p - Header => p + owned[p] <= h
    <3> DEFINE g == p - Header
    <3>1. p \in Addr /\ owned[p] # 0 /\ owned[p] \in Nat /\ g \in Heads(mem)
      BY <2>1 DEF Owned, Held
    <3>2. /\ g \in Nat /\ mem[g].size \in Nat /\ dataStart(g) = p /\ p \in Nat
          /\ heapEndAddr \in Nat
      <4>1. g \in Addr /\ mem[g] \in Block
        BY <2>1, <3>1 DEF Whole, Heads
      <4>2. QED
        BY <3>1, <4>1, Positive DEF Addr, Block, dataStart
    <3> HIDE DEF g
    <3>3. owned[p] <= mem[g].size /\ p % heapAlignment = 0
      BY <2>1, <3>1, <3>2 DEF Held, Whole
    <3>4. dataEnd(mem, g) = p + mem[g].size /\ dataEnd(mem, g) <= heapEndAddr
      BY <2>1, <3>1, <3>2, Apart DEF dataEnd
    <3>5. ASSUME NEW h \in Heads(mem), h > g PROVE dataEnd(mem, g) <= h /\ h \in Nat
      <4>1. h \in Nat
        BY DEF Heads, Addr
      <4>2. g < h
        BY <3>2, <3>5, <4>1
      <4>3. QED
        BY <2>1, <3>1, <4>1, <4>2, Apart
    <3>6. \A h \in Heads(mem) : h > g => p + owned[p] <= h
      BY <3>1, <3>2, <3>3, <3>4, <3>5
    <3>7. p + owned[p] <= heapEndAddr
      BY <3>1, <3>2, <3>3, <3>4
    <3>8. QED
      BY <3>1, <3>2, <3>3, <3>6, <3>7 DEF g
  <2>3. ASSUME NEW p \in Owned, NEW q \in Owned \ {p}
        PROVE  q + owned[q] <= p \/ p + owned[p] <= q
    <3>1. p \in Nat /\ q \in Nat /\ owned[p] \in Nat /\ owned[q] \in Nat /\ p # q
      BY <2>2
    <3>2. CASE p < q
      <4>1. q - Header > p - Header
        BY <3>1, <3>2, Positive
      <4>2. p + owned[p] <= q - Header
        BY <2>2, <4>1
      <4>3. QED
        BY <3>1, <4>2, Positive
    <3>3. CASE q < p
      <4>1. p - Header > q - Header
        BY <3>1, <3>3, Positive
      <4>2. q + owned[q] <= p - Header
        BY <2>2, <4>1
      <4>3. QED
        BY <3>1, <4>2, Positive
    <3>4. QED
      BY <3>1, <3>2, <3>3
  <2>4. ASSUME NEW p \in Owned, NEW h \in Headers
        PROVE  h + Header <= p \/ p + owned[p] <= h
    <3>1. h \in Heads(mem) /\ h \in Nat /\ p \in Nat
      BY <2>2 DEF Headers, Heads, Addr
    <3>2. h > p - Header => p + owned[p] <= h
      BY <2>2, <3>1
    <3>3. QED
      BY <3>1, <3>2, Positive
  <2>5. QED
    BY <2>2, <2>3, <2>4 DEF OwnersAreAlone
<1>2. QED
  BY <1>1, HeapInvariant, PTL

\* Whatever was allocated, when everything is freed the heap is as it was at the
\* start: one free block of all the bytes.
THEOREM EmptyIsInitialAlways == Spec => []EmptyIsInitial
<1>1. ASSUME HeapInv, Owned = {}
      PROVE  mem[firstBlock].size = usableSize /\ Headers = {firstBlock}
  <2>1. Whole(mem, last) /\ Held(mem, owned) /\ Merged(mem, last)
    BY <1>1 DEF HeapInv
  <2>2. \A h \in Heads(mem) : ~mem[h].used
    <3>1. \A h \in Heads(mem) : dataStart(h) \in Addr
      BY <2>1, Apart
    <3>2. QED
      BY <1>1, <2>1, <3>1 DEF Held, Owned
  <2>3. firstBlock \in Heads(mem) /\ \A h \in Heads(mem) \ {last} : mem[h].next \in Heads(mem)
    BY <2>1 DEF Whole
  <2>4. last = firstBlock
    BY <2>1, <2>2, <2>3 DEF Merged
  <2>5. \A h \in Heads(mem) : firstBlock <= h /\ h <= firstBlock /\ h \in Nat
    BY <2>1, <2>4 DEF Whole, Heads, Addr
  <2>6. dataEnd(mem, firstBlock) = heapEndAddr /\ mem[firstBlock].size \in Nat
    BY <2>1, <2>4 DEF Whole, Heads, Block
  <2>7. /\ firstBlock \in Nat /\ dataStart(firstBlock) = firstData
        /\ firstData + usableSize = heapEndAddr /\ usableSize \in Nat
    BY FirstBlock DEF dataStart, Addr
  <2> HIDE DEF firstBlock, usableSize, firstData
  <2>8. mem[firstBlock].size = usableSize
    <3>1. firstData \in Nat
      BY <2>7, Positive DEF dataStart
    <3>2. QED
      BY <2>6, <2>7, <3>1 DEF dataEnd
  <2>9. Heads(mem) = {firstBlock}
    <3>1. \A h \in Heads(mem) : h = firstBlock
      BY <2>5, <2>7
    <3>2. QED
      BY <2>3, <3>1
  <2>10. QED
    BY <2>8, <2>9 DEF Headers, Heads
<1>2. HeapInv => EmptyIsInitial
  BY <1>1 DEF EmptyIsInitial
<1>3. QED
  BY <1>2, HeapInvariant, PTL

\* allocate takes the lowest block that is free and large enough, and answers
\* nullptr only when there is none.
FirstFit ==
  LET fitting == {h \in Headers : ~mem[h].used /\ mem[h].size >= request}
  IN  /\ Take => mbh \in fitting /\ \A h \in fitting : mbh <= h
      /\ NoBlock => fitting = {}

\* The allocator is first fit, for every heap and every request.
THEOREM FirstFitAlways == Spec => [][FirstFit]_vars
<1>1. ASSUME HeapInv PROVE FirstFit
  <2>1. \A h \in Headers : h \in Heads(mem) /\ h \in Nat /\ mem[h].size \in Nat
    <3>1. \A h \in Headers : h \in Addr /\ h \in Heads(mem)
      BY DEF Headers, Heads
    <3>2. \A h \in Addr : h \in Nat /\ mem[h].size \in Nat
      BY <1>1 DEF HeapInv, Whole, Addr, Block
    <3>3. QED
      BY <3>1, <3>2
  <2>2. /\ request \in Nat
        /\ mbh # nullptr => mbh \in Headers
        /\ request # 0 =>
             \A h \in Headers : mbh = nullptr \/ h < mbh => mem[h].used \/ mem[h].size < request
    BY <1>1 DEF HeapInv, Walk, Headers, Heads
  <2>3. ASSUME Take
        PROVE  /\ mbh \in Headers /\ ~mem[mbh].used /\ mem[mbh].size >= request
               /\ \A h \in Headers : ~mem[h].used /\ mem[h].size >= request => mbh <= h
    <3>1. mbh \in Headers /\ ~mem[mbh].used /\ mem[mbh].size >= request /\ request # 0
      BY <2>2, <2>3 DEF Take, Fits
    <3>2. ASSUME NEW h \in Headers, ~mem[h].used, mem[h].size >= request PROVE ~(h < mbh)
      BY <2>1, <2>2, <3>1, <3>2
    <3>3. QED
      BY <2>1, <3>1, <3>2
  <2>4. ASSUME NoBlock, NEW h \in Headers PROVE mem[h].used \/ ~(mem[h].size >= request)
    BY <2>1, <2>2, <2>4 DEF NoBlock
  <2>5. QED
    BY <2>3, <2>4 DEF FirstFit
<1>2. QED
  BY <1>1, HeapInvariant, PTL

==============================================================================
