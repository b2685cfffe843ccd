---------------------------- MODULE TerminalProofs ----------------------------
(***************************************************************************)
(* The two halves of the terminal.                                         *)
(*                                                                         *)
(* Console: for every ring size, every set of keys and every build, the    *)
(* ring keeps its types, and keys come out in the order they came in, each *)
(* once, until one is put over another.  With the stores of read() in the  *)
(* order of the source, and inputCount decremented in memory, that never   *)
(* happens and inputCount is exact.  The inductive invariant adds where    *)
(* the keys not taken stand (Queued), and how many of them inputCount may  *)
(* claim at each step of read() (ClaimBounds, CopyBounds).                 *)
(*                                                                         *)
(* Shell: for every screen, prompt, message and buffer, the screen and the *)
(* line keep their types, and the cells before the cursor are the prompt   *)
(* and the line that readline has collected.  The inductive invariant adds *)
(* that the edited text never reaches above the first cell.                *)
(***************************************************************************)
EXTENDS Console, Shell, FiniteSetTheorems, SequenceTheorems, TLAPS

--------------------------------------------------------------------------------
(* The console *)

\* The steps of read() at which the copy that its test loaded is still to be used:
\* it is at least 1 and never above inputCount, which interrupts only raise.
CopyBounds ==
  pc = "count" \/ (pc = "take" /\ ~CountFirst) => 1 <= loaded /\ loaded <= inputCount

\* The keys not taken stand in n slots from inputTail on, up to inputHead.
Around(i) == (inputTail + i) % Size
Queued(n) == unread = {Around(i) : i \in 0 .. n - 1} /\ inputHead = Around(n)

\* How many of n keys inputCount may claim at each step of read().
ClaimBounds(n) ==
  /\ pc \in {"test", "hlt", "halted", "return"} => inputCount <= n
  /\ pc = "count" /\ CountFirst  => inputCount <= n
  /\ pc = "take"  /\ CountFirst  => inputCount + 1 <= n
  /\ pc = "take"  /\ ~CountFirst => inputCount <= n
  /\ pc = "count" /\ ~CountFirst => inputCount <= n + 1

InOrder == ~lapped => \E n \in 0 .. Size : Queued(n) /\ ClaimBounds(n)

ConsoleInv == ConsoleTypeOK /\ CopyBounds /\ InOrder

\* Numbers up to twice the size, taken around the ring.
LEMMA Wraps ==
  ASSUME NEW a \in Nat, a < 2 * Size
  PROVE  a % Size = IF a < Size THEN a ELSE a - Size
<1>1. Size \in Nat \ {0}
  BY ConsoleAssumption
<1>2. ASSUME NEW b \in Nat, b < Size PROVE b % Size = b
  BY <1>1, <1>2
<1>3. CASE a < Size
  BY <1>2, <1>3
<1>4. CASE ~(a < Size)
  <2>1. a % Size = (a - Size) % Size
    BY <1>1
  <2>2. a - Size \in Nat /\ a - Size < Size
    BY <1>1, <1>4
  <2> QED BY <1>2, <1>4, <2>1, <2>2
<1> QED BY <1>3, <1>4

\* The build is chosen once.
LEMMA BuildStays ==
  ASSUME UNCHANGED build
  PROVE  /\ CountFirst' = CountFirst /\ CountLoaded' = CountLoaded
         /\ CountFirst \in BOOLEAN /\ CountLoaded \in BOOLEAN
  BY DEF CountFirst, CountLoaded

LEMMA InitEstablishes == ConsoleInit => ConsoleInv
<1> SUFFICES ASSUME ConsoleInit PROVE ConsoleInv
  OBVIOUS
<1>1. ConsoleTypeOK /\ CopyBounds
  <2>1. 0 \in Slot /\ 0 \in 0 .. Size
    BY ConsoleAssumption DEF Slot
  <2> QED BY <2>1 DEF ConsoleInit, ConsoleTypeOK, CopyBounds
<1>2. Around(0) = 0
  BY ConsoleAssumption, Wraps DEF ConsoleInit, Around
<1>3. Queued(0) /\ ClaimBounds(0)
  BY <1>2 DEF ConsoleInit, Queued, ClaimBounds
<1> QED BY <1>1, <1>3, ConsoleAssumption DEF ConsoleInv, InOrder

\* A slot number stays one when it is advanced around the ring.
LEMMA SlotAdvances ==
  ASSUME NEW s \in Slot
  PROVE  (s + 1) % Size \in Slot
  BY ConsoleAssumption DEF Slot

\* Of the queue, the slots from the tail on: all different, and one after the other.
LEMMA AroundIs ==
  ASSUME inputTail \in Slot, NEW i \in 0 .. Size
  PROVE  /\ Around(i) = IF inputTail + i < Size THEN inputTail + i ELSE inputTail + i - Size
         /\ Around(i) \in Slot
         /\ (Around(i) + 1) % Size = IF inputTail + i + 1 < Size THEN inputTail + i + 1
                                     ELSE IF inputTail + i + 1 < 2 * Size THEN inputTail + i + 1 - Size
                                     ELSE 0
<1>1. Size \in Nat \ {0} /\ inputTail \in Nat /\ inputTail < Size
  BY ConsoleAssumption DEF Slot
<1>2. Around(i) = IF inputTail + i < Size THEN inputTail + i ELSE inputTail + i - Size
  BY <1>1, Wraps DEF Around
<1>3. Around(i) \in Nat /\ Around(i) + 1 <= Size
  BY <1>1, <1>2
<1>4. (Around(i) + 1) % Size = IF Around(i) + 1 < Size THEN Around(i) + 1 ELSE Around(i) + 1 - Size
  BY <1>1, <1>3, Wraps
<1> QED BY <1>1, <1>2, <1>3, <1>4 DEF Slot

\* A key behind the last one makes the queue longer by one.
LEMMA QueueGrows ==
  ASSUME ConsoleTypeOK, NEW n \in 0 .. Size - 1, Queued(n),
         inputHead' = (inputHead + 1) % Size, inputTail' = inputTail, unread' = unread \cup {inputHead}
  PROVE  Queued(n + 1)'
<1>1. inputTail \in Slot /\ Size \in Nat \ {0}
  BY ConsoleAssumption DEF ConsoleTypeOK
<1>2. \A i : Around(i)' = Around(i)
  BY DEF Around
<1>3. 0 .. (n + 1) - 1 = (0 .. n - 1) \cup {n}
  BY <1>1
<1>4. unread' = {Around(i) : i \in 0 .. (n + 1) - 1}
  BY <1>3 DEF Queued
<1>5. inputHead' = Around(n + 1)
  <2>1. n \in 0 .. Size /\ n + 1 \in 0 .. Size
    BY <1>1
  <2>2. inputTail + n + 1 < 2 * Size
    BY <1>1 DEF Slot
  <2>3. (Around(n) + 1) % Size = IF inputTail + n + 1 < Size THEN inputTail + n + 1 ELSE inputTail + n + 1 - Size
    BY <1>1, <2>1, <2>2, AroundIs
  <2>4. Around(n + 1) = IF inputTail + (n + 1) < Size THEN inputTail + (n + 1) ELSE inputTail + (n + 1) - Size
    BY <1>1, <2>1, AroundIs
  <2>5. Around(n + 1) = (Around(n) + 1) % Size
    BY <1>1, <2>3, <2>4 DEF Slot
  <2> QED BY <2>5 DEF Queued
<1> QED BY <1>2, <1>4, <1>5 DEF Queued

\* A full queue ends where it begins.
LEMMA FullQueue ==
  ASSUME ConsoleTypeOK, Queued(Size)
  PROVE  inputHead \in unread
<1>1. inputTail \in Slot /\ Size \in Nat \ {0}
  BY ConsoleAssumption DEF ConsoleTypeOK
<1>2. Around(Size) = Around(0)
  BY <1>1, AroundIs DEF Slot
<1>3. 0 \in 0 .. Size - 1
  BY <1>1
<1> QED BY <1>2, <1>3 DEF Queued

\* A queue that is not full has room at its end.
LEMMA RoomInQueue ==
  ASSUME ConsoleTypeOK, NEW n \in 0 .. Size - 1, Queued(n)
  PROVE  inputHead \notin unread
<1>1. inputTail \in Slot /\ Size \in Nat \ {0}
  BY ConsoleAssumption DEF ConsoleTypeOK
<1>2. \A i \in 0 .. n - 1 : Around(i) # Around(n)
  <2> TAKE i \in 0 .. n - 1
  <2>1. i \in 0 .. Size /\ n \in 0 .. Size
    BY <1>1
  <2>2. /\ Around(i) = IF inputTail + i < Size THEN inputTail + i ELSE inputTail + i - Size
        /\ Around(n) = IF inputTail + n < Size THEN inputTail + n ELSE inputTail + n - Size
    BY <1>1, <2>1, AroundIs
  <2> QED BY <1>1, <2>2 DEF Slot
<1> QED BY <1>2 DEF Queued

\* Taking the tail leaves the rest of the queue.
LEMMA QueueShrinks ==
  ASSUME ConsoleTypeOK, NEW n \in 1 .. Size, Queued(n),
         inputTail' = (inputTail + 1) % Size, inputHead' = inputHead, unread' = unread \ {inputTail}
  PROVE  Queued(n - 1)' /\ inputTail \in unread
<1>1. inputTail \in Slot /\ Size \in Nat \ {0} /\ inputTail' \in Slot
  BY ConsoleAssumption, SlotAdvances DEF ConsoleTypeOK
<1>2. \A i \in 0 .. Size - 1 : Around(i)' = Around(i + 1)
  <2> TAKE i \in 0 .. Size - 1
  <2>1. inputTail' = IF inputTail + 1 < Size THEN inputTail + 1 ELSE inputTail + 1 - Size
    BY <1>1, Wraps DEF Slot
  <2>2. Around(i)' = IF inputTail' + i < Size THEN inputTail' + i ELSE inputTail' + i - Size
    <3>1. \A t \in Slot : (t + i) % Size = IF t + i < Size THEN t + i ELSE t + i - Size
      <4> TAKE t \in Slot
      <4>1. t + i \in Nat /\ t + i < 2 * Size
        BY <1>1 DEF Slot
      <4> QED BY <1>1, <4>1, Wraps
    <3>2. (inputTail' + i) % Size = IF inputTail' + i < Size THEN inputTail' + i ELSE inputTail' + i - Size
      BY <1>1, <3>1
    <3> QED BY <3>2 DEF Around
  <2>3. Around(i + 1) = IF inputTail + i + 1 < Size THEN inputTail + i + 1 ELSE inputTail + i + 1 - Size
    <3>1. i + 1 \in 0 .. Size
      BY <1>1
    <3> QED BY <1>1, <3>1, AroundIs DEF Slot
  <2> QED BY <1>1, <2>1, <2>2, <2>3 DEF Slot
<1>3. Around(0) = inputTail
  BY <1>1, AroundIs DEF Slot
<1>4. \A i \in 1 .. n - 1 : Around(i) # inputTail
  <2> TAKE i \in 1 .. n - 1
  <2>1. i \in 0 .. Size
    BY <1>1
  <2>2. Around(i) = IF inputTail + i < Size THEN inputTail + i ELSE inputTail + i - Size
    BY <1>1, <2>1, AroundIs
  <2> QED BY <1>1, <2>2 DEF Slot
<1>5. unread' = {Around(i) : i \in 1 .. n - 1}
  <2>1. 0 .. n - 1 = {0} \cup (1 .. n - 1)
    BY <1>1
  <2> QED BY <1>3, <1>4, <2>1 DEF Queued
<1>6. {Around(i) : i \in 1 .. n - 1} = {Around(i)' : i \in 0 .. (n - 1) - 1}
  <2>1. ASSUME NEW i \in 1 .. n - 1 PROVE Around(i) \in {Around(j)' : j \in 0 .. (n - 1) - 1}
    <3>1. i - 1 \in 0 .. (n - 1) - 1 /\ i - 1 \in 0 .. Size - 1 /\ (i - 1) + 1 = i
      BY <1>1
    <3> QED BY <1>2, <3>1
  <2>2. ASSUME NEW j \in 0 .. (n - 1) - 1 PROVE Around(j)' \in {Around(i) : i \in 1 .. n - 1}
    <3>1. j + 1 \in 1 .. n - 1 /\ j \in 0 .. Size - 1
      BY <1>1
    <3> QED BY <1>2, <3>1
  <2> QED BY <2>1, <2>2
<1>7. inputHead' = Around(n - 1)'
  <2>1. n - 1 \in 0 .. Size - 1 /\ (n - 1) + 1 = n
    BY <1>1
  <2> QED BY <1>2, <2>1 DEF Queued
<1>8. inputTail \in unread
  <2>1. 0 \in 0 .. n - 1
    BY <1>1
  <2> QED BY <1>3, <2>1 DEF Queued
<1> QED BY <1>5, <1>6, <1>7, <1>8 DEF Queued

\* The tail of a queue is its oldest key.
LEMMA TailIsOldest ==
  ASSUME ConsoleTypeOK, NEW n \in 1 .. Size, Queued(n)
  PROVE  inputTail \in unread /\ \A s \in unread : Age(inputTail) <= Age(s)
<1>1. inputTail \in Slot /\ Size \in Nat \ {0}
  BY ConsoleAssumption DEF ConsoleTypeOK
<1>2. Around(0) = inputTail /\ 0 \in 0 .. n - 1
  BY <1>1, AroundIs DEF Slot
<1>3. ASSUME NEW i \in 0 .. n - 1 PROVE Age(Around(i)) = Size - n + i
  <2>1. /\ inputHead = IF inputTail + n < Size THEN inputTail + n ELSE inputTail + n - Size
        /\ Around(i) = IF inputTail + i < Size THEN inputTail + i ELSE inputTail + i - Size
    <3>1. i \in 0 .. Size /\ n \in 0 .. Size
      BY <1>1
    <3> QED BY <1>1, <3>1, AroundIs DEF Queued
  <2>2. /\ Around(i) + Size - inputHead \in Nat /\ Around(i) + Size - inputHead < 2 * Size
        /\ Around(i) + Size - inputHead \in {Size - n + i, 2 * Size - n + i}
    BY <1>1, <2>1 DEF Slot
  <2> QED BY <1>1, <2>2, Wraps DEF Age
<1>4. ASSUME NEW s \in unread PROVE Age(inputTail) <= Age(s)
  <2>1. PICK i \in 0 .. n - 1 : s = Around(i)
    BY DEF Queued
  <2>2. Age(s) = Size - n + i /\ Age(inputTail) = Size - n + 0
    BY <1>2, <1>3, <2>1
  <2> QED BY <1>1, <2>2
<1> QED BY <1>2, <1>4 DEF Queued

\* The keyboard interrupt: inputCount and the queue grow together, unless the slot
\* it fills has a key not taken; and it wakes the reader only into the test.
LEMMA KeyStep ==
  ASSUME ConsoleInv, NEW k \in Chars, irq_keyboard(k)
  PROVE  ConsoleInv'
<1> USE ConsoleAssumption DEF Woken
<1>a. build' = build
  BY DEF irq_keyboard
<1> USE <1>a, BuildStays
<1>0. ConsoleTypeOK /\ CopyBounds /\ InOrder
  BY DEF ConsoleInv
<1>1. CASE inputCount < Size
  <2>1. /\ inputBuffer' = [inputBuffer EXCEPT ![inputHead] = k]
        /\ inputHead' = (inputHead + 1) % Size
        /\ inputCount' = inputCount + 1
        /\ unread' = unread \cup {inputHead} /\ lapped' = (lapped \/ inputHead \in unread)
        /\ inputTail' = inputTail /\ pc' = Woken
        /\ loaded' = loaded /\ ch' = ch
    BY <1>1 DEF irq_keyboard, onKeyPress, put, drop
  <2>2. inputHead' \in Slot
    BY <1>0, <2>1, SlotAdvances DEF ConsoleTypeOK
  <2>3. inputBuffer' \in [Slot -> Chars \cup {NoKey}]
    BY <1>0, <2>1 DEF ConsoleTypeOK
  <2>4. ConsoleTypeOK'
    BY <1>0, <1>1, <2>1, <2>2, <2>3 DEF ConsoleTypeOK
  <2>5. CopyBounds'
    BY <1>0, <2>1 DEF CopyBounds, ConsoleTypeOK
  <2>6. ASSUME ~lapped' PROVE \E n \in 0 .. Size : Queued(n)' /\ ClaimBounds(n)'
    <3>1. ~lapped /\ inputHead \notin unread
      BY <2>1, <2>6
    <3>2. PICK n \in 0 .. Size : Queued(n) /\ ClaimBounds(n)
      BY <1>0, <3>1 DEF InOrder
    <3>3. n # Size
      BY <1>0, <3>1, <3>2, FullQueue
    <3>4. n \in 0 .. Size - 1 /\ n + 1 \in 0 .. Size
      BY <3>3
    <3>5. Queued(n + 1)'
      BY <1>0, <2>1, <3>2, <3>4, QueueGrows
    <3>6. ClaimBounds(n + 1)'
      BY <1>0, <2>1, <3>2, <3>4 DEF ClaimBounds, ConsoleTypeOK
    <3> QED BY <3>4, <3>5, <3>6
  <2> QED BY <2>4, <2>5, <2>6 DEF ConsoleInv, InOrder
<1>2. CASE ~(inputCount < Size)
  <2>1. UNCHANGED <<ring, history, loaded, ch>> /\ pc' = Woken
    BY <1>2 DEF irq_keyboard, onKeyPress, put, drop
  <2>2. ConsoleTypeOK' /\ CopyBounds'
    BY <1>0, <2>1 DEF ring, history, ConsoleTypeOK, CopyBounds
  <2>3. \A n \in 0 .. Size : Queued(n) /\ ClaimBounds(n) => Queued(n)' /\ ClaimBounds(n)'
    BY <2>1 DEF ring, history, Queued, Around, ClaimBounds
  <2> QED BY <1>0, <2>1, <2>2, <2>3 DEF ConsoleInv, InOrder, history
<1> QED BY <1>1, <1>2

\* Steps that move no key: the queue stays, and only the claims are to be compared.
LEMMA QueueStays ==
  ASSUME ConsoleInv, UNCHANGED <<inputHead, inputTail, history>>,
         \A n \in 0 .. Size : ClaimBounds(n) => ClaimBounds(n)'
  PROVE  InOrder'
<1>1. \A n \in 0 .. Size : Queued(n) => Queued(n)'
  BY DEF history, Queued, Around
<1> QED BY <1>1 DEF ConsoleInv, InOrder, history

\* Every step of read() keeps the copy and the claims within their bounds.
LEMMA ReaderStep ==
  ASSUME ConsoleInv, Reader
  PROVE  ConsoleInv'
<1> USE ConsoleAssumption
<1>a. build' = build
  BY DEF Reader, readTest, readHalt, readCount, readTake, readReturn
<1> USE <1>a, BuildStays
<1>0. ConsoleTypeOK /\ CopyBounds /\ InOrder
  BY DEF ConsoleInv
<1>1. CASE readTest
  <2>1. ConsoleTypeOK' /\ CopyBounds'
    BY <1>0, <1>1 DEF readTest, ring, history, ConsoleTypeOK, CopyBounds
  <2>2. InOrder'
    <3>1. \A n \in 0 .. Size : ClaimBounds(n) => ClaimBounds(n)'
      BY <1>1 DEF readTest, ring, ClaimBounds
    <3> QED BY <1>1, <3>1, QueueStays DEF readTest, ring
  <2> QED BY <2>1, <2>2 DEF ConsoleInv
<1>2. CASE readHalt
  <2>1. ConsoleTypeOK' /\ CopyBounds'
    BY <1>0, <1>2 DEF readHalt, ring, history, ConsoleTypeOK, CopyBounds
  <2>2. InOrder'
    <3>1. \A n \in 0 .. Size : ClaimBounds(n) => ClaimBounds(n)'
      BY <1>2 DEF readHalt, ring, ClaimBounds
    <3> QED BY <1>2, <3>1, QueueStays DEF readHalt, ring
  <2> QED BY <2>1, <2>2 DEF ConsoleInv
<1>3. CASE readCount
  <2>1. ConsoleTypeOK' /\ CopyBounds'
    BY <1>0, <1>3 DEF readCount, history, ConsoleTypeOK, CopyBounds
  <2>2. InOrder'
    <3>1. \A n \in 0 .. Size : ClaimBounds(n) => ClaimBounds(n)'
      BY <1>0, <1>3 DEF readCount, ClaimBounds, CopyBounds, ConsoleTypeOK
    <3> QED BY <1>3, <3>1, QueueStays DEF readCount
  <2> QED BY <2>1, <2>2 DEF ConsoleInv
<1>4. CASE readTake
  <2>1. /\ ch' = inputBuffer[inputTail] /\ inputTail' = (inputTail + 1) % Size
        /\ unread' = unread \ {inputTail}
        /\ pc = "take" /\ pc' = IF CountFirst THEN "return" ELSE "count"
        /\ UNCHANGED <<inputBuffer, inputHead, inputCount, loaded, lapped>>
    BY <1>4 DEF readTake
  <2>2. inputTail' \in Slot
    BY <1>0, <2>1, SlotAdvances DEF ConsoleTypeOK
  <2>3. ch' \in Chars \cup {NoKey}
    BY <1>0, <2>1 DEF ConsoleTypeOK
  <2>4. ConsoleTypeOK'
    BY <1>0, <2>1, <2>2, <2>3 DEF ConsoleTypeOK
  <2>5. CopyBounds'
    BY <1>0, <2>1 DEF CopyBounds
  <2>6. ASSUME ~lapped' PROVE \E n \in 0 .. Size : Queued(n)' /\ ClaimBounds(n)'
    <3>1. PICK n \in 0 .. Size : Queued(n) /\ ClaimBounds(n)
      BY <1>0, <2>1, <2>6 DEF InOrder
    <3>2. n \in 1 .. Size
      BY <1>0, <2>1, <3>1 DEF ClaimBounds, CopyBounds, ConsoleTypeOK
    <3>3. Queued(n - 1)'
      BY <1>0, <2>1, <3>1, <3>2, QueueShrinks
    <3>4. ClaimBounds(n - 1)'
      BY <1>0, <2>1, <3>1, <3>2 DEF ClaimBounds, ConsoleTypeOK
    <3>5. n - 1 \in 0 .. Size
      BY <3>2
    <3> QED BY <3>3, <3>4, <3>5
  <2> QED BY <2>4, <2>5, <2>6 DEF ConsoleInv, InOrder
<1>5. CASE readReturn
  <2>1. ConsoleTypeOK' /\ CopyBounds'
    BY <1>0, <1>5 DEF readReturn, ring, history, ConsoleTypeOK, CopyBounds
  <2>2. InOrder'
    <3>1. \A n \in 0 .. Size : ClaimBounds(n) => ClaimBounds(n)'
      BY <1>5 DEF readReturn, ring, ClaimBounds
    <3> QED BY <1>5, <3>1, QueueStays DEF readReturn, ring
  <2> QED BY <2>1, <2>2 DEF ConsoleInv
<1> QED BY <1>1, <1>2, <1>3, <1>4, <1>5 DEF Reader

\* The timer wakes the reader into the test.
LEMMA TimerStep ==
  ASSUME ConsoleInv, irq_timer \/ UNCHANGED consoleVars
  PROVE  ConsoleInv'
<1>1. UNCHANGED <<build, ring, loaded, ch, history>> /\ (pc' = pc \/ (pc = "halted" /\ pc' = "test"))
  BY DEF irq_timer, Woken, consoleVars
<1> USE BuildStays
<1>2. ConsoleTypeOK' /\ CopyBounds'
  BY <1>1 DEF ring, history, ConsoleInv, ConsoleTypeOK, CopyBounds
<1>3. \A n \in 0 .. Size : ClaimBounds(n) => ClaimBounds(n)'
  BY <1>1 DEF ring, ClaimBounds
<1> QED BY <1>1, <1>2, <1>3, QueueStays DEF ConsoleInv, ring

\* The types with the bounds on copy and claims are inductive.
THEOREM ConsoleInvariant == ConsoleSpec => []ConsoleInv
<1>1. ConsoleInit => ConsoleInv
  BY InitEstablishes
<1>2. ConsoleInv /\ [ConsoleNext]_consoleVars => ConsoleInv'
  BY KeyStep, ReaderStep, TimerStep DEF ConsoleNext
<1> QED BY <1>1, <1>2, PTL DEF ConsoleSpec

\* The ring's indices and counter stay in range: no write outside inputBuffer,
\* no underflow of the size_t counter.
THEOREM ConsoleTypes == ConsoleSpec => []ConsoleTypeOK
<1>1. ConsoleInv => ConsoleTypeOK
  BY DEF ConsoleInv
<1> QED BY <1>1, ConsoleInvariant, PTL

\* The build that takes no liberty keeps the order of the source and decrements
\* inputCount in one instruction: then the count is exact, but for the key just taken.
ExactInv ==
  /\ ConsoleTypeOK /\ ~lapped /\ IsFiniteSet(unread)
  /\ \E n \in 0 .. Size :
       /\ Queued(n) /\ n = Cardinality(unread)
       /\ inputCount = IF pc = "count" THEN n + 1 ELSE n
       /\ pc = "take" => n > 0

LEMMA ExactStep ==
  ASSUME AsWritten, ConsoleInv, ExactInv, [ConsoleNext]_consoleVars, ConsoleTypeOK'
  PROVE  ExactInv'
<1> USE ConsoleAssumption
<1>0. ~CountFirst /\ ~CountLoaded
  BY DEF AsWritten, CountFirst, CountLoaded
<1>1. PICK n \in 0 .. Size : /\ Queued(n) /\ n = Cardinality(unread)
                             /\ inputCount = IF pc = "count" THEN n + 1 ELSE n
                             /\ pc = "take" => n > 0
  BY DEF ExactInv
<1>2. ConsoleTypeOK /\ ~lapped /\ IsFiniteSet(unread)
  BY DEF ExactInv
<1>3. ASSUME UNCHANGED <<inputHead, inputTail, history>>,
             inputCount' = IF pc' = "count" THEN n + 1 ELSE n, pc' = "take" => n > 0
      PROVE  ExactInv'
  <2>1. Queued(n)' /\ n = Cardinality(unread)' /\ ~lapped' /\ IsFiniteSet(unread)'
    BY <1>1, <1>2, <1>3 DEF history, Queued, Around
  <2> QED BY <1>3, <2>1 DEF ExactInv
<1>4. CASE \E k \in Chars : irq_keyboard(k)
  <2>1. PICK k \in Chars : irq_keyboard(k)
    BY <1>4
  <2>2. pc' = Woken /\ (pc' = "count" <=> pc = "count") /\ (pc' = "take" <=> pc = "take")
    BY <2>1 DEF irq_keyboard, Woken
  <2>3. CASE inputCount < Size
    <3>1. /\ inputHead' = (inputHead + 1) % Size /\ inputCount' = inputCount + 1
          /\ unread' = unread \cup {inputHead} /\ lapped' = (lapped \/ inputHead \in unread)
          /\ inputTail' = inputTail
      BY <2>1, <2>3 DEF irq_keyboard, onKeyPress, put, drop
    <3>2. n \in 0 .. Size - 1 /\ n + 1 \in 0 .. Size
      BY <1>1, <2>3
    <3>3. inputHead \notin unread
      BY <1>1, <1>2, <3>2, RoomInQueue
    <3>4. Queued(n + 1)'
      BY <1>1, <1>2, <3>1, <3>2, QueueGrows
    <3>5. IsFiniteSet(unread)' /\ Cardinality(unread)' = n + 1
      BY <1>1, <1>2, <3>1, <3>3, FS_AddElement
    <3>6. inputCount' = IF pc' = "count" THEN (n + 1) + 1 ELSE n + 1
      BY <1>1, <2>2, <3>1
    <3>7. ~lapped'
      BY <1>2, <3>1, <3>3, Zenon
    <3>8. n + 1 > 0 /\ n + 1 = Cardinality(unread)'
      BY <3>2, <3>5
    <3> QED BY <3>2, <3>4, <3>5, <3>6, <3>7, <3>8 DEF ExactInv
  <2>4. CASE ~(inputCount < Size)
    <3>1. UNCHANGED <<inputHead, inputTail, inputCount, history>>
      BY <2>1, <2>4 DEF irq_keyboard, onKeyPress, drop, ring
    <3> QED BY <1>1, <1>3, <2>2, <3>1
  <2> QED BY <2>3, <2>4
<1>5. CASE irq_timer \/ UNCHANGED consoleVars
  <2>1. UNCHANGED <<ring, history>> /\ (pc' = pc \/ (pc = "halted" /\ pc' = "test"))
    BY <1>5 DEF irq_timer, Woken, consoleVars
  <2> QED BY <1>1, <1>3, <2>1 DEF ring
<1>6. CASE readTest
  <2>1. /\ UNCHANGED <<ring, history>> /\ pc = "test"
        /\ pc' = IF inputCount = 0 THEN "hlt" ELSE "take"
    BY <1>0, <1>6 DEF readTest
  <2> QED BY <1>1, <1>3, <2>1 DEF ring
<1>7. CASE readHalt \/ readReturn
  <2>1. UNCHANGED <<ring, history>> /\ pc \in {"hlt", "return"} /\ pc' \in {"halted", "test"}
    BY <1>7 DEF readHalt, readReturn
  <2> QED BY <1>1, <1>3, <2>1 DEF ring
<1>8. CASE readCount
  <2>1. UNCHANGED <<inputHead, inputTail, history>> /\ pc = "count" /\ pc' = "return" /\ inputCount' = inputCount - 1
    BY <1>0, <1>8 DEF readCount
  <2> QED BY <1>1, <1>3, <2>1
<1>9. CASE readTake
  <2>1. /\ inputTail' = (inputTail + 1) % Size /\ unread' = unread \ {inputTail}
        /\ pc = "take" /\ pc' = "count" /\ UNCHANGED <<inputHead, inputCount, lapped>>
    BY <1>0, <1>9 DEF readTake
  <2>2. n \in 1 .. Size
    BY <1>1, <2>1
  <2>3. Queued(n - 1)' /\ inputTail \in unread
    BY <1>1, <1>2, <2>1, <2>2, QueueShrinks
  <2>4. IsFiniteSet(unread)' /\ Cardinality(unread)' = n - 1
    BY <1>1, <1>2, <2>1, <2>3, FS_RemoveElement
  <2>5. n - 1 \in 0 .. Size /\ inputCount' = (n - 1) + 1
    BY <1>1, <2>1, <2>2
  <2> QED BY <1>2, <2>1, <2>3, <2>4, <2>5 DEF ExactInv
<1> QED BY <1>4, <1>5, <1>6, <1>7, <1>8, <1>9 DEF ConsoleNext, Reader

LEMMA ExactAlways ==
  ConsoleSpec => [](AsWritten => ExactInv)
<1>1. ConsoleInit => (AsWritten => ExactInv)
  <2> SUFFICES ASSUME ConsoleInit PROVE ExactInv
    OBVIOUS
  <2>1. ConsoleTypeOK /\ 0 \in 0 .. Size
    BY InitEstablishes, ConsoleAssumption DEF ConsoleInv
  <2>2. Around(0) = 0
    BY ConsoleAssumption, Wraps DEF ConsoleInit, Around
  <2>3. Queued(0)
    BY <2>2 DEF ConsoleInit, Queued
  <2>4. IsFiniteSet(unread) /\ Cardinality(unread) = 0
    BY FS_EmptySet DEF ConsoleInit
  <2> QED BY <2>1, <2>3, <2>4 DEF ExactInv, ConsoleInit
<1>2. ConsoleInv /\ ConsoleTypeOK' /\ (AsWritten => ExactInv) /\ [ConsoleNext]_consoleVars => (AsWritten => ExactInv)'
  <2> SUFFICES ASSUME ConsoleInv, ConsoleTypeOK', AsWritten => ExactInv, [ConsoleNext]_consoleVars, AsWritten'
               PROVE  ExactInv'
    OBVIOUS
  <2>1. build' = build
    BY DEF ConsoleNext, irq_keyboard, irq_timer, Reader, readTest, readHalt, readCount, readTake, readReturn, consoleVars
  <2>2. AsWritten
    BY <2>1 DEF AsWritten
  <2> QED BY <2>2, ExactStep
<1> QED BY <1>1, <1>2, ConsoleInvariant, ConsoleTypes, PTL DEF ConsoleSpec

\* In that build the handler adds a key "if not full", never over one not taken, for
\* every size.
THEOREM AddsIfNotFull == ConsoleSpec => [](AsWritten => ~lapped)
<1>1. (AsWritten => ExactInv) => (AsWritten => ~lapped)
  BY DEF ExactInv
<1> QED BY <1>1, ExactAlways, PTL

\* And inputCount is the number of characters in the buffer.
THEOREM CountsAsWritten == ConsoleSpec => [](AsWritten => CountIsContents)
<1>1. (AsWritten => ExactInv) => (AsWritten => CountIsContents)
  BY DEF ExactInv, CountIsContents
<1> QED BY <1>1, ExactAlways, PTL

\* read() takes the oldest key that it has not taken, for every size: as written always,
\* and in every build as long as no key is put over one not taken.
THEOREM ReadsInOrderAlways == ConsoleSpec => []ReadsInOrder
<1>1. ConsoleInv /\ (AsWritten => ~lapped) => ReadsInOrder
  <2> SUFFICES ASSUME ConsoleInv, pc = "take", ~lapped
               PROVE  inputTail \in unread /\ \A s \in unread : Age(inputTail) <= Age(s)
    BY DEF ReadsInOrder
  <2>1. PICK n \in 0 .. Size : Queued(n) /\ ClaimBounds(n)
    BY DEF ConsoleInv, InOrder
  <2>2. n \in 1 .. Size
    BY <2>1, ConsoleAssumption DEF ConsoleInv, ClaimBounds, CopyBounds, ConsoleTypeOK
  <2> QED BY <2>1, <2>2, TailIsOldest DEF ConsoleInv
<1> QED BY <1>1, ConsoleInvariant, AddsIfNotFull, PTL

--------------------------------------------------------------------------------
(* The shell *)

Screen == [video : [1 .. screenSize -> Cell], cursor : 0 .. screenSize]

\* The cells before the cursor are the text.
Shows(s, text) ==
  /\ Len(text) <= s.cursor
  /\ \A i \in 1 .. Len(text) : s.video[(s.cursor - Len(text)) + i] = text[i]

\* The cursor stands behind what is being edited.
ShellInv == TypeOK /\ (at \in {"prompt", "confirm"} => Shows(screen, Edited))

--------------------------------------------------------------------------------
(* Induction *)

\* A set of numbers that is not empty has a least one.
LEMMA LeastOf ==
  ASSUME NEW T \in SUBSET Nat, T # {}
  PROVE  \E x \in T : \A y \in T : x <= y
<1> DEFINE Below == {0 .. n : n \in T}
<1>1. IsWellFoundedOn(StrictSubsetOrdering(Nat), FiniteSubsetsOf(Nat))
  BY FS_StrictSubsetOrderingWellFounded
<1>2. Below \subseteq FiniteSubsetsOf(Nat)
  <2>1. \A n \in T : IsFiniteSet(0 .. n)
    BY FS_Interval
  <2> QED BY <2>1, SMT DEF FiniteSubsetsOf
<1>3. Below # {}
  OBVIOUS
<1>4. PICK s \in Below : \A t \in Below : <<t, s>> \notin StrictSubsetOrdering(Nat)
  <2> HIDE DEF Below
  <2> QED BY <1>1, <1>2, <1>3, WFMin
<1>5. PICK x \in T : s = 0 .. x
  OBVIOUS
<1>6. \A y \in T : x <= y
  <2> SUFFICES ASSUME NEW y \in T, y < x PROVE FALSE
    BY SMT
  <2>1. 0 .. y \in Below
    OBVIOUS
  <2>2. 0 .. y \subseteq s /\ 0 .. y # s
    <3>1. x \in s /\ x \notin 0 .. y
      BY <1>5, SMT
    <3>2. 0 .. y \subseteq s
      BY <1>5, SMT
    <3> QED BY <3>1, <3>2
  <2>3. s \subseteq Nat /\ 0 .. y \subseteq Nat
    BY <1>5, SMT
  <2> QED BY <2>1, <2>2, <2>3, <1>4, Zenon DEF StrictSubsetOrdering
<1> QED BY <1>6

\* What holds at 0 and is handed on holds everywhere.
LEMMA HandedOn ==
  ASSUME NEW T \in SUBSET Nat, 0 \in T, \A n \in T : n + 1 \in T
  PROVE  T = Nat
<1> SUFFICES ASSUME Nat \ T # {} PROVE FALSE
  OBVIOUS
<1>1. PICK x \in Nat \ T : \A y \in Nat \ T : x <= y
  BY LeastOf, Zenon
<1>2. x # 0 /\ x - 1 \in Nat
  BY <1>1, SMT
<1>3. x - 1 \in T
  BY <1>1, <1>2, SMT
<1>4. x - 1 + 1 = x
  BY <1>1, SMT
<1> QED BY <1>1, <1>2, <1>3, <1>4, Zenon

IsRun(g, a, n, F) == g = [k \in 0 .. n |-> IF k = 0 THEN a ELSE F[<<g[k - 1], k>>]]

\* A recursive function over 0 .. n whose step stays in a set exists.
LEMMA Iterated ==
  ASSUME NEW S, NEW a \in S, NEW n \in Nat, NEW F \in [S \X Nat -> S]
  PROVE  \E g \in [0 .. n -> S] : IsRun(g, a, n, F)
<1> DEFINE Run(g, m) == /\ g \in [0 .. m -> S]
                        /\ g[0] = a
                        /\ \A k \in 1 .. m : g[k] = F[<<g[k - 1], k>>]
           T == {m \in Nat : \E g : Run(g, m)}
<1>1. 0 \in T
  <2>1. Run([k \in 0 .. 0 |-> a], 0)
    BY SMT
  <2> QED BY <2>1
<1>2. ASSUME NEW m \in T PROVE m + 1 \in T
  <2>1. PICK g : Run(g, m)
    OBVIOUS
  <2> DEFINE h == [k \in 0 .. m + 1 |-> IF k = m + 1 THEN F[<<g[m], m + 1>>] ELSE g[k]]
  <2>2. m \in Nat
    OBVIOUS
  <2>3. g[m] \in S
    BY <2>1, <2>2, SMT
  <2>4. F[<<g[m], m + 1>>] \in S
    BY <2>3, <2>2, SMT
  <2>5. h \in [0 .. m + 1 -> S] /\ h[0] = a
    BY <2>1, <2>4, <2>2, SMT
  <2>6. ASSUME NEW k \in 1 .. m + 1 PROVE h[k] = F[<<h[k - 1], k>>]
    <3>1. CASE k = m + 1
      <4>1. h[m + 1] = F[<<g[m], m + 1>>]
        BY <2>2, SMT
      <4>2. h[m] = g[m]
        BY <2>2, SMT
      <4>3. k - 1 = m
        BY <3>1, <2>2, SMT
      <4> HIDE DEF h
      <4> QED BY <3>1, <4>1, <4>2, <4>3, Zenon
    <3>2. CASE k # m + 1
      <4>1. k \in 1 .. m /\ k - 1 \in 0 .. m
        BY <3>2, <2>2, SMT
      <4>2. h[k] = g[k] /\ h[k - 1] = g[k - 1]
        BY <4>1, <2>2, SMT
      <4> QED BY <4>1, <4>2, <2>1
    <3> QED BY <3>1, <3>2
  <2>7. Run(h, m + 1)
    <3> HIDE DEF h
    <3> QED BY <2>5, <2>6
  <2> HIDE DEF h, Run
  <2> QED BY <2>7, <2>2, SMT
<1>3. T = Nat
  <2> HIDE DEF T
  <2>1. T \in SUBSET Nat
    BY DEF T
  <2> QED BY <1>1, <1>2, <2>1, HandedOn
<1>4. PICK g : Run(g, n)
  <2> HIDE DEF Run
  <2> QED BY <1>3
<1>5. IsRun(g, a, n, F)
  <2>1. \A k \in 0 .. n : g[k] = IF k = 0 THEN a ELSE F[<<g[k - 1], k>>]
    BY <1>4, SMT
  <2> QED BY <2>1, <1>4, Zenon DEF IsRun
<1> QED BY <1>4, <1>5

--------------------------------------------------------------------------------
(* The screen *)

LEMMA Sizes ==
  /\ screenSize \in Nat /\ Columns <= screenSize
  /\ Columns \in Nat \ {0} /\ Rows \in Nat \ {0}
  /\ Blank \in Cell /\ Printable \subseteq Cell
<1>1. \A c, r \in Nat \ {0} : c * r \in Nat /\ c <= c * r
  <2> SUFFICES ASSUME NEW c \in Nat \ {0}, NEW r \in Nat \ {0} PROVE c * r \in Nat /\ c <= c * r
    OBVIOUS
  <2>1. c * r = c * (r - 1) + c /\ c * (r - 1) >= 0
    BY SMT
  <2> QED BY <2>1, SMT
<1>2. Columns \in Nat \ {0} /\ Rows \in Nat \ {0}
  BY ShellAssumption DEF ShellAssumption
<1> QED BY <1>1, <1>2 DEF screenSize, Cell, Printable, Blank

\* The row after a cell of the screen begins on the screen or just behind it.
LEMMA RowEnds ==
  ASSUME NEW c \in Nat \ {0}, NEW r \in Nat \ {0}, NEW p \in Nat, p < c * r
  PROVE  /\ p % c \in Nat
         /\ (p + c) - (p % c) \in Nat
         /\ p < (p + c) - (p % c)
         /\ (p + c) - (p % c) <= c * r
<1> DEFINE q == p \div c
<1>1. q \in Nat /\ p % c \in Nat /\ p % c < c /\ p = c * q + (p % c)
  BY SMT
<1> HIDE DEF q
<1>2. q < r
  <2> SUFFICES ASSUME q >= r PROVE FALSE
    BY <1>1, SMT
  <2>1. c * q = c * r + c * (q - r) /\ c * (q - r) >= 0
    BY <1>1, SMT
  <2> QED BY <1>1, <2>1, SMT
<1>3. c * r = c * q + c * (r - q) /\ c * (r - q) = c + c * (r - q - 1) /\ c * (r - q - 1) >= 0
  BY <1>1, <1>2, SMT
<1>4. /\ c * q \in Nat /\ c * r \in Nat
  BY <1>1, SMT
<1> QED BY <1>1, <1>3, <1>4, SMT

LEMMA ScrollType ==
  ASSUME NEW s \in Screen
  PROVE  /\ checkScroll(s) \in Screen
         /\ checkScroll(s).cursor < screenSize
<1>1. CASE s.cursor >= screenSize
  <2>1. s.cursor = screenSize
    BY <1>1, Sizes DEF Screen
  <2>2. checkScroll(s) = scroll(s)
    BY <1>1 DEF checkScroll
  <2>3. scroll(s).video \in [1 .. screenSize -> Cell]
    BY Sizes DEF scroll, Screen
  <2>4. scroll(s).cursor \in 0 .. screenSize /\ scroll(s).cursor < screenSize
    BY <2>1, Sizes DEF scroll
  <2> QED BY <2>2, <2>3, <2>4 DEF scroll, Screen
<1>2. CASE s.cursor < screenSize
  BY <1>2, Sizes DEF checkScroll, Screen
<1> QED BY <1>1, <1>2, Sizes DEF Screen

LEMMA WriteType ==
  ASSUME NEW s \in Screen, NEW cell \in Cell
  PROVE  write(s, cell) \in Screen /\ write(s, cell).cursor >= 1
<1> DEFINE t == checkScroll(s)
<1>1. t \in Screen /\ t.cursor < screenSize
  BY ScrollType
<1>2. write(s, cell) = [video |-> [t.video EXCEPT ![t.cursor + 1] = cell], cursor |-> t.cursor + 1]
  BY DEF write
<1> HIDE DEF t
<1>3. [t.video EXCEPT ![t.cursor + 1] = cell] \in [1 .. screenSize -> Cell]
  BY <1>1, Sizes DEF Screen
<1>4. t.cursor + 1 \in 0 .. screenSize /\ t.cursor + 1 >= 1
  BY <1>1, Sizes DEF Screen
<1> QED BY <1>2, <1>3, <1>4 DEF Screen

LEMMA NewlineType ==
  ASSUME NEW s \in Screen
  PROVE  newline(s) \in Screen
<1> DEFINE t == checkScroll(s)
           u == [t EXCEPT !.cursor = @ + Columns - (@ % Columns)]
<1>1. t \in Screen /\ t.cursor < screenSize
  BY ScrollType
<1>2. newline(s) = checkScroll(u)
  BY DEF newline
<1> HIDE DEF t
<1>3. t.cursor \in Nat /\ t.cursor < Columns * Rows
  BY <1>1, Sizes DEF Screen, screenSize
<1>4. t.cursor + Columns - (t.cursor % Columns) \in 0 .. screenSize
  <2> DEFINE m == t.cursor % Columns
  <2>1. m \in Nat /\ (t.cursor + Columns) - m \in Nat /\ (t.cursor + Columns) - m <= Columns * Rows
    BY <1>3, RowEnds, Sizes, Zenon
  <2> HIDE DEF m
  <2>2. (t.cursor + Columns) - m <= screenSize
    BY <2>1, Zenon DEF screenSize
  <2>3. t.cursor + Columns - m \in 0 .. screenSize
    BY <1>3, <2>1, <2>2, Sizes, SMT
  <2> QED BY <2>3 DEF m
<1>5. u \in Screen
  BY <1>1, <1>4 DEF Screen
<1> HIDE DEF u
<1> QED BY <1>2, <1>5, ScrollType

\* A text that leaves a row free stays before the cursor, and the cell joins it.
LEMMA WriteShows ==
  ASSUME NEW s \in Screen, NEW text \in Seq(Cell), NEW cell \in Cell,
         Len(text) + Columns <= screenSize, Shows(s, text)
  PROVE  Shows(write(s, cell), Append(text, cell))
<1> DEFINE t == checkScroll(s)
           w == write(s, cell)
           n == Len(text)
<1>1. t \in Screen /\ t.cursor < screenSize
  BY ScrollType
<1>2. Shows(t, text)
  <2>1. CASE s.cursor >= screenSize
    <3>1. s.cursor = screenSize
      BY <2>1, Sizes DEF Screen
    <3>2. t = scroll(s)
      BY <2>1 DEF checkScroll
    <3>3. t.cursor = s.cursor - Columns
      BY <3>2 DEF scroll
    <3>4. n <= t.cursor
      BY <3>1, <3>3, Sizes
    <3>5. ASSUME NEW i \in 1 .. n
          PROVE  t.video[(t.cursor - n) + i] = text[i]
      <4>1. s.video[(s.cursor - n) + i] = text[i]
        BY DEF Shows
      <4>2. (t.cursor - n) + i \in 1 .. screenSize
        BY <1>1, <3>4, Sizes DEF Screen
      <4>3. ((t.cursor - n) + i) + Columns = (s.cursor - n) + i
        BY <3>1, <3>3, Sizes
      <4>4. ((t.cursor - n) + i) + Columns <= screenSize
        BY <4>3, <3>1, Sizes
      <4>5. t.video[(t.cursor - n) + i] = s.video[((t.cursor - n) + i) + Columns]
        BY <3>2, <4>2, <4>4 DEF scroll
      <4> QED BY <4>1, <4>3, <4>5
    <3> HIDE DEF t
    <3> QED BY <3>4, <3>5 DEF Shows
  <2>2. CASE s.cursor < screenSize
    <3>1. t = s
      BY <2>2, Sizes DEF checkScroll, Screen
    <3> QED BY <3>1
  <2> QED BY <2>1, <2>2, Sizes DEF Screen
<1>3. w.video = [t.video EXCEPT ![t.cursor + 1] = cell] /\ w.cursor = t.cursor + 1
  BY DEF write
<1> HIDE DEF t, w
<1>4. Len(Append(text, cell)) = n + 1 /\ n \in Nat
  OBVIOUS
<1>5. n + 1 <= w.cursor
  BY <1>1, <1>2, <1>3, <1>4, Sizes DEF Screen, Shows
<1>6. ASSUME NEW i \in 1 .. n + 1
      PROVE  w.video[(w.cursor - (n + 1)) + i] = Append(text, cell)[i]
  <2>1. (w.cursor - (n + 1)) + i = (t.cursor - n) + i
    BY <1>1, <1>3, <1>4, Sizes DEF Screen
  <2>2. (t.cursor - n) + i \in 1 .. screenSize
    BY <1>1, <1>2, <1>4, Sizes DEF Screen, Shows
  <2>3. CASE i = n + 1
    <3>1. (t.cursor - n) + i = t.cursor + 1
      BY <2>3, <1>1, <1>4, Sizes DEF Screen
    <3>2. w.video[t.cursor + 1] = cell
      BY <1>1, <1>3, <2>2, <3>1 DEF Screen
    <3>3. Append(text, cell)[n + 1] = cell
      OBVIOUS
    <3> HIDE DEF n
    <3> QED BY <2>1, <2>3, <3>1, <3>2, <3>3, Zenon
  <2>4. CASE i \in 1 .. n
    <3>1. (t.cursor - n) + i # t.cursor + 1
      BY <2>4, <1>1, <1>4, Sizes DEF Screen
    <3>2. w.video[(t.cursor - n) + i] = t.video[(t.cursor - n) + i]
      BY <1>1, <1>3, <2>2, <3>1 DEF Screen
    <3>3. t.video[(t.cursor - n) + i] = text[i]
      BY <1>2, <2>4 DEF Shows
    <3> QED BY <2>1, <2>4, <3>2, <3>3
  <2> QED BY <2>3, <2>4, <1>4
<1> HIDE DEF n
<1> QED BY <1>4, <1>5, <1>6 DEF Shows, w

\* A backspace takes the last cell of the text.
LEMMA EraseShows ==
  ASSUME NEW s \in Screen, NEW text \in Seq(Cell), text # <<>>, Shows(s, text)
  PROVE  putchar(s, Backspace) \in Screen /\ Shows(putchar(s, Backspace), Front(text))
<1> DEFINE n == Len(text)
           c == s.cursor - 1
           p == putchar(s, Backspace)
<1>1. n \in Nat /\ n >= 1 /\ n <= s.cursor
  <2>1. n >= 1
    BY EmptySeq, SMT
  <2> QED BY <2>1 DEF Shows
<1>2. c \in 0 .. screenSize - 1 /\ s.cursor > 0
  BY <1>1, Sizes DEF Screen
<1>3. Retreat(s) \in Screen /\ Retreat(s).cursor = c /\ Retreat(s).video = s.video
  BY <1>2, Sizes, SMTT(30) DEF Screen, Retreat
<1>4. checkScroll(Retreat(s)) = Retreat(s)
  BY <1>2, <1>3, Sizes DEF checkScroll
<1>5. write(Retreat(s), Blank) = [video |-> [s.video EXCEPT ![c + 1] = Blank], cursor |-> c + 1]
  BY <1>3, <1>4, Zenon DEF write
<1>6. p = Retreat(write(Retreat(s), Blank))
  BY <1>2 DEF putchar, Enter, Backspace
<1>7. p.video = [s.video EXCEPT ![c + 1] = Blank] /\ p.cursor = c
  BY <1>2, <1>5, <1>6, Sizes DEF Retreat
<1>8. p \in Screen
  <2>1. [s.video EXCEPT ![c + 1] = Blank] \in [1 .. screenSize -> Cell]
    BY Sizes DEF Screen
  <2>2. write(Retreat(s), Blank) \in [video : [1 .. screenSize -> Cell], cursor : Int]
    BY <1>2, <1>5, <2>1, Sizes
  <2>3. p \in [video : [1 .. screenSize -> Cell], cursor : Int]
    <3> DEFINE w == write(Retreat(s), Blank)
    <3> HIDE DEF w, p
    <3>1. w \in [video : [1 .. screenSize -> Cell], cursor : Int] /\ p = [w EXCEPT !.cursor = @ - 1]
      BY <1>6, <2>2 DEF Retreat, w
    <3> QED BY <3>1
  <2> HIDE DEF p
  <2> QED BY <1>2, <1>7, <2>3, Sizes DEF Screen
<1> DEFINE f == Front(text)
<1> HIDE DEF p
<1>9. f \in Seq(Cell) /\ Len(f) = n - 1 /\ \A i \in 1 .. n - 1 : f[i] = text[i]
  <2>1. \A i \in 1 .. n - 1 : text[i] \in Cell
    BY <1>1
  <2>2. f = SubSeq(text, 1, n - 1)
    BY DEF Front
  <2> HIDE DEF f, n
  <2>3. 1 \in Int /\ n - 1 \in Int
    BY <1>1, SMT
  <2>4. /\ f \in Seq(Cell)
        /\ Len(f) = IF 1 <= n - 1 THEN (n - 1) - 1 + 1 ELSE 0
        /\ \A i \in 1 .. (n - 1) - 1 + 1 : f[i] = text[1 + i - 1]
    BY <2>1, <2>2, <2>3, SubSeqProperties
  <2>5. Len(f) = n - 1
    BY <1>1, <2>4, SMT
  <2>6. \A i \in 1 .. n - 1 : i \in 1 .. (n - 1) - 1 + 1 /\ 1 + i - 1 = i
    BY <1>1, SMT
  <2> QED BY <2>4, <2>5, <2>6
<1>10. n - 1 <= p.cursor
  BY <1>1, <1>2, <1>7, Sizes DEF Screen
<1>11. ASSUME NEW i \in 1 .. n - 1
       PROVE  p.video[(p.cursor - (n - 1)) + i] = f[i]
  <2>1. (p.cursor - (n - 1)) + i = (s.cursor - n) + i
    BY <1>1, <1>2, <1>7, Sizes DEF Screen
  <2>2. (s.cursor - n) + i # c + 1 /\ (s.cursor - n) + i \in 1 .. screenSize
    BY <1>1, <1>2, Sizes DEF Screen
  <2>3. p.video[(s.cursor - n) + i] = s.video[(s.cursor - n) + i]
    BY <1>7, <2>2 DEF Screen
  <2>4. s.video[(s.cursor - n) + i] = text[i]
    BY <1>1 DEF Shows
  <2> QED BY <1>9, <2>1, <2>3, <2>4
<1>12. Shows(p, f)
  <2> HIDE DEF f, n
  <2> QED BY <1>9, <1>10, <1>11 DEF Shows
<1> QED BY <1>8, <1>12 DEF f, p

--------------------------------------------------------------------------------
(* Printing a text *)

Printing(s, text, h) ==
  h = [k \in 0 .. Len(text) |-> IF k = 0 THEN s ELSE write(h[k - 1], text[k])]

\* print writes the cells one after the other.
LEMMA PrintUnfolds ==
  ASSUME NEW s \in Screen, NEW text \in Seq(Cell)
  PROVE  \E h : /\ Printing(s, text, h)
                /\ print(s, text) = h[Len(text)]
                /\ \A k \in 0 .. Len(text) : h[k] \in Screen
<1> DEFINE n == Len(text)
           F == [p \in Screen \X Nat |-> IF p[2] \in 1 .. n THEN write(p[1], text[p[2]]) ELSE p[1]]
           shown == CHOOSE h : Printing(s, text, h)
<1>1. n \in Nat /\ \A k \in 1 .. n : text[k] \in Cell
  OBVIOUS
<1>2. F \in [Screen \X Nat -> Screen]
  <2>1. ASSUME NEW p \in Screen \X Nat
        PROVE  (IF p[2] \in 1 .. n THEN write(p[1], text[p[2]]) ELSE p[1]) \in Screen
    BY <1>1, WriteType
  <2> QED BY <2>1
<1>3. PICK g \in [0 .. n -> Screen] : IsRun(g, s, n, F)
  <2>1. n \in Nat /\ s \in Screen
    BY <1>1
  <2> HIDE DEF F, n
  <2> QED BY <1>2, <2>1, Iterated
<1>4. Printing(s, text, g)
  <2>1. ASSUME NEW k \in 1 .. n PROVE F[<<g[k - 1], k>>] = write(g[k - 1], text[k])
    <3>1. g[k - 1] \in Screen /\ k \in Nat
      BY <1>1, SMT
    <3> QED BY <3>1
  <2> HIDE DEF F, n
  <2>2. \A k \in 0 .. n : (IF k = 0 THEN s ELSE F[<<g[k - 1], k>>])
                          = (IF k = 0 THEN s ELSE write(g[k - 1], text[k]))
    BY <1>1, <2>1, SMT
  <2>3. g = [k \in 0 .. n |-> IF k = 0 THEN s ELSE write(g[k - 1], text[k])]
    BY <1>3, <2>2, Zenon DEF IsRun
  <2> QED BY <2>3 DEF Printing, n
<1>5. Printing(s, text, shown)
  <2> HIDE DEF F, n
  <2> QED BY <1>4, Zenon
<1>6. print(s, text) = shown[n]
  BY DEF print, Printing
<1> HIDE DEF shown
<1>7. \A k \in 1 .. n : shown[k] = write(shown[k - 1], text[k])
  BY <1>1, <1>5, SMT DEF Printing
<1>8. shown[0] = s
  BY <1>1, <1>5, SMT DEF Printing
<1> DEFINE T == {k \in Nat : k <= n => shown[k] \in Screen}
<1>9. T = Nat
  <2>1. 0 \in T
    BY <1>8
  <2>2. ASSUME NEW k \in T PROVE k + 1 \in T
    <3>1. CASE k + 1 <= n
      <4>1. k + 1 \in 1 .. n /\ k + 1 - 1 = k /\ k <= n
        BY <3>1, <1>1
      <4>2. shown[k] \in Screen /\ text[k + 1] \in Cell
        BY <1>1, <4>1
      <4>3. shown[k + 1] = write(shown[k], text[k + 1])
        BY <1>7, <4>1
      <4>4. shown[k + 1] \in Screen
        BY <4>2, <4>3, WriteType
      <4> QED BY <4>1, <4>4
    <3>2. CASE ~(k + 1 <= n)
      BY <3>2
    <3> QED BY <3>1, <3>2
  <2> HIDE DEF T
  <2>3. T \in SUBSET Nat
    BY DEF T
  <2> QED BY <2>1, <2>2, <2>3, HandedOn
<1>10. \A k \in 0 .. n : shown[k] \in Screen
  BY <1>1, <1>9
<1> QED BY <1>5, <1>6, <1>10

LEMMA PrintType ==
  ASSUME NEW s \in Screen, NEW text \in Seq(Cell)
  PROVE  print(s, text) \in Screen
<1>1. Len(text) \in 0 .. Len(text)
  OBVIOUS
<1> QED BY <1>1, PrintUnfolds

LEMMA PrintlnType ==
  ASSUME NEW s \in Screen, NEW text \in Seq(Cell)
  PROVE  println(s, text) \in Screen
BY PrintType, NewlineType DEF println

\* A text that leaves a row free stands before the cursor when it is printed.
LEMMA PrintShows ==
  ASSUME NEW s \in Screen, NEW text \in Seq(Cell), Len(text) + Columns <= screenSize
  PROVE  Shows(print(s, text), text)
<1> DEFINE n == Len(text)
<1>1. PICK h : /\ Printing(s, text, h)
               /\ print(s, text) = h[n]
               /\ \A k \in 0 .. n : h[k] \in Screen
  BY PrintUnfolds
<1>2. n \in Nat
  OBVIOUS
<1>3. \A k \in 1 .. n : h[k] = write(h[k - 1], text[k])
  BY <1>1, <1>2 DEF Printing
<1> DEFINE T == {k \in Nat : k <= n => Shows(h[k], SubSeq(text, 1, k))}
<1>4. T = Nat
  <2>1. 0 \in T
    <3>1. SubSeq(text, 1, 0) = <<>>
      BY SubSeqEmpty
    <3>2. h[0] \in Screen
      BY <1>1, <1>2
    <3>3. Shows(h[0], <<>>)
      BY <3>2, Sizes DEF Shows, Screen
    <3> QED BY <3>1, <3>3
  <2>2. ASSUME NEW k \in T PROVE k + 1 \in T
    <3>1. CASE k + 1 <= n
      <4>1. k + 1 \in 1 .. n /\ k + 1 - 1 = k /\ k \in 0 .. n
        BY <3>1, <1>2
      <4> DEFINE old == SubSeq(text, 1, k)
      <4>2. old \in Seq(Cell) /\ Len(old) = k
        <5>1. \A i \in 1 .. k : text[i] \in Cell
          BY <4>1
        <5> QED BY <4>1, <5>1, SubSeqProperties
      <4>3. SubSeq(text, 1, k + 1) = Append(old, text[k + 1])
        BY <4>1
      <4>4. Shows(h[k], old)
        BY <4>1, SMT
      <4>5. h[k + 1] = write(h[k], text[k + 1]) /\ h[k] \in Screen /\ text[k + 1] \in Cell
        BY <1>1, <1>3, <4>1
      <4>6. Len(old) + Columns <= screenSize
        BY <4>1, <4>2, Sizes
      <4> HIDE DEF old
      <4>7. Shows(write(h[k], text[k + 1]), Append(old, text[k + 1]))
        BY <4>2, <4>4, <4>5, <4>6, WriteShows
      <4>8. Shows(h[k + 1], SubSeq(text, 1, k + 1))
        BY <4>3, <4>5, <4>7
      <4> QED BY <4>1, <4>8
    <3>2. CASE ~(k + 1 <= n)
      BY <3>2
    <3> QED BY <3>1, <3>2
  <2> HIDE DEF T
  <2>3. T \in SUBSET Nat
    BY DEF T
  <2> QED BY <2>1, <2>2, <2>3, HandedOn
<1>5. Shows(h[n], SubSeq(text, 1, n))
  BY <1>2, <1>4
<1>6. SubSeq(text, 1, n) = text
  BY SubSeqFull
<1> QED BY <1>1, <1>5, <1>6

--------------------------------------------------------------------------------
(* The dialogue *)

\* Prompt and Message are texts of cells, and a prompt leaves room for a line.
LEMMA Texts ==
  /\ Prompt \in Seq(Cell) /\ Message \in Seq(Cell)
  /\ LineSize \in Nat /\ LineSize >= 2 /\ AnswerSize \in Nat /\ AnswerSize >= 2
  /\ Len(Prompt) \in Nat
  /\ Len(Prompt) + LineSize - 1 <= screenSize - Columns
  /\ Len(Prompt) + AnswerSize - 1 <= screenSize - Columns
<1>1. ASSUME NEW t \in Seq(STRING), ToSet(t) \subseteq Cell PROVE t \in Seq(Cell)
  <2>1. \A i \in 1 .. Len(t) : t[i] \in Cell
    BY <1>1 DEF ToSet
  <2> QED BY <2>1
<1>2. ToSet(Prompt) \subseteq Cell /\ ToSet(Message) \subseteq Cell
  BY DEF Cell
<1>3. Prompt \in Seq(STRING) /\ Message \in Seq(STRING)
  BY ShellAssumption DEF ShellAssumption
<1> QED BY <1>1, <1>2, <1>3, ShellAssumption DEF ShellAssumption

LEMMA PutcharType ==
  ASSUME NEW s \in Screen, NEW key \in Keys
  PROVE  putchar(s, key) \in Screen
<1>1. CASE key = Enter
  BY <1>1, NewlineType DEF putchar, Enter, Backspace
<1>2. CASE key = Backspace
  <2>1. CASE s.cursor > 0
    <3>1. <<Blank>> \in Seq(Cell) /\ <<Blank>> # <<>>
      BY Sizes
    <3> DEFINE w == write(Retreat(s), Blank)
    <3>2. Retreat(s) \in Screen
      BY <2>1, Sizes DEF Retreat, Screen
    <3>3. w \in Screen /\ w.cursor >= 1
      BY <3>2, Sizes, WriteType
    <3>4. putchar(s, key) = Retreat(w)
      BY <1>2, <2>1 DEF putchar, Enter, Backspace
    <3> HIDE DEF w
    <3> QED BY <3>3, <3>4, Sizes DEF Retreat, Screen
  <2>2. CASE ~(s.cursor > 0)
    BY <1>2, <2>2 DEF putchar, Enter, Backspace
  <2> QED BY <2>1, <2>2
<1>3. CASE key \in Printable
  <2>1. putchar(s, key) = write(s, key)
    BY <1>3 DEF putchar, Enter, Backspace, Printable, Blank
  <2> QED BY <1>3, <2>1, Sizes, WriteType
<1> QED BY <1>1, <1>2, <1>3 DEF Keys

\* The head of the loop of Shell::run.
LEMMA PromptShown ==
  ASSUME NEW s \in Screen, ShowPrompt(s)
  PROVE  ShellInv'
<1>1. at' = "prompt" /\ line' = <<>> /\ screen' = print(s, Prompt)
  BY DEF ShowPrompt
<1>2. Len(Prompt) + Columns <= screenSize
  BY Texts, Sizes
<1>3. print(s, Prompt) \in Screen /\ Shows(print(s, Prompt), Prompt)
  BY <1>2, Texts, PrintType, PrintShows
<1>4. Prompt \o <<>> = Prompt
  BY Texts
<1>5. Edited' = Prompt
  BY <1>1, <1>4 DEF Edited
<1>6. <<>> \in Seq(Printable) /\ Len(<<>>) = 0
  OBVIOUS
<1>7. TypeOK'
  BY <1>1, <1>3, <1>6, Texts DEF TypeOK, BufferSize, Screen
<1> QED BY <1>1, <1>3, <1>5, <1>7 DEF ShellInv

\* A question leaves its own row to the answer.
LEMMA Asked ==
  ASSUME NEW s \in Screen, NEW q \in {"confirm", "shutdown", "format"},
         at' = q, line' = <<>>, screen' = println(s, Message)
  PROVE  ShellInv'
<1>1. screen' \in Screen
  BY Texts, PrintlnType
<1>2. <<>> \in Seq(Printable) /\ Len(<<>>) = 0
  OBVIOUS
<1>3. TypeOK'
  BY <1>1, <1>2, Texts DEF TypeOK, BufferSize, Screen
<1>4. Edited' = <<>>
  BY DEF Edited
<1>5. Shows(screen', <<>>)
  BY <1>1, <1>2, Sizes DEF Shows, Screen
<1> QED BY <1>3, <1>4, <1>5 DEF ShellInv

LEMMA LineDoneStep ==
  ASSUME NEW text, NEW s \in Screen, LineDone(text, s)
  PROVE  ShellInv'
<1> DEFINE t == println(s, Message)
<1>1. t \in Screen /\ clear \in Screen
  BY Texts, PrintlnType, Sizes DEF clear, Screen
<1>2. CASE executeCommand(text, s)
  <2>1. \/ Ask("confirm", s) \/ Ask("shutdown", s)
        \/ ShowPrompt(clear) \/ ShowPrompt(s) \/ ShowPrompt(t)
    BY <1>2 DEF executeCommand
  <2> HIDE DEF t
  <2>2. CASE Ask("confirm", s)
    BY <2>2, Asked DEF Ask
  <2>3. CASE Ask("shutdown", s)
    BY <2>3, Asked DEF Ask
  <2> QED BY <1>1, <2>1, <2>2, <2>3, PromptShown
<1>3. CASE answered(text, s)
  <2>1. CASE at' = "format" /\ line' = <<>> /\ screen' = println(s, Message)
    BY <2>1, Asked
  <2>2. CASE ShowPrompt(t)
    <3> HIDE DEF t
    <3> QED BY <1>1, <2>2, PromptShown
  <2> QED BY <1>3, <2>1, <2>2 DEF answered
<1> QED BY <1>2, <1>3 DEF LineDone

LEMMA EditedCells ==
  ASSUME ShellInv, at \in {"prompt", "confirm"}
  PROVE  /\ Edited \in Seq(Cell)
         /\ Len(line) \in Nat /\ Len(line) + 2 <= BufferSize
         /\ Len(Edited) + Columns < screenSize
<1>1. line \in Seq(Printable) /\ Len(line) <= BufferSize - 2
  BY DEF ShellInv, TypeOK
<1>2. line \in Seq(Cell) /\ Len(line) \in Nat
  BY <1>1, Sizes
<1>3. CASE at = "prompt"
  <2>1. Edited = Prompt \o line /\ BufferSize = LineSize
    BY <1>3 DEF Edited, BufferSize
  <2>2. Prompt \o line \in Seq(Cell) /\ Len(Prompt \o line) = Len(Prompt) + Len(line)
    BY <1>2, Texts
  <2> QED BY <1>1, <1>2, <2>1, <2>2, Texts, Sizes
<1>4. CASE at = "confirm"
  <2>1. Edited = line /\ BufferSize = AnswerSize
    BY <1>4 DEF Edited, BufferSize
  <2> QED BY <1>1, <1>2, <2>1, Texts, Sizes
<1> QED BY <1>3, <1>4

\* A text without its last cell.
LEMMA FrontShorter ==
  ASSUME NEW S, NEW s \in Seq(S), s # <<>>
  PROVE  Front(s) \in Seq(S) /\ Len(Front(s)) = Len(s) - 1
<1> DEFINE n == Len(s)
<1>1. n \in Nat /\ n >= 1
  OBVIOUS
<1>2. Front(s) = [i \in 1 .. n - 1 |-> s[i]]
  BY DEF Front
<1>3. \A i \in 1 .. n - 1 : s[i] \in S
  BY <1>1
<1> HIDE DEF n
<1>4. [i \in 1 .. n - 1 |-> s[i]] \in Seq(S) /\ Len([i \in 1 .. n - 1 |-> s[i]]) = n - 1
  BY <1>1, <1>3
<1> QED BY <1>2, <1>4 DEF n

LEMMA EraseStep ==
  ASSUME ShellInv, at \in {"prompt", "confirm"}, Erase
  PROVE  ShellInv'
<1>1. line # <<>> /\ line' = Front(line) /\ screen' = putchar(screen, Backspace) /\ at' = at
  BY DEF Erase
<1>2. screen \in Screen /\ Shows(screen, Edited) /\ line \in Seq(Printable) /\ Len(line) <= BufferSize - 2
  BY DEF ShellInv, TypeOK, Screen
<1>3. Edited \in Seq(Cell) /\ Len(line) \in Nat
  BY EditedCells
<1>4. Len(line) >= 1
  BY <1>1, <1>2
<1>5. Front(line) \in Seq(Printable) /\ Len(Front(line)) = Len(line) - 1
  BY <1>1, <1>2, FrontShorter, Zenon
<1>6. Edited # <<>> /\ Front(Edited) = Edited'
  <2>1. CASE at = "prompt"
    <3>1. Edited = Prompt \o line /\ Edited' = Prompt \o Front(line)
      BY <1>1, <2>1 DEF Edited
    <3>2. Prompt \in Seq(Cell) /\ line \in Seq(Cell) /\ Len(Prompt) \in Nat
      BY <1>2, Sizes, Texts
    <3>3. Prompt \o line # <<>>
      BY <1>4, <3>2
    <3>4. Front(Prompt \o line) = Prompt \o Front(line)
      <4>1. Len(Prompt \o line) = Len(Prompt) + Len(line)
        BY <3>2
      <4>2. SubSeq(Prompt \o line, 1, Len(Prompt \o line) - 1) = Prompt \o SubSeq(line, 1, Len(line) - 1)
        BY <1>3, <1>4, <3>2, <4>1, SMTT(30)
      <4> QED BY <4>2 DEF Front
    <3> QED BY <3>1, <3>3, <3>4
  <2>2. CASE at = "confirm"
    BY <1>1, <2>2 DEF Edited
  <2> QED BY <2>1, <2>2
<1>7. screen' \in Screen /\ Shows(screen', Edited')
  BY <1>1, <1>2, <1>3, <1>6, EraseShows
<1>8. BufferSize' = BufferSize /\ BufferSize \in Nat
  BY <1>1, Texts DEF BufferSize
<1>9. line' \in Seq(Printable) /\ Len(line') <= BufferSize' - 2
  BY <1>1, <1>2, <1>3, <1>5, <1>8
<1>10. TypeOK'
  BY <1>1, <1>7, <1>9 DEF TypeOK, Screen, ShellInv
<1> QED BY <1>7, <1>10 DEF ShellInv

LEMMA InsertStep ==
  ASSUME ShellInv, at \in {"prompt", "confirm"}, NEW key \in Printable, Insert(key)
  PROVE  ShellInv'
<1> DEFINE text == Append(line, key)
           echo == putchar(screen, key)
<1>1. screen \in Screen /\ Shows(screen, Edited) /\ line \in Seq(Printable)
  BY DEF ShellInv, TypeOK, Screen
<1>2. /\ Edited \in Seq(Cell) /\ Len(line) \in Nat /\ Len(line) + 2 <= BufferSize
      /\ Len(Edited) + Columns < screenSize
  BY EditedCells
<1>3. key \in Cell /\ key \in Keys
  BY Sizes DEF Keys
<1>4. echo = write(screen, key) /\ echo \in Screen
  BY <1>1, <1>3, PutcharType DEF putchar, Printable, Enter, Backspace, Blank
<1>5. CASE Full(text)
  <2>1. LineDone(text, echo)
    BY <1>5 DEF Insert
  <2> HIDE DEF text, echo
  <2> QED BY <1>4, <2>1, LineDoneStep
<1>6. CASE ~Full(text)
  <2>1. line' = text /\ screen' = echo /\ at' = at
    BY <1>6 DEF Insert
  <2>2. BufferSize' = BufferSize /\ BufferSize \in Nat
    BY <2>1, Texts DEF BufferSize
  <2>3. text \in Seq(Printable) /\ Len(text) = Len(line) + 1
    BY <1>1
  <2>4. Len(text) <= BufferSize - 2
    BY <1>2, <1>6, <2>2, <2>3 DEF Full
  <2>5. Edited' = Append(Edited, key)
    <3>1. CASE at = "prompt"
      <4>1. Prompt \in Seq(Cell) /\ line \in Seq(Cell)
        BY <1>1, Sizes, Texts
      <4>2. Prompt \o Append(line, key) = Append(Prompt \o line, key)
        BY <1>3, <4>1
      <4> QED BY <2>1, <3>1, <4>2 DEF Edited
    <3>2. CASE at = "confirm"
      BY <2>1, <3>2 DEF Edited
    <3> QED BY <3>1, <3>2
  <2>6. Len(Edited) + Columns <= screenSize
    BY <1>2, Sizes
  <2>7. Shows(write(screen, key), Append(Edited, key))
    BY <1>1, <1>2, <1>3, <2>6, WriteShows
  <2>8. TypeOK'
    <3> HIDE DEF text, echo
    <3> QED BY <1>4, <2>1, <2>2, <2>3, <2>4 DEF TypeOK, Screen, ShellInv
  <2>9. Shows(screen', Edited')
    BY <1>4, <2>1, <2>5, <2>7
  <2> QED BY <2>8, <2>9 DEF ShellInv
<1> QED BY <1>5, <1>6

LEMMA ReadlineStep ==
  ASSUME ShellInv, readline
  PROVE  ShellInv'
<1>1. at \in {"prompt", "confirm"} /\ screen \in Screen
  BY DEF readline, ShellInv, TypeOK, Screen
<1>2. CASE EndLine
  <2>1. putchar(screen, Enter) \in Screen
    BY <1>1, PutcharType DEF Keys
  <2> QED BY <1>2, <2>1, LineDoneStep DEF EndLine
<1>3. CASE Erase
  BY <1>1, <1>3, EraseStep
<1>4. CASE EraseNothing
  <2>1. UNCHANGED <<at, line, screen>>
    BY <1>4 DEF EraseNothing, vars
  <2> QED BY <2>1 DEF ShellInv, TypeOK, BufferSize, Edited
<1>5. CASE \E key \in Printable : Insert(key)
  BY <1>1, <1>5, InsertStep
<1> QED BY <1>2, <1>3, <1>4, <1>5 DEF readline

LEMMA ShutdownStep ==
  ASSUME ShellInv, cmdShutdown
  PROVE  ShellInv'
<1>1. PICK key \in Keys :
        LET s == newline(putchar(screen, key))
        IN  IF key = "y"
            THEN at' = "off" /\ screen' = println(s, Message) /\ UNCHANGED line
            ELSE ShowPrompt(println(s, Message))
  BY DEF cmdShutdown
<1> DEFINE s == newline(putchar(screen, key))
           t == println(s, Message)
<1>2. screen \in Screen
  BY DEF ShellInv, TypeOK, Screen
<1>3. s \in Screen
  BY <1>2, PutcharType, NewlineType
<1>4. t \in Screen
  <2> HIDE DEF s
  <2> QED BY <1>3, Texts, PrintlnType
<1>5. CASE key = "y"
  <2>1. at' = "off" /\ screen' = t /\ line' = line
    BY <1>1, <1>5
  <2>2. BufferSize = AnswerSize /\ BufferSize' = AnswerSize
    BY <2>1 DEF BufferSize, cmdShutdown
  <2> HIDE DEF t
  <2>3. TypeOK'
    BY <1>4, <2>1, <2>2 DEF ShellInv, TypeOK, Screen
  <2> QED BY <2>1, <2>3 DEF ShellInv
<1>6. CASE key # "y"
  <2>1. ShowPrompt(t)
    BY <1>1, <1>6
  <2> HIDE DEF t
  <2> QED BY <1>4, <2>1, PromptShown
<1> QED BY <1>5, <1>6

\* The invariant holds at the first prompt and every step keeps it.
THEOREM ShellInvariant == Spec => []ShellInv
<1>1. Init => ShellInv
  <2> SUFFICES ASSUME Init PROVE ShellInv
    OBVIOUS
  <2>1. at = "prompt" /\ line = <<>> /\ screen = print(clear, Prompt)
    BY DEF Init
  <2>2. clear \in Screen
    BY Sizes DEF clear, Screen
  <2>3. Len(Prompt) + Columns <= screenSize
    BY Texts, Sizes
  <2>4. screen \in Screen /\ Shows(screen, Prompt)
    BY <2>1, <2>2, <2>3, Texts, PrintType, PrintShows
  <2>5. Edited = Prompt
    <3>1. Prompt \o <<>> = Prompt
      BY Texts
    <3> QED BY <2>1, <3>1 DEF Edited
  <2>6. <<>> \in Seq(Printable) /\ Len(<<>>) = 0
    OBVIOUS
  <2>7. TypeOK
    BY <2>1, <2>4, <2>6, Texts DEF TypeOK, BufferSize, Screen
  <2> QED BY <2>4, <2>5, <2>7 DEF ShellInv
<1>2. ShellInv /\ [Next]_vars => ShellInv'
  <2> SUFFICES ASSUME ShellInv, [Next]_vars PROVE ShellInv'
    OBVIOUS
  <2>1. CASE readline
    BY <2>1, ReadlineStep
  <2>2. CASE cmdShutdown
    BY <2>2, ShutdownStep
  <2>3. CASE formatEnds
    <3>1. screen \in Screen /\ ShowPrompt(println(screen, Message))
      BY <2>3 DEF formatEnds, ShellInv, TypeOK, Screen
    <3>2. println(screen, Message) \in Screen
      BY <3>1, Texts, PrintlnType
    <3> QED BY <3>1, <3>2, PromptShown
  <2>4. CASE UNCHANGED vars
    BY <2>4 DEF vars, ShellInv, TypeOK, BufferSize, Edited
  <2> QED BY <2>1, <2>2, <2>3, <2>4 DEF Next
<1> QED BY <1>1, <1>2, PTL DEF Spec

\* Types for every screen and buffer: the cursor never leaves the screen, and
\* readline never fills the cell of its buffer that the terminating zero needs.
THEOREM ShellTypes == Spec => []TypeOK
<1>1. ShellInv => TypeOK
  BY DEF ShellInv
<1> QED BY <1>1, ShellInvariant, PTL

\* What will be executed is what stands on the screen, however the text was
\* wrapped, scrolled and erased (putchar, checkScroll, readline).
THEOREM ScreenShowsLineAlways == Spec => []ScreenShowsLine
<1>1. ShellInv => ScreenShowsLine
  <2> SUFFICES ASSUME ShellInv, at \in {"prompt", "confirm"}
               PROVE  SubSeq(screen.video, screen.cursor - Len(Edited) + 1, screen.cursor) = Edited
    BY DEF ScreenShowsLine
  <2> DEFINE n == Len(Edited)
             m == screen.cursor - n + 1
             sub == SubSeq(screen.video, m, screen.cursor)
  <2>1. Edited \in Seq(Cell) /\ n \in Nat
    BY EditedCells
  <2>2. screen \in Screen /\ Shows(screen, Edited)
    BY DEF ShellInv, TypeOK, Screen
  <2>3. screen.cursor \in Nat /\ n <= screen.cursor /\ screen.cursor <= screenSize
    BY <2>2, Sizes DEF Screen, Shows
  <2>4. m \in Int /\ m >= 1 /\ screen.cursor \in Int
    BY <2>1, <2>3
  <2>5. \A i \in m .. screen.cursor : screen.video[i] \in Cell
    BY <2>2, <2>3, <2>4, Sizes DEF Screen
  <2>6. /\ sub \in Seq(Cell)
        /\ Len(sub) = IF m <= screen.cursor THEN screen.cursor - m + 1 ELSE 0
        /\ \A i \in 1 .. screen.cursor - m + 1 : sub[i] = screen.video[m + i - 1]
    <3> HIDE DEF m
    <3> QED BY <2>4, <2>5, SubSeqProperties
  <2>7. Len(sub) = n
    <3> HIDE DEF sub
    <3> QED BY <2>1, <2>3, <2>6
  <2>8. ASSUME NEW i \in 1 .. n PROVE sub[i] = Edited[i]
    <3>1. i \in 1 .. screen.cursor - m + 1 /\ m + i - 1 = (screen.cursor - n) + i
      BY <2>1, <2>3
    <3>2. screen.video[(screen.cursor - n) + i] = Edited[i]
      BY <2>2 DEF Shows
    <3> HIDE DEF sub, m
    <3> QED BY <2>6, <3>1, <3>2
  <2> HIDE DEF sub
  <2>9. sub = Edited
    BY <2>1, <2>6, <2>7, <2>8
  <2> QED BY <2>9 DEF sub
<1> QED BY <1>1, ShellInvariant, PTL
================================================================================
