-------------------------------- MODULE Console --------------------------------
(***************************************************************************)
(* Keyboard input: the ring that the keyboard interrupt fills and the      *)
(* shell empties (Kernel::Console), with the interrupts of libarch around  *)
(* it.                                                                     *)
(*                                                                         *)
(* Interrupt handlers run through an interrupt gate, so each is one step;  *)
(* it may fall between any two steps of read().  read() shares inputCount  *)
(* with the handler as a plain size_t, neither atomic nor volatile: the    *)
(* build decides in which order its stores are made and whether inputCount *)
(* is decremented in memory or from the value the test loaded.  gcc -O2,   *)
(* the flags of CMakeLists.txt, stores the count first, and from the       *)
(* loaded value.                                                           *)
(*                                                                         *)
(* The names every module has carry this one's, and the keys are Chars:    *)
(* TerminalProofs extends this module together with Shell.                 *)
(***************************************************************************)
EXTENDS Integers, FiniteSets

CONSTANTS
  Chars, NoKey,
  Size,     \* inputBufferSize
  Builds    \* what the compiler may have made of read(), each a set of Liberties

\* inputCount is stored before the character is loaded; it is stored as the value the
\* test loaded, minus one.
Liberties == {"countFirst", "countLoaded"}

ASSUME ConsoleAssumption ==
  /\ NoKey \notin Chars
  /\ Size \in Nat \ {0}
  /\ Builds \subseteq SUBSET Liberties

VARIABLES
  build,     \* the liberties of this build
  inputBuffer, inputHead, inputTail, inputCount,
  pc,        \* the next step of read()
  loaded,    \* the inputCount the test of read() loaded
  ch,        \* the character read() took
  unread,    \* history: the slots with a key that read() has not taken
  lapped     \* history: a key has been put over one that was not taken

ring == <<inputBuffer, inputHead, inputTail, inputCount>>
history == <<unread, lapped>>
consoleVars == <<build, ring, pc, loaded, ch, history>>

AsWritten   == build = {}
CountFirst  == "countFirst" \in build
CountLoaded == "countLoaded" \in build

Slot == 0 .. (Size - 1)

ConsoleInit ==
  /\ build \in Builds
  /\ inputBuffer = [s \in Slot |-> NoKey]
  /\ inputHead = 0 /\ inputTail = 0 /\ inputCount = 0
  /\ pc = "test" /\ loaded = 0 /\ ch = NoKey
  /\ unread = {} /\ lapped = FALSE

--------------------------------------------------------------------------------
\* Mutant: an if instead of a while around the hlt.
WokenWithKey == IF pc = "halted" THEN "take" ELSE pc

\* The interrupts.  Either of them ends a hlt.
Woken == IF pc = "halted" THEN "test" ELSE pc

put(k) ==
  /\ inputBuffer' = [inputBuffer EXCEPT ![inputHead] = k]
  /\ inputHead' = (inputHead + 1) % Size
  /\ inputCount' = inputCount + 1
  /\ unread' = unread \cup {inputHead}
  /\ lapped' = (lapped \/ inputHead \in unread)
  /\ UNCHANGED inputTail

drop == UNCHANGED <<ring, history>>

\* Mutant: inputCount <= inputBufferSize.
onKeyPressOverfull(k) == IF inputCount <= Size THEN put(k) ELSE drop

\* Console::onKeyPress for a key that has a character.
onKeyPress(k) == IF inputCount < Size THEN put(k) ELSE drop

irq_keyboard(k) ==
  /\ onKeyPress(k)
  /\ pc' = Woken
  /\ UNCHANGED <<build, loaded, ch>>

\* Mutant: IRQ 0 is never unmasked.
irq_timerMasked == pc = "halted" /\ UNCHANGED consoleVars

\* The PIT interrupts every millisecond; only a halted processor notices.
irq_timer ==
  /\ pc = "halted"
  /\ pc' = Woken
  /\ UNCHANGED <<build, ring, loaded, ch, history>>

--------------------------------------------------------------------------------
\* read().  After the test come the store of inputCount ("count") and the load
\* of the character with the store of inputTail ("take"), in either order.
readTest ==
  /\ pc = "test"
  /\ loaded' = inputCount
  /\ pc' = IF inputCount = 0 THEN "hlt" ELSE IF CountFirst THEN "count" ELSE "take"
  /\ UNCHANGED <<build, ring, ch, history>>

\* The interrupt the reader hoped for may come before this step: interrupts are
\* not disabled between the test and the hlt.
readHalt ==
  /\ pc = "hlt"
  /\ pc' = "halted"
  /\ UNCHANGED <<build, ring, loaded, ch, history>>

readCount ==
  /\ pc = "count"
  /\ inputCount' = (IF CountLoaded THEN loaded ELSE inputCount) - 1
  /\ pc' = IF CountFirst THEN "take" ELSE "return"
  /\ UNCHANGED <<build, inputBuffer, inputHead, inputTail, loaded, ch, history>>

readTake ==
  /\ pc = "take"
  /\ ch' = inputBuffer[inputTail]
  /\ inputTail' = (inputTail + 1) % Size
  /\ unread' = unread \ {inputTail}
  /\ pc' = IF CountFirst THEN "return" ELSE "count"
  /\ UNCHANGED <<build, inputBuffer, inputHead, inputCount, loaded, lapped>>

\* The shell has dealt with the character and reads the next one.
readReturn ==
  /\ pc = "return"
  /\ pc' = "test"
  /\ UNCHANGED <<build, ring, loaded, ch, history>>

Reader == readTest \/ readHalt \/ readCount \/ readTake \/ readReturn

ConsoleNext == (\E k \in Chars : irq_keyboard(k)) \/ irq_timer \/ Reader

\* The processor executes the shell, and the PIT runs freely.  Nobody has to type.
Fairness == WF_consoleVars(Reader) /\ WF_consoleVars(irq_timer)

ConsoleSpec == ConsoleInit /\ [][ConsoleNext]_consoleVars /\ Fairness
--------------------------------------------------------------------------------
ConsoleTypeOK ==
  /\ build \in Builds
  /\ inputBuffer \in [Slot -> Chars \cup {NoKey}]
  /\ inputHead \in Slot /\ inputTail \in Slot
  /\ inputCount \in 0 .. Size
  /\ pc \in {"test", "hlt", "halted", "count", "take", "return"}
  /\ loaded \in 0 .. Size
  /\ ch \in Chars \cup {NoKey}
  /\ unread \subseteq Slot /\ lapped \in BOOLEAN

\* The keyboard fills the slots in turn, so of those with a key not taken the one
\* nearest ahead of inputHead was filled first.
Age(s) == (s + Size - inputHead) % Size

\* What is typed comes out in order, each key once: when read() takes a slot it has a
\* key not taken, the oldest.  Executed as it is written, read() always does.  In any
\* build it does until a key is put over one not taken, whatever became of the shared
\* counter: a lost update by itself only hides keys, and the wake-up by the timer is
\* not taken for a key.
ReadsInOrder ==
  pc = "take" /\ (AsWritten \/ ~lapped) => inputTail \in unread /\ \A s \in unread : Age(inputTail) <= Age(s)

\* A key that is counted is returned, although the test and the hlt of read() are
\* not one step: a key that arrives in between does not end the hlt, the timer does.
CountedKeysAreRead == (inputCount > 0) ~> (pc = "return")

\* console.cpp:16: inputCount is the "number of characters in buffer", when read()
\* is not in the middle of changing it.
CountIsContents ==
  pc \in {"test", "hlt", "halted", "return"} => inputCount = Cardinality(unread)

==============================================================================
