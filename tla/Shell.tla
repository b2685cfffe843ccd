--------------------------------- MODULE Shell ---------------------------------
(***************************************************************************)
(* The shell's dialogue: the line editor (Console::readline) with its echo *)
(* on the text screen, the prompt of Shell::run, and the questions of      *)
(* dformat and shutdown.  What the commands do to the disks is             *)
(* Filesystem.tla; how keys reach read() is Console.tla.                   *)
(*                                                                         *)
(* A command line is abstracted to one key per word the dialogue depends   *)
(* on: "d" stands for "dformat fat32", "q" for shutdown, "c" for clear;    *)
(* any other text is a command that prints Message.  A cell of the screen  *)
(* that shows nothing, a space included, is Blank.                         *)
(***************************************************************************)
EXTENDS Integers, Sequences, SequencesExt

CONSTANTS Columns, Rows,     \* of the text screen
          LineSize,          \* bufferSize of Shell::run
          AnswerSize,        \* sizeof(confirmation) in dformat
          Prompt,            \* the cells of the path and "> "
          Message            \* the cells of what a command prints

Blank == " "
Enter == "enter"
Backspace == "backspace"
Printable == {Blank, "d", "q", "c", "y"}
Keys == Printable \cup {Enter, Backspace}
Cell == Printable \cup ToSet(Prompt) \cup ToSet(Message)

screenSize == Columns * Rows

\* What is edited fits on the screen after a scroll: 256 characters and a path
\* against 80 x 24 cells.
ASSUME ShellAssumption ==
  /\ {Columns, Rows} \subseteq Nat \ {0}
  /\ {LineSize, AnswerSize} \subseteq Nat \ {0, 1}
  /\ Prompt \in Seq(STRING) /\ Message \in Seq(STRING)
  /\ \A n \in {LineSize, AnswerSize} : Len(Prompt) + n - 1 <= screenSize - Columns

VARIABLES
  at,       \* which read() the shell is in, "format" or "off"
  line,     \* buffer[0 .. pos - 1] of readline
  screen    \* [video, cursor]

vars == <<at, line, screen>>

--------------------------------------------------------------------------------
\* The text screen.  The cursor may stand just behind the last cell; the next
\* write scrolls first.  It never gets further, so one scroll is enough.
scroll(s) ==
  [video  |-> [i \in 1 .. screenSize |->
                 IF i + Columns <= screenSize THEN s.video[i + Columns] ELSE Blank],
   cursor |-> s.cursor - Columns]

checkScroll(s) == IF s.cursor >= screenSize THEN scroll(s) ELSE s

write(s, cell) ==
  LET t == checkScroll(s)
  IN  [video  |-> [t.video EXCEPT ![t.cursor + 1] = cell],
       cursor |-> t.cursor + 1]

newline(s) ==
  LET t == checkScroll(s)
  IN  checkScroll([t EXCEPT !.cursor = @ + Columns - (@ % Columns)])

print(s, text) ==
  LET shown[k \in 0 .. Len(text)] == IF k = 0 THEN s ELSE write(shown[k - 1], text[k])
  IN  shown[Len(text)]

println(s, text) == newline(print(s, text))

clear == [video |-> [i \in 1 .. screenSize |-> Blank], cursor |-> 0]

Retreat(s) == [s EXCEPT !.cursor = @ - 1]

\* Mutant: no second cursor-- after a backspace.
putcharKeepsCursor(s, key) ==
  CASE key = Enter -> newline(s)
    [] key = Backspace -> IF s.cursor > 0 THEN write(Retreat(s), Blank) ELSE s
    [] OTHER -> write(s, key)

putchar(s, key) ==
  CASE key = Enter -> newline(s)
    [] key = Backspace -> IF s.cursor > 0 THEN Retreat(write(Retreat(s), Blank)) ELSE s
    [] OTHER -> write(s, key)

--------------------------------------------------------------------------------
Words(text) == SelectSeq(text, LAMBDA key : key # Blank)

\* Back to the head of the loop of Shell::run, with s on the screen.
ShowPrompt(s) == at' = "prompt" /\ line' = <<>> /\ screen' = print(s, Prompt)

Ask(question, s) == at' = question /\ line' = <<>> /\ screen' = println(s, Message)

executeCommand(text, s) ==
  CASE Words(text) = <<"d">> -> Ask("confirm", s)
    [] Words(text) = <<"q">> -> Ask("shutdown", s)
    [] Words(text) = <<"c">> -> ShowPrompt(clear)
    [] Words(text) = <<>>    -> ShowPrompt(s)
    [] OTHER                 -> ShowPrompt(println(s, Message))

\* dformat after its question.
answered(text, s) ==
  IF Words(text) = <<"y">>
  THEN at' = "format" /\ line' = <<>> /\ screen' = println(s, Message)
  ELSE ShowPrompt(println(s, Message))

LineDone(text, s) ==
  \/ at = "prompt"  /\ executeCommand(text, s)
  \/ at = "confirm" /\ answered(text, s)

BufferSize == IF at = "prompt" THEN LineSize ELSE AnswerSize

\* Mutant: pos < size in the loop of readline.
FullLate(text) == Len(text) >= BufferSize

Full(text) == Len(text) >= BufferSize - 1

\* One turn of readline's loop.
EndLine == LineDone(line, putchar(screen, Enter))

Erase ==
  /\ line # <<>>
  /\ line' = Front(line)
  /\ screen' = putchar(screen, Backspace)
  /\ UNCHANGED at

EraseNothing == line = <<>> /\ UNCHANGED vars

Insert(key) ==
  LET text == Append(line, key)
      echo == putchar(screen, key)
  IN  IF Full(text) THEN LineDone(text, echo)
                    ELSE line' = text /\ screen' = echo /\ UNCHANGED at

readline ==
  /\ at \in {"prompt", "confirm"}
  /\ EndLine \/ Erase \/ EraseNothing \/ \E key \in Printable : Insert(key)

cmdShutdown ==
  /\ at = "shutdown"
  /\ \E key \in Keys :
       LET s == newline(putchar(screen, key))
       IN  IF key = "y"
           THEN at' = "off" /\ screen' = println(s, Message) /\ UNCHANGED line
           ELSE ShowPrompt(println(s, Message))

formatEnds ==
  /\ at = "format"
  /\ ShowPrompt(println(screen, Message))

Init ==
  /\ at = "prompt" /\ line = <<>>
  /\ screen = print(clear, Prompt)

Next == readline \/ cmdShutdown \/ formatEnds

Spec == Init /\ [][Next]_vars
--------------------------------------------------------------------------------
\* readline leaves room for the terminating zero of its buffer.
TypeOK ==
  /\ at \in {"prompt", "confirm", "shutdown", "format", "off"}
  /\ line \in Seq(Printable) /\ Len(line) <= BufferSize - 2
  /\ screen \in [video  : [1 .. screenSize -> Cell],
                 cursor : 0 .. screenSize]

\* What will be executed is what stands on the screen: through wrapping,
\* scrolling and erasing, the cells before the cursor are the prompt and the
\* line readline has collected.
Edited == IF at = "prompt" THEN Prompt \o line ELSE line
ScreenShowsLine ==
  at \in {"prompt", "confirm"} =>
    SubSeq(screen.video, screen.cursor - Len(Edited) + 1, screen.cursor) = Edited

==============================================================================
