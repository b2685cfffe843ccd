SPECIFICATION Spec
CONSTANTS
  Columns = 3
  Rows = 4
  LineSize = 5
  AnswerSize = 4
  Prompt <- TwoCells
  Message <- OneCell
INVARIANTS TypeOK ScreenShowsLine
\* the machine is off after a confirmed shutdown
CHECK_DEADLOCK FALSE
