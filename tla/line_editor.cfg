SPECIFICATION Spec
CONSTANTS
  a = a
  sp = sp
  mark = mark
  Rune <- MCRune
  Space = sp
  Mark = mark
  Prompt <- MCPrompt
  Widths <- MCWidths
  MaxLine = 2
  MaxPasted = 3
  MaxKept = 1
  Depth = 2
  Rows = 6
INVARIANTS TypeOK ScreenShowsLine WordsFound
PROPERTIES EditsLocal RecallImplemented
CHECK_DEADLOCK FALSE
