----------------------------- MODULE LineEditor -----------------------------
(***************************************************************************)
(* The line editor of utils.Terminal (app/utils/teminal.go): handleKey and *)
(* what it calls, the ring of past lines, and SetSize, which the window    *)
(* watcher calls at any time.  KeyReader models where the keys come from.  *)
(*                                                                         *)
(* The terminal keeps a picture of where the cursor of the user's screen   *)
(* is and sends relative moves; term holds this picture and the screen     *)
(* itself, as a VT100 draws it, with rows counted from the prompt.         *)
(*                                                                         *)
(* Not modelled, because the program never gets there: echo off, the       *)
(* completion callback, Write with a prompt on the screen (the panel       *)
(* prints only between lines).  Runes are one column wide, and pasted      *)
(* control characters are left out.                                        *)
(***************************************************************************)
EXTENDS Integers, Sequences, SequencesExt

CONSTANTS
  Rune,       \* printable characters, one of them
  Space,      \* is the blank
  Prompt,     \* the prompt, one mark for each column
  Mark,
  Widths,     \* widths the window may have
  MaxLine,    \* maxLineLength (4096 in the code)
  MaxPasted,  \* bound: length of a line with pasted text in it
  MaxKept,    \* bound: length of a line that enters the history or is put aside
  Depth,      \* defaultNumEntries (100 in the code)
  Rows        \* bound: rows of the screen below the prompt, enough for the longest line

ASSUME EditorAssumption ==
  /\ Space \in Rune /\ Mark \notin Rune
  /\ Prompt \in Seq({Mark}) /\ Prompt # <<>>
  /\ Widths \subseteq Nat \ {0} /\ \E m \in Widths : \A w \in Widths : w <= m
  /\ MaxLine \in Nat /\ MaxPasted \in Nat /\ MaxLine <= MaxPasted
  /\ MaxKept \in Nat /\ MaxKept <= MaxPasted
  /\ Depth \in Nat \ {0}
  /\ Rows \in Nat /\ \A w \in Widths : (Len(Prompt) + MaxPasted) \div w < Rows

VARIABLES
  reading,         \* the panel is in ReadLine
  line,
  pos,
  term,            \* cursorX, cursorY, maxLine, termWidth; the screen: x, y, wrap, cell
  exact,           \* the screen reacted to resizing as the terminal expects
  entries,         \* history
  head,
  size,
  historyIndex,
  historyPending

histVars == <<entries, head, size, historyIndex, historyPending>>
vars == <<reading, line, pos, term, exact, histVars>>

Clamp(v, bound) == IF v < 0 THEN 0 ELSE IF v > bound THEN bound ELSE v

Columns == 0..(Max(Widths) - 1)
Place == (0..Rows) \X Columns
Blanks(n) == [i \in 1..n |-> Space]

-----------------------------------------------------------------------------
(* What is sent to the screen.  A VT100 that has filled the last column    *)
(* waits for the next character before it starts a row.                    *)

Put(t, ch) ==
  LET q == IF t.wrap THEN <<Clamp(t.y + 1, Rows), 0>> ELSE <<t.y, t.x>>
      full == q[2] = t.termWidth - 1
  IN [t EXCEPT !.cell = [@ EXCEPT ![q] = ch],
               !.y = q[1], !.x = IF full THEN q[2] ELSE q[2] + 1, !.wrap = full]

Queue(t, text) == FoldLeft(Put, t, text)

NewRow(t) == [t EXCEPT !.x = 0, !.y = Clamp(@ + 1, Rows), !.wrap = FALSE]

Move(t, down, right) ==
  IF down = 0 /\ right = 0 THEN t
  ELSE [t EXCEPT !.y = Clamp(@ + down, Rows), !.x = Clamp(@ + right, t.termWidth - 1),
                 !.wrap = FALSE]

ClearRows(t, n) ==
  [t EXCEPT !.cell = [q \in Place |-> IF q[1] \in t.y..(t.y + n) THEN Space ELSE @[q]]]

ClearAll(t) ==
  [t EXCEPT !.cell = [q \in Place |-> Space], !.x = 0, !.y = 0, !.wrap = FALSE]

AdvanceCursorNoRow(t, places) ==              \* no "\r\n" at the end of a row
  LET to == t.cursorX + places
      row == t.cursorY + to \div t.termWidth
  IN [t EXCEPT !.cursorX = to % t.termWidth, !.cursorY = row,
               !.maxLine = IF row > @ THEN row ELSE @]
AdvanceCursor(t, places) ==
  LET to == t.cursorX + places
      row == t.cursorY + to \div t.termWidth
      s == [t EXCEPT !.cursorX = to % t.termWidth, !.cursorY = row,
                     !.maxLine = IF row > @ THEN row ELSE @]
  IN IF places > 0 /\ s.cursorX = 0 THEN NewRow(s) ELSE s

\* writeLine sends a row's worth at a time; rows end at the same characters.
WriteLine(t, text) == FoldLeft(LAMBDA u, ch : AdvanceCursor(Put(u, ch), 1), t, text)

MoveCursorToPos(t, p) ==
  LET to == Len(Prompt) + p
      x == to % t.termWidth
      y == to \div t.termWidth
  IN Move([t EXCEPT !.cursorX = x, !.cursorY = y], y - t.cursorY, x - t.cursorX)

DrawLine(t, old, new, p) ==
  MoveCursorToPos(WriteLine(WriteLine(MoveCursorToPos(t, 0), new),
                            Blanks(IF Len(old) > Len(new) THEN Len(old) - Len(new) ELSE 0)), p)

-----------------------------------------------------------------------------
(* Words, with positions counted from 0 as in the code. *)

At(l, k) == l[k + 1]

CountToLeftWordShort(l, p) ==                 \* pos++ forgotten: takes the blank too
  IF p = 0 THEN 0
  ELSE LET word == {k \in 1..(p - 1) : At(l, k) # Space}
           gap == {k \in 1..(IF word = {} THEN 0 ELSE Max(word)) : At(l, k) = Space}
       IN p - (IF gap = {} THEN 0 ELSE Max(gap))
CountToLeftWord(l, p) ==
  IF p = 0 THEN 0
  ELSE LET word == {k \in 1..(p - 1) : At(l, k) # Space}
           gap == {k \in 1..(IF word = {} THEN 0 ELSE Max(word)) : At(l, k) = Space}
       IN p - (IF gap = {} THEN 0 ELSE Max(gap) + 1)

CountToRightWord(l, p) ==
  LET gap == Min({Len(l)} \cup {k \in p..(Len(l) - 1) : At(l, k) = Space})
      word == Min({Len(l)} \cup {k \in gap..(Len(l) - 1) : At(l, k) # Space})
  IN word - p

-----------------------------------------------------------------------------
(* stRingBuffer *)

Add(a) ==
  /\ head' = (head + 1) % Depth
  /\ entries' = [entries EXCEPT ![head'] = a]
  /\ size' = IF size < Depth THEN size + 1 ELSE size

HasEntry(n) == n < size
NthPreviousEntry(n) == entries[IF head - n < 0 THEN head - n + Depth ELSE head - n]

-----------------------------------------------------------------------------

Init ==
  /\ reading = FALSE /\ line = <<>> /\ pos = 0
  /\ \E w \in Widths :
       term = [cursorX |-> 0, cursorY |-> 0, maxLine |-> 0, termWidth |-> w,
               x |-> 0, y |-> 0, wrap |-> FALSE, cell |-> [q \in Place |-> Space]]
  /\ exact = TRUE
  /\ entries = [i \in 0..(Depth - 1) |-> <<>>] /\ head = 0 /\ size = 0
  /\ historyIndex = -1 /\ historyPending = <<>>

\* ReadLine prints the prompt when it believes the row is empty.
StartLine ==
  /\ ~reading /\ reading' = TRUE
  /\ term' = IF term.cursorX = 0 /\ term.cursorY = 0 THEN WriteLine(term, Prompt) ELSE term
  /\ UNCHANGED <<line, pos, exact, histVars>>

\* Home and HostsPage clear the screen and print; the cursor is on a new row.
PanelClears ==
  /\ ~reading
  /\ term' = ClearAll(term) /\ exact' = TRUE
  /\ UNCHANGED <<reading, line, pos, histVars>>

\* The cursor keys.
Go(p) ==
  /\ reading /\ p # pos
  /\ pos' = p /\ term' = MoveCursorToPos(term, p)
  /\ UNCHANGED <<reading, line, exact, histVars>>

Left == pos > 0 /\ Go(pos - 1)
Right == pos < Len(line) /\ Go(pos + 1)
Home == Go(0)
End == Go(Len(line))
AltLeft == Go(pos - CountToLeftWord(line, pos))
AltRight == Go(pos + CountToRightWord(line, pos))

\* addKeyToLine
InsertKeepsPos(r) ==                          \* pos++ forgotten
  /\ line' = SubSeq(line, 1, pos) \o <<r>> \o SubSeq(line, pos + 1, Len(line))
  /\ term' = MoveCursorToPos(WriteLine(term, SubSeq(line', pos + 1, Len(line'))), pos)
  /\ UNCHANGED <<reading, pos, exact, histVars>>
Insert(r) ==
  /\ line' = SubSeq(line, 1, pos) \o <<r>> \o SubSeq(line, pos + 1, Len(line))
  /\ pos' = pos + 1
  /\ term' = MoveCursorToPos(WriteLine(term, SubSeq(line', pos + 1, Len(line'))), pos')
  /\ UNCHANGED <<reading, exact, histVars>>

Typed(r) == reading /\ Len(line) < MaxPasted /\ Len(line) # MaxLine /\ Insert(r)
\* handleKey does not look at the length of a line that is being pasted.
Pasted(r) == reading /\ Len(line) < MaxPasted /\ Insert(r)

\* eraseNPreviousChars, with the cursor at p
Erase(p, n) ==
  LET k == IF p < n THEN p ELSE n
      rest == SubSeq(line, p + 1, Len(line))
      drawn == WriteLine(MoveCursorToPos(term, p - k), rest)
  IN /\ reading /\ k > 0
     /\ line' = SubSeq(line, 1, p - k) \o rest /\ pos' = p - k
     /\ term' = MoveCursorToPos(AdvanceCursor(Queue(drawn, Blanks(k)), k), p - k)
     /\ UNCHANGED <<reading, exact, histVars>>

Backspace == Erase(pos, 1)
DeleteWord == Erase(pos, CountToLeftWord(line, pos))
CtrlU == Erase(pos, pos)
CtrlD == pos < Len(line) /\ Erase(pos + 1, 1)

DeleteLine ==
  /\ reading /\ pos < Len(line)
  /\ line' = SubSeq(line, 1, pos)
  /\ term' = MoveCursorToPos(WriteLine(term, Blanks(Len(line) - pos)), pos)
  /\ UNCHANGED <<reading, pos, exact, histVars>>

SetLineKeepsPos(new) ==                       \* newPos ignored
  /\ line' = new /\ UNCHANGED pos
  /\ term' = DrawLine(term, line, new, pos)
SetLine(new) ==
  /\ line' = new /\ pos' = Len(new)
  /\ term' = DrawLine(term, line, new, Len(new))

UpSavesAlways ==                              \* no test of historyIndex
  /\ reading /\ HasEntry(historyIndex + 1) /\ Len(line) <= MaxKept
  /\ historyPending' = line /\ historyIndex' = historyIndex + 1
  /\ SetLine(NthPreviousEntry(historyIndex + 1))
  /\ UNCHANGED <<reading, exact, entries, head, size>>
Up ==
  /\ reading /\ HasEntry(historyIndex + 1)
  /\ historyIndex = -1 => Len(line) <= MaxKept
  /\ historyPending' = IF historyIndex = -1 THEN line ELSE historyPending
  /\ historyIndex' = historyIndex + 1
  /\ SetLine(NthPreviousEntry(historyIndex + 1))
  /\ UNCHANGED <<reading, exact, entries, head, size>>

Down ==
  /\ reading /\ historyIndex >= 0
  /\ historyIndex = 0 \/ HasEntry(historyIndex - 1)
  /\ SetLine(IF historyIndex = 0 THEN historyPending ELSE NthPreviousEntry(historyIndex - 1))
  /\ historyIndex' = historyIndex - 1
  /\ UNCHANGED <<reading, exact, entries, head, size, historyPending>>

\* "\r\n" after the line; what is below becomes the row of the next prompt.
NextRow(t) ==
  LET s == NewRow(MoveCursorToPos(t, Len(line)))
  IN [s EXCEPT !.cursorX = 0, !.cursorY = 0, !.maxLine = 0, !.y = 0,
               !.cell = [q \in Place |-> IF q[1] + s.y <= Rows THEN @[<<q[1] + s.y, q[2]>>]
                                         ELSE Space]]

\* The key and the end of readLine, which hands entered to the panel.
Submit(entered) ==
  /\ reading /\ reading' = FALSE
  /\ line' = <<>> /\ pos' = 0
  /\ term' = NextRow(term)
  /\ Add(entered) /\ historyIndex' = -1
  /\ UNCHANGED <<exact, historyPending>>

Enter == Len(line) <= MaxKept /\ Submit(line)
CtrlC == Submit(<<>>)

ClearScreen ==
  /\ reading /\ exact' = TRUE
  /\ LET cleared == [ClearAll(term) EXCEPT !.cursorX = 0, !.cursorY = 0]
     IN term' = DrawLine(AdvanceCursor(Queue(cleared, Prompt), Len(Prompt)), line, line, pos)
  /\ UNCHANGED <<reading, line, pos, histVars>>

\* clearAndRepaintLinePlusNPrevious
Repaint(t, n) ==
  LET top == [Move(t, -t.cursorY, -t.cursorX) EXCEPT !.cursorX = 0, !.cursorY = 0]
      prompted == AdvanceCursor(Queue(ClearRows(top, n), Prompt), Len(Prompt))
  IN MoveCursorToPos(WriteLine(prompted, line), pos)

\* SetSize on a wider window: the screen keeps its rows.
Widen(w) ==
  /\ w > term.termWidth
  /\ LET wide == [term EXCEPT !.termWidth = w]
     IN term' = IF line = <<>> /\ term.cursorX = 0 /\ term.cursorY = 0 THEN wide
                ELSE Repaint(wide, term.maxLine)
  /\ UNCHANGED <<reading, line, pos, exact, histVars>>

\* SetSize on a narrower one: terminals differ in what they make of long rows, so
\* the screen is not followed until it is cleared.
Narrow(w) ==
  /\ w < term.termWidth
  /\ LET small == [ClearAll(term) EXCEPT !.termWidth = w, !.cursorX = Clamp(@, w - 1),
                                         !.cursorY = @ * 2]
     IN IF line = <<>> /\ term.cursorX = 0 /\ term.cursorY = 0
        THEN term' = [term EXCEPT !.termWidth = w] /\ UNCHANGED exact
        ELSE term' = Repaint(small, term.maxLine * 2) /\ exact' = FALSE
  /\ UNCHANGED <<reading, line, pos, histVars>>

CursorKey == Left \/ Right \/ Home \/ End \/ AltLeft \/ AltRight
EraseKey == Backspace \/ DeleteWord \/ DeleteLine \/ CtrlU \/ CtrlD

Next ==
  \/ StartLine \/ PanelClears
  \/ \E r \in Rune : Typed(r) \/ Pasted(r)
  \/ CursorKey \/ EraseKey \/ Up \/ Down
  \/ Enter \/ CtrlC \/ ClearScreen
  \/ \E w \in Widths : Widen(w) \/ Narrow(w)

Spec == Init /\ [][Next]_vars
-----------------------------------------------------------------------------
(* Properties *)

\* The line holds printable runes and the cursor is in it; the ring and the walk
\* through it stay within their bounds; the screen is one.
LineType == reading \in BOOLEAN /\ line \in Seq(Rune) /\ pos \in 0..Len(line)
HistoryType ==
  /\ entries \in [0..(Depth - 1) -> Seq(Rune)]
  /\ head \in 0..(Depth - 1) /\ size \in 0..Depth
  /\ historyIndex \in -1..(size - 1) /\ historyPending \in Seq(Rune)
ScreenType ==
  /\ exact \in BOOLEAN
  /\ term.termWidth \in Widths /\ term.cursorX \in 0..(term.termWidth - 1)
  /\ {term.cursorY, term.maxLine} \subseteq Nat
  /\ term.cell \in [Place -> Rune \cup {Mark}]
  /\ <<term.y, term.x>> \in Place
TypeOK == LineType /\ HistoryType /\ ScreenType

\* Whatever keys are pressed and however the window grows, the user sees the prompt,
\* the line and nothing else, and the cursor stands where the next key will act:
\* what the terminal believes of the screen (advanceCursor, maxLine) stays true,
\* at the ends of rows and when a line gets shorter, too.
ScreenShowsLine ==
  exact =>
    LET W == term.termWidth
        text == IF reading THEN Prompt \o line ELSE <<>>
        at == IF reading THEN Len(Prompt) + pos ELSE 0
    IN /\ \A q \in Place :
            LET k == q[1] * W + q[2] + 1
            IN term.cell[q] = IF q[2] < W /\ k <= Len(text) THEN text[k] ELSE Space
       /\ <<term.y, term.x>> = <<at \div W, at % W>> /\ ~term.wrap
       /\ <<term.cursorY, term.cursorX>> = <<term.y, term.x>>

\* The word keys go to the start of the previous or of the next word, as the comments
\* of countToLeftWord and countToRightWord say.  The first comment is wrong, and nothing
\* is claimed here, for a previous word that starts at position 1: the loops do not look
\* at position 0, and the key goes there, over the blank too.
WordsFound ==
  LET starts == {k \in 0..(Len(line) - 1) :
                   At(line, k) # Space /\ (k > 0 => At(line, k - 1) = Space)}
      left == Max({0} \cup {k \in starts : k < pos})
      right == Min({Len(line)} \cup {k \in starts : k > pos})
  IN /\ left # 1 => pos - CountToLeftWord(line, pos) = left
     /\ pos + CountToRightWord(line, pos) = right

\* A key that edits the line changes it on one side of the cursor only, and there by
\* adding one character or taking some away next to the cursor; all keys that erase
\* share eraseNPreviousChars, with the cursor moved first in one case.
EditsAtCursor ==
  LET before == SubSeq(line, 1, pos)
      after == SubSeq(line, pos + 1, Len(line))
      before2 == SubSeq(line', 1, pos')
      after2 == SubSeq(line', pos' + 1, Len(line'))
  IN line' # line /\ reading' /\ historyIndex' = historyIndex =>
       \/ after2 = after /\ \E k \in 0..pos : before2 = SubSeq(line, 1, k)
       \/ after2 = after /\ \E r \in Rune : before2 = Append(before, r)
       \/ before2 = before /\ \E k \in pos..Len(line) : after2 = SubSeq(line, k + 1, Len(line))
EditsLocal == [][EditsAtCursor]_vars

\* The ring buffer, its wrapping indices and the index of the walk implement a plain
\* list of the last Depth lines (Recall).
Past == [i \in 1..size |-> NthPreviousEntry(i - 1)]
RC == INSTANCE Recall WITH past <- Past, place <- historyIndex,
                           pending <- historyPending
RecallImplemented == RC!Spec
=============================================================================
