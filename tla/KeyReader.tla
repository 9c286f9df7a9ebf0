------------------------------ MODULE KeyReader ------------------------------
(***************************************************************************)
(* How the bytes a user sends become keys (bytesToKey and readLine in      *)
(* app/utils/teminal.go) and lines of the panel (Displayterm).  A Read may *)
(* end anywhere in a key sequence; what is left over waits in remainder,   *)
(* across lines and across sessions.                                       *)
(*                                                                         *)
(* Bytes are classes: "E" is escape, "P" and "Q" stand for [200 and [201,  *)
(* "t" for ~, "a" for a letter, "n" for what is printable and ends no      *)
(* sequence (digits, dots, [), "r" for Enter, "d" for Ctrl-D, "u" and "v"  *)
(* for the two bytes of a rune, "i" for a byte that is in no rune.  What a *)
(* key does to the line is in LineEditor: here the line is empty or not.   *)
(* Ctrl-C, which ends a line as Enter does, is left out.                   *)
(***************************************************************************)
EXTENDS Integers, Sequences, FiniteSetsExt

CONSTANT
  BufLen     \* length of inBuf (256 in the code; the longest key has 6 bytes, here 3)

ASSUME KeyAssumption == BufLen \in Nat \ {0}

VARIABLES
  wire,      \* what readLoop is writing to the pipe, and Read has not taken
  gone,      \* the user has hung up
  at,        \* "parse" or "read" in readLine, "panel" with a line, "session" or "left"
  got,       \* the Read has bytes to return
  rem,       \* rest, between two reads remainder
  paste,     \* pasteActive
  pasted,    \* lineIsPasted
  empty,     \* the line is empty
  key,       \* what bytesToKey returned last: "none" and "bad" are both RuneError
  lexed,     \* the bytes read so far, taken one by one: keys due, and the last sequence
  typed      \* there is text in the line that was not pasted

readerVars == <<got, rem, paste, pasted, empty, key, lexed, typed>>
vars == <<wire, gone, at, readerVars>>

Byte == {"E", "P", "Q", "t", "a", "n", "r", "d", "u", "v", "i"}
Last == {"t", "a"}                            \* [a-zA-Z~], which end a sequence
PasteStart == <<"E", "P", "t">>
PasteEnd == <<"E", "Q", "t">>
Typing == {<<"n">>, <<"a">>, <<"r">>, <<"d">>, <<"i">>, <<"E">>, <<"u", "v">>,
           <<"E", "n", "a">>, PasteStart, PasteEnd}

Plain(c) == CASE c = "r" -> "enter" [] c = "d" -> "ctrlD" [] OTHER -> "char"
Key == {"char", "enter", "ctrlD", "seq", "start", "end", "none", "bad"}

Init ==
  /\ wire = <<>> /\ gone = FALSE /\ at = "parse" /\ got = FALSE
  /\ rem = <<>> /\ paste = FALSE /\ pasted = FALSE /\ empty = TRUE
  /\ key = "none" /\ typed = FALSE
  /\ lexed = [part |-> <<>>, paste |-> FALSE, due |-> <<>>]

-----------------------------------------------------------------------------
(* bytesToKey *)

Sequence(s, inPaste) ==
  CASE s = PasteStart /\ ~inPaste -> "start"
    [] s = PasteEnd /\ inPaste -> "end"
    [] OTHER -> "seq"

BytesToKey(b, inPaste) ==
  LET Is(k, n) == [key |-> k, rest |-> SubSeq(b, n + 1, Len(b))]
      ends == {k \in 1..Len(b) : b[k] \in Last}
  IN CASE b = <<>> -> Is("none", 0)
       [] b # <<>> /\ b[1] = "E" ->
            IF ends = {} THEN Is("none", 0)
            ELSE Is(Sequence(SubSeq(b, 1, Min(ends)), inPaste), Min(ends))
       [] b = <<"u">> -> Is("none", 0)
       [] Len(b) > 1 /\ b[1] = "u" /\ b[2] = "v" -> Is("char", 2)
       [] (Len(b) > 1 /\ b[1] = "u" /\ b[2] # "v") \/ (b # <<>> /\ b[1] \in {"v", "i"}) ->
            Is("bad", 1)
       [] OTHER -> Is(Plain(b[1]), 1)

NextKey == BytesToKey(rem, paste)

-----------------------------------------------------------------------------
(* The reference: an automaton that sees every byte once.                  *)

Fresh(g, c) ==
  CASE c \in {"E", "u"} -> [g EXCEPT !.part = <<c>>]
    [] c \in {"v", "i"} -> [g EXCEPT !.part = <<>>]
    [] OTHER -> [g EXCEPT !.part = <<>>, !.due = Append(@, Plain(c))]

Lex(g, c) ==
  IF g.part = <<>> THEN Fresh(g, c)
  ELSE IF g.part = <<"u">>
  THEN IF c = "v" THEN [g EXCEPT !.part = <<>>, !.due = Append(@, "char")] ELSE Fresh(g, c)
  ELSE IF c \in Last
  THEN LET k == Sequence(Append(g.part, c), g.paste)
       IN [part |-> <<>>, paste |-> IF k = "start" THEN TRUE ELSE IF k = "end" THEN FALSE ELSE g.paste,
           due |-> Append(g.due, k)]
  ELSE [g EXCEPT !.part = IF Len(@) < 3 THEN Append(@, c) ELSE @]

-----------------------------------------------------------------------------
(* The user and the pipe *)

\* One item at a time: a chunk with several is several that come during one Read.
Type(item) ==
  /\ ~gone /\ wire = <<>>
  /\ wire' = item
  /\ UNCHANGED <<gone, at, readerVars>>

HangUp == ~gone /\ gone' = TRUE /\ UNCHANGED <<wire, at, readerVars>>

\* Read copies into the free part of inBuf and returns after any number of bytes,
Fill ==
  /\ at = "read" /\ wire # <<>> /\ Len(rem) < BufLen
  /\ rem' = Append(rem, Head(wire)) /\ wire' = Tail(wire) /\ got' = TRUE
  /\ lexed' = Lex(lexed, Head(wire))
  /\ UNCHANGED <<gone, at, paste, pasted, empty, key, typed>>

\* or without any when nothing is free, as long as someone writes.
ReadReturns ==
  /\ at = "read"
  /\ got \/ (Len(rem) = BufLen /\ wire # <<>>)
  /\ at' = "parse" /\ got' = FALSE
  /\ UNCHANGED <<wire, gone, rem, paste, pasted, empty, key, lexed, typed>>

NeverFails == FALSE                           \* the pipe is left open
\* The pipe is closed once readLoop has written all: ReadLine fails, the panel ends.
ReadFails ==
  /\ at = "read" /\ ~got /\ wire = <<>> /\ gone
  /\ at' = "left"
  /\ UNCHANGED <<wire, gone, readerVars>>

-----------------------------------------------------------------------------
(* readLine *)

Take(k) ==
  /\ at = "parse" /\ NextKey.key = k
  /\ rem' = NextKey.rest /\ key' = k
  /\ lexed' = [lexed EXCEPT !.due = SubSeq(@, 2, Len(@))]
  /\ UNCHANGED <<wire, gone, got>>

CtrlD ==
  /\ Take("ctrlD") /\ ~paste /\ empty
  /\ at' = "left"
  /\ UNCHANGED <<paste, pasted, empty, typed>>

PasteStartsAlways ==                          \* the length of the line is not looked at
  /\ Take("start") /\ paste' = TRUE /\ pasted' = TRUE
  /\ UNCHANGED <<at, empty, typed>>
PasteStarts ==
  /\ Take("start")
  /\ paste' = TRUE /\ pasted' = (pasted \/ empty)
  /\ UNCHANGED <<at, empty, typed>>

PasteEnds ==
  /\ Take("end")
  /\ paste' = FALSE
  /\ UNCHANGED <<at, pasted, empty, typed>>

TextThenRead ==                               \* one key for each read
  /\ \E k \in {"char", "seq", "ctrlD"} : Take(k) /\ (paste \/ k = "char")
  /\ empty' = FALSE /\ pasted' = (pasted /\ paste) /\ typed' = (typed \/ ~paste)
  /\ at' = "read" /\ UNCHANGED paste
\* Whatever is pasted but Enter becomes text, and so do printable keys.
Text ==
  /\ \E k \in {"char", "seq", "ctrlD"} : Take(k) /\ (paste \/ k = "char")
  /\ empty' = FALSE /\ pasted' = (pasted /\ paste) /\ typed' = (typed \/ ~paste)
  /\ UNCHANGED <<at, paste>>

\* Keys that edit the line, or recall another one.
Edit ==
  /\ ~paste
  /\ Take("seq") \/ (Take("ctrlD") /\ ~empty)
  /\ empty' \in BOOLEAN /\ pasted' = FALSE /\ typed' = ~empty'
  /\ UNCHANGED <<at, paste>>

Enter ==
  /\ Take("enter")
  /\ at' = "panel" /\ empty' = TRUE /\ pasted' = (pasted /\ paste)
  /\ UNCHANGED <<paste, typed>>

AwaitDrops ==                                 \* the partial sequence is not kept
  /\ at = "parse" /\ NextKey.key \in {"none", "bad"}
  /\ at' = "read"
  /\ rem' = <<>> /\ key' = NextKey.key
  /\ UNCHANGED <<wire, gone, got, paste, pasted, empty, lexed, typed>>
\* No key: keep what is left and read.
Await ==
  /\ at = "parse" /\ NextKey.key \in {"none", "bad"}
  /\ at' = "read"
  /\ rem' = NextKey.rest /\ key' = NextKey.key
  /\ UNCHANGED <<wire, gone, got, paste, pasted, empty, lexed, typed>>

-----------------------------------------------------------------------------
(* The panel has a line. *)

\* ErrPasteIndicator is an error like any other, and q leaves.
Leave == at = "panel" /\ at' = "left" /\ UNCHANGED <<wire, gone, readerVars>>

ReadLine ==
  /\ at' = "parse" /\ pasted' = paste /\ typed' = FALSE
  /\ UNCHANGED <<wire, gone, got, rem, paste, empty, key, lexed>>
NextLine == at = "panel" /\ ~pasted /\ ReadLine

OpenSession ==
  /\ at = "panel" /\ ~pasted /\ at' = "session"
  /\ UNCHANGED <<wire, gone, readerVars>>

\* A session takes bytes from the same pipe, and the menu comes back when it ends.
SessionReads ==
  /\ at = "session" /\ wire # <<>> /\ wire' = Tail(wire)
  /\ UNCHANGED <<gone, at, readerVars>>

SessionEnds == at = "session" /\ ReadLine

Terminal ==
  \/ Fill \/ ReadReturns \/ ReadFails
  \/ CtrlD \/ PasteStarts \/ PasteEnds \/ Text \/ Edit \/ Enter \/ Await
  \/ Leave \/ NextLine \/ OpenSession

Next ==
  \/ \E item \in Typing : Type(item)
  \/ HangUp \/ Terminal \/ SessionReads \/ SessionEnds

\* The handler's goroutine runs.  A session need not end, not even when the user is
\* gone: its loop may wait in a write to a remote host that does not read.
Fairness == WF_vars(Terminal)

Spec == Init /\ [][Next]_vars /\ Fairness
-----------------------------------------------------------------------------
(* Properties *)

TypeOK ==
  /\ wire \in Seq(Byte) /\ rem \in Seq(Byte) /\ Len(rem) <= BufLen
  /\ gone \in BOOLEAN /\ got \in BOOLEAN /\ paste \in BOOLEAN
  /\ pasted \in BOOLEAN /\ empty \in BOOLEAN /\ typed \in BOOLEAN
  /\ at \in {"parse", "read", "panel", "session", "left"}
  /\ key \in Key
  /\ lexed \in [part : Seq(Byte), paste : BOOLEAN, due : Seq(Key)]

\* However the bytes are split over reads, lines and sessions, readLine acts on the
\* keys that a reader of the whole stream would see, in their order.
KeysInOrder ==
  [][at = "parse" /\ rem' # rem /\ key' \notin {"none", "bad"} =>
       lexed.due # <<>> /\ key' = Head(lexed.due)]_vars

\* ReadLine asks for more only when every key it has got is dealt with; but a byte
\* that is in no rune makes it wait with the keys behind it (both are RuneError).
WaitsForInput == at = "read" /\ ~got /\ key # "bad" => lexed.due = <<>>

\* A line is reported as pasted, and ends the panel, only if nothing in it was typed.
PastedOnly == at = "panel" /\ pasted => ~typed

\* The buffer is full of a sequence that has not ended: Read gets no room.
Jammed ==
  /\ at \in {"parse", "read"} /\ Len(rem) = BufLen /\ wire # <<>>
  /\ NextKey.key = "none"

\* A user who hangs up is noticed, if a session that is open then ends, and unless the
\* terminal is jammed: nothing then takes from the pipe any more, and the end of the
\* stream does not arrive.
GoneLeaves == WF_vars(gone /\ SessionEnds) => (gone ~> at = "left" \/ Jammed)
=============================================================================
