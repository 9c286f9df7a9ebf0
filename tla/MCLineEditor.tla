---------------------------- MODULE MCLineEditor ----------------------------
(* One letter and the blank, a prompt of one column, three window widths. *)
EXTENDS LineEditor

CONSTANTS a, sp, mark

MCRune == {a, sp}
MCPrompt == <<mark>>
MCWidths == {1, 2, 3}
=============================================================================
