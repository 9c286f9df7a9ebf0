------------------------------- MODULE Recall -------------------------------
(***************************************************************************)
(* What the terminal promises about its history, whatever it stores it in: *)
(* the last Depth lines entered, newest first, can be walked with the up   *)
(* and down keys, and walking all the way down brings back the line that   *)
(* was being typed when the walk began.                                    *)
(***************************************************************************)
EXTENDS Integers, Sequences

CONSTANT Depth

VARIABLES
  line,     \* the line being edited
  past,     \* the lines entered, newest first
  place,    \* how far back the walk is: 0 the newest line, -1 no walk
  pending   \* the line the walk began with

vars == <<line, past, place, pending>>

Init == line = <<>> /\ past = <<>> /\ place = -1 /\ pending = <<>>

\* The keys that change the line itself.
Edit == UNCHANGED <<past, place, pending>>

\* Enter hands the line over, Ctrl-C an empty one.
Submit ==
  /\ \E entered \in {line, <<>>} :
       past' = [i \in 1..(IF Len(past) < Depth THEN Len(past) + 1 ELSE Depth) |->
                  IF i = 1 THEN entered ELSE past[i - 1]]
  /\ line' = <<>> /\ place' = -1
  /\ UNCHANGED pending

Older ==
  /\ place + 1 < Len(past)
  /\ place' = place + 1 /\ line' = past[place' + 1]
  /\ pending' = IF place = -1 THEN line ELSE pending
  /\ UNCHANGED past

Newer ==
  /\ place >= 0
  /\ place' = place - 1 /\ line' = IF place = 0 THEN pending ELSE past[place]
  /\ UNCHANGED <<past, pending>>

Next == Edit \/ Submit \/ Older \/ Newer

Spec == Init /\ [][Next]_vars
=============================================================================
