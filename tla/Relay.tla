------------------------------- MODULE Relay -------------------------------
(***************************************************************************)
(* What a proxied session promises the two people it connects: whatever    *)
(* one side emits reaches the other side in order, without a gap and       *)
(* without a repetition, as long as the relay is open and the receiver is  *)
(* still there; nothing is delivered once it is over; and it ends only     *)
(* because a party left or because nothing moved for more than MaxIdle.    *)
(*                                                                         *)
(* A chunk is the serial number its producer gave it, so "in order, no     *)
(* gap, no repetition" is "the last chunk delivered grows by one".         *)
(***************************************************************************)
EXTENDS Naturals

CONSTANTS
  MaxChunks,   \* bound: chunks each side emits
  MaxIdle      \* longest silence the relay tolerates, in ticks

VARIABLES
  sent,        \* sent[d]: last chunk emitted by side d
  got,         \* got[d]: last chunk of side d its peer has received
  gone,        \* gone[d]: side d has left
  open,        \* the relay runs
  quiet        \* ticks since the relay last moved anything

Sides == {"srv", "usr"}

Peer(d) == IF d = "srv" THEN "usr" ELSE "srv"

Init ==
  /\ sent = [d \in Sides |-> 0]
  /\ got  = [d \in Sides |-> 0]
  /\ gone = [d \in Sides |-> FALSE]
  /\ open = TRUE
  /\ quiet = 0

Emit(d) ==
  /\ ~gone[d] /\ sent[d] < MaxChunks
  /\ sent' = [sent EXCEPT ![d] = @ + 1]
  /\ UNCHANGED <<got, gone, open, quiet>>

Leave(d) ==
  /\ ~gone[d]
  /\ gone' = [gone EXCEPT ![d] = TRUE]
  /\ UNCHANGED <<sent, got, open, quiet>>

Deliver(d) ==
  /\ open /\ ~gone[Peer(d)]
  /\ got[d] < sent[d]
  /\ got' = [got EXCEPT ![d] = @ + 1]
  /\ quiet' = 0
  /\ UNCHANGED <<sent, gone, open>>

\* Activity that delivers nothing: a window change, a write that failed.
Stir ==
  /\ open /\ quiet' = 0
  /\ UNCHANGED <<sent, got, gone, open>>

Wait ==
  /\ open /\ quiet' = quiet + 1
  /\ UNCHANGED <<sent, got, gone, open>>

Finish ==
  /\ open /\ open' = FALSE
  /\ (\E d \in Sides : gone[d]) \/ quiet > MaxIdle
  /\ UNCHANGED <<sent, got, gone, quiet>>

Next ==
  \/ \E d \in Sides : Emit(d) \/ Leave(d) \/ Deliver(d)
  \/ Stir \/ Wait \/ Finish

vars == <<sent, got, gone, open, quiet>>

Spec == Init /\ [][Next]_vars
=============================================================================
