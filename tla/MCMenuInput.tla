---------------------------- MODULE MCMenuInput ----------------------------
(* Small instances of MenuInput for TLC. *)
EXTENDS MenuInput
=============================================================================
