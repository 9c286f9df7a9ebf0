---------------------------- MODULE MCKeyReader ----------------------------
(* A buffer of the length of the longest key. *)
EXTENDS KeyReader
=============================================================================
