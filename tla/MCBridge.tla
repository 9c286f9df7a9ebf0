------------------------------ MODULE MCBridge ------------------------------
(* Small instances of Bridge for TLC. *)
EXTENDS Bridge

\* Two sizes are enough to tell a followed window from a stale one.
MCSizes == {"120x80", "80x24"}
MCPtySize == "120x80"
=============================================================================
