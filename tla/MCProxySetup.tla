---------------------------- MODULE MCProxySetup ----------------------------
(* Two sessions side by side: enough for one to take away the other's      *)
(* registry entry.                                                         *)
EXTENDS ProxySetup
=============================================================================
