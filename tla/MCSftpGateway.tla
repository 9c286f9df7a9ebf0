--------------------------- MODULE MCSftpGateway ---------------------------
(* Two hosts and three files on one handle: enough for a late close to reach *)
(* a second file, and for that file to be mistaken for a third one.          *)
EXTENDS SftpGateway
=============================================================================
