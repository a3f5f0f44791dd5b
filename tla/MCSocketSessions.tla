--------------------------- MODULE MCSocketSessions ---------------------------
(* Small instances of SocketSessions for TLC.                              *)
EXTENDS SocketSessions
=============================================================================
