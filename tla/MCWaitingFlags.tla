--------------------------- MODULE MCWaitingFlags ---------------------------
(* Small instances of WaitingFlags for TLC. *)
EXTENDS WaitingFlags
=============================================================================
