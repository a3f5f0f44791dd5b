------------------------------ MODULE MCSeats ------------------------------
(* Small instances of SeatLedger for TLC. *)
EXTENDS SeatLedger, TLC

(* Every bus has one seat per shift. *)
OneSeat == [b \in Buses |-> 1]

Symmetry == Permutations(Students) \cup Permutations(Buses) \cup Permutations(Sessions)
=============================================================================
