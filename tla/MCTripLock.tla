----------------------------- MODULE MCTripLock -----------------------------
(* Small instances of TripLock for TLC. *)
EXTENDS TripLock, TLC

Symmetry == Permutations(Drivers) \cup Permutations(Trips) \cup Permutations(Sessions)
=============================================================================
