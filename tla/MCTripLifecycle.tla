-------------------------- MODULE MCTripLifecycle --------------------------
(* Small instances of TripLifecycle for TLC. *)
EXTENDS TripLifecycle, TLC

Symmetry == Permutations(Drivers) \cup Permutations(Trips) \cup Permutations(Sessions)
                \cup Permutations(Buses)
=============================================================================
