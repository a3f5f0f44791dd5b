----------------------------- MODULE MCGpsGate ------------------------------
(* Small instances of GpsGate for TLC. *)
EXTENDS GpsGate, TLC

CONSTANTS t1, t2, d1, d2

TwoTrips == {t1, t2}
TwoDrivers == t1 :> d1 @@ t2 :> d2
OneDriver == t1 :> d1 @@ t2 :> d1
OneName == <<"bus_1">>
TwoNames == <<"bus_1", "1">>
Symmetry == Permutations(Nodes)
=============================================================================
