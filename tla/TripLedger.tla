----------------------------- MODULE TripLedger -----------------------------
(***************************************************************************)
(* What the trip subsystem promises, with every table but the one that     *)
(* matters left out: a trip is opened once, on a bus and by a driver that  *)
(* are both free at that moment, and is closed once.  Opening a trip may   *)
(* close others in the same step (a handover, or the driver's own stale    *)
(* trip); a closed trip is history and never opens again.                  *)
(*                                                                         *)
(* TripLock shows that the PostgreSQL functions implement this module.     *)
(***************************************************************************)
CONSTANTS Drivers, Buses, Trips

VARIABLES
    open,    \* trips under way: records [trip, bus, driver]
    closed   \* trips that are over

vars == <<open, closed>>

OpenTrip == [trip : Trips, bus : Buses, driver : Drivers]

IdsOf(S) == {r.trip : r \in S}

TypeOK ==
    /\ open \in SUBSET OpenTrip
    /\ closed \in SUBSET Trips

Init ==
    /\ open = {}
    /\ closed = {}

(* Some trips end; nothing starts. *)
Close(S) ==
    /\ S \subseteq open
    /\ open' = open \ S
    /\ closed' = closed \cup IdsOf(S)

(* Trip t starts on bus b by driver d, after the trips of S have ended. *)
Open(t, b, d, S) ==
    /\ S \subseteq open
    /\ t \notin closed \cup IdsOf(open)
    /\ \A r \in open \ S : r.bus # b /\ r.driver # d
    /\ open' = (open \ S) \cup {[trip |-> t, bus |-> b, driver |-> d]}
    /\ closed' = closed \cup IdsOf(S)

Next ==
    \/ \E S \in SUBSET open : Close(S)
    \/ \E t \in Trips, b \in Buses, d \in Drivers :
          \E S \in SUBSET open : Open(t, b, d, S)

Spec == Init /\ [][Next]_vars

-----------------------------------------------------------------------------

(* A bus, and a driver, is in at most one open trip; a trip is one record. *)
Exclusive ==
    \A r, q \in open :
        (r.bus = q.bus \/ r.driver = q.driver \/ r.trip = q.trip) => r = q

(* A trip is never both under way and over. *)
OpenOrClosed == IdsOf(open) \cap closed = {}

(* A closed trip stays closed, and an open one keeps its bus and driver    *)
(* until it is closed: nothing vanishes and nothing changes hands.         *)
NothingVanishes ==
    [][/\ closed \subseteq closed'
       /\ \A r \in open : r \in open' \/ r.trip \in closed']_vars
=============================================================================
