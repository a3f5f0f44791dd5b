\* Two buses, two drivers, two trips; ends and starts do not overlap.
CONSTANTS
    Drivers = {d1, d2}
    Buses = {b1, b2}
    Students = {u1}
    Sessions = {s1, s2}
    NoTrip = NoTrip
    Trips = {t1, t2}
    FcmColumns = FALSE
SPECIFICATION CalmSpec
SYMMETRY Symmetry
CHECK_DEADLOCK FALSE
INVARIANTS TripsAreAccounted AnnouncedOnce
PROPERTIES EndsItsOwn
