\* One bus, two drivers, two trips, two requests at a time.
CONSTANTS
    Drivers = {d1, d2}
    Buses = {b1}
    Students = {u1}
    Sessions = {s1, s2}
    NoTrip = NoTrip
    Trips = {t1, t2}
    FcmColumns = TRUE
SPECIFICATION LifeSpec
SYMMETRY Symmetry
CHECK_DEADLOCK FALSE
INVARIANTS LifeTypeOK AnnouncedEndIsOver
PROPERTIES NoResurrection
