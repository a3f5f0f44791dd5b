\* Two buses, two drivers, three start requests, two of them at a time.
CONSTANTS
    Drivers = {d1, d2}
    Buses = {b1, b2}
    Students = {u1}
    Sessions = {s1, s2}
    NoTrip = NoTrip
    Trips = {t1, t2, t3}
SPECIFICATION FairSpec
CHECK_DEADLOCK FALSE
INVARIANTS TypeOK Exclusive OneArchiveRow PointerNeverDangles IInv
PROPERTIES HistoryIsFinal ImplementsLedger SilentTripsAreReaped
