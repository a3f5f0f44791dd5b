\* Two instances, two drivers with a trip each, one request at a time.
CONSTANTS
    t1 = t1 t2 = t2 d1 = d1 d2 = d2
    Nodes = {n1, n2}
    Drivers = {d1, d2}
    Trips <- TwoTrips
    DriverOf <- TwoDrivers
    Names <- OneName
    Updates = {u1}
    Calls = {s1}
    NoTrip = NoTrip
SPECIFICATION Spec
SYMMETRY Symmetry
INVARIANTS TypeOK
INVARIANTS OwnTrip
PROPERTIES StaysGone
CHECK_DEADLOCK FALSE
