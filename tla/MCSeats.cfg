\* One student, two one-seat buses, one shift, two requests at a time; no reassignment
\* is logged.
CONSTANTS
    Students = {u1}
    Buses = {b1, b2}
    Sessions = {s1, s2}
    Shifts = {morning}
    Capacity <- OneSeat
    OverrideBuses = {b1, b2}
    Ops = {}
    Free = Free
SPECIFICATION Spec
SYMMETRY Symmetry
CHECK_DEADLOCK FALSE
INVARIANTS TypeOK
PROPERTIES NoOverbooking
