\* Two students, two one-seat buses, one shift; one request at a time, no overrides.
CONSTANTS
    Students = {u1, u2}
    Buses = {b1, b2}
    Sessions = {s1}
    Shifts = {morning}
    Capacity <- OneSeat
    OverrideBuses = {}
    Ops = {o1}
    Free = Free
SPECIFICATION CalmSpec
SYMMETRY Symmetry
CHECK_DEADLOCK FALSE
INVARIANTS NeverUndercounted SeatsWithinCapacity
