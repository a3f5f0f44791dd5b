\* One instance, one student, two rows, two requests at a time.
CONSTANTS
    Nodes = {n1}
    Students = {u1}
    MaxFlags = 2
    Posts = {p1, p2}
    Calls = {c1}
    Ticks = {k1}
    Ends = {e1}
    AtOnce = 2
    NoFlag = NoFlag
SPECIFICATION Spec
INVARIANTS TypeOK NoLeftovers
PROPERTIES FinalStays
CHECK_DEADLOCK FALSE
