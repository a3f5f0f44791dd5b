\* Two applications for the same bus of two one-seat buses; the cron job and one other
\* request; one failure.
CONSTANTS
    Apps = {a1, a2}
    Buses = {b1, b2}
    Staff = {s1}
    Crons = {k1}
    Capacity <- OneSeat
    Asked <- SameBus
    Nobody = Nobody
    MaxTrouble = 1
SPECIFICATION CalmSpec
CHECK_DEADLOCK FALSE
INVARIANTS TypeOK SeatsAreAccounted
PROPERTIES RejectedStaysOut ConsumedMeansSeated UpcomingIsServed
