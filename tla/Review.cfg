\* Two processes, each a coordinator or a plain run, race for the slots of two days
\* around midnight.  There are three runs for one slot at a time and two a day, of
\* which 30 %, rounded up, are kept for reviews: dropping any of the three limits shows.
SPECIFICATION RepresentativeSpec
CONSTANTS
    r1 = r1
    r2 = r2
    r3 = r3
    RunIds = {r1, r2, r3}
    Days = {1, 2}
    MaxConcurrent = 1
    MaxPerDay = 2
    ReservePercent = 30
    Processes = {p1, p2}
    Roles = {"implementation"}
    implementer = implementer
    s2 = s2
    s3 = s3
    Sessions = {implementer, s2, s3}
    Exclusions <- ImplementerExcluded
INVARIANTS
    WithinLimits
    OwnersHoldReservations
    NoReservationLeaks
    ReviewsAreSeparate
PROPERTIES
    PauseStopsReservedRuns
    ImplementsLedger
    EveryRunEnds
