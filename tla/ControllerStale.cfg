\* Two processes, two runs, one day: what becomes of the reservations.
SPECIFICATION FairControllerSpec
CONSTANTS
    RunIds = {r1, r2}
    Days = {1}
    MaxConcurrent = 2
    MaxPerDay = 2
    ReservePercent = 30
    Processes = {p1, p2}
    Roles = {"code_review"}
    Sessions = {}
PROPERTIES
    StaleReservationsExpire
