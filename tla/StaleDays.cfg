\* One phone refreshes its list while the days of a tariff are edited.
SPECIFICATION Spec
CONSTANTS
    Phones = {p1}
    Tickets = {t1}
    Requests = {r1}
    MaxTime = 2
    MaxMoves = 2
    Day <- Days
    MaxAge = 1
    MaxTries = 2
    OrganizerActs = {"days"}
INVARIANT DaysReachScanners
CHECK_DEADLOCK FALSE
