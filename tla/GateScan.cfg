\* One ticket, ordinary or a pass, two scans or changes: two phones scan with two requests
\* under way, or one with one that refreshes its list while the organizer changes the ticket.
SPECIFICATION Spec
CONSTANTS
    Phones = {p1, p2}
    Tickets = {t1}
    Requests = {r1, r2}
    MaxTime = 2
    MaxMoves = 2
    Day <- Days
    MaxAge = 0
    MaxTries = 1
    OrganizerActs = {"CANCELLED", "VALID", "days"}
SYMMETRY Twins
CONSTRAINTS TwoGatesOrLists FewRecords
INVARIANTS
    TypeOK
    ValidOnce
    EntriesRecorded
    QueuedIsUsed
    StaleIsFetchedAgain
CHECK_DEADLOCK FALSE
