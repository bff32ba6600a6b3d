\* Two orders of one event, two clerks at once.
SPECIFICATION PayoutsSpec
CONSTANTS
    o1 = o1
    o2 = o2
    Orders = {o1, o2}
    Cart <- Carts
    FeePayer <- Payers
    HalvesDown = {105}
    Clerks = {j1, j2}
    None = None
SYMMETRY AnyClerk
CONSTRAINT ClosedForGood
INVARIANTS
    PayoutsTypeOK
    ClosedOwesNothing
PROPERTIES
    ReserveSettles
    RecordedIsTransferred
CHECK_DEADLOCK FALSE
