\* Two orders and one administrator: enough for a reserve that is owed.
SPECIFICATION PayoutsSpec
CONSTANTS
    o1 = o1
    o2 = o2
    Orders = {o1, o2}
    Cart <- Carts
    FeePayer <- OldOrders
    HalvesDown = {105}
    Clerks = {j1}
    None = None
INVARIANT CanBeSettled
CHECK_DEADLOCK FALSE
