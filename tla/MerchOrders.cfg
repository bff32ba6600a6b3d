\* An order to pick up and one to deliver want the last piece while the stock is edited, two requests at once.
SPECIFICATION Spec
CONSTANTS
    o1 = o1
    o2 = o2
    v1 = v1
    v2 = v2
    Requests = {r1, r2}
    Orders = {o1, o2}
    Variants = {v1, v2}
    Items <- OrderItems
    Pickup = {o1}
    Stock <- OneEach
    MaxGoods = 2
    Arrivals = {1}
SYMMETRY Handlers
CONSTRAINT OneStale
INVARIANTS
    TypeOK
    StockBalances
    ShortOnlyByLatePayments
    HandedOverOnce
CHECK_DEADLOCK FALSE
