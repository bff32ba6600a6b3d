\* An order of two lines and a shop-only order, two jobs at once.
SPECIFICATION Spec
CONSTANTS
    tickets = tickets
    shopOnly = shopOnly
    Payments = {tickets, shopOnly}
    Templates = {t1, t2}
    Workers = {w1, w2}
    NoPayment = NoPayment
    Lines <- OrderLines
SYMMETRY Jobs
INVARIANTS
    TypeOK
    IssuedOnce
    DeliveredInFull
    FailedGaveNothing
    RefundedOnce
PROPERTIES
    StatusOnlyForward
    KeepsPromise
CHECK_DEADLOCK FALSE
