\* An order of one ticket and batches of two, cancellation, refund, edit of the quantity
\* and gate, for ordinary tickets and passes, two requests at once.
SPECIFICATION Spec
CONSTANTS
    o1 = o1
    Requests = {r1, r2}
    Orders = {o1}
    NoOrder = NoOrder
    Size <- Sizes
    BatchSizes = {2}
    Quantities = {3}
    InitialQuantity = 2
    BulkStatuses = {"PENDING", "CANCELLED"}
    MaxTickets = 2
SYMMETRY Handlers
CONSTRAINT Balanced
INVARIANTS
    TypeOK
    NoSeatSoldTwice
    RefundedStaysOut
CHECK_DEADLOCK FALSE
