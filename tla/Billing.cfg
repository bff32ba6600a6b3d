\* A month and a pack of two credits are bought, and batches printed, two jobs at once.
SPECIFICATION Spec
CONSTANTS
    plan = plan
    pack = pack
    Payments = {plan, pack}
    Jobs = {j1, j2}
    Quantity <- Quantities
    pro = pro
    basic = basic
    Plans = {pro, basic}
    FreePlan = FreePlan
    NoPlan = NoPlan
    Plan <- PlanPaid
    Included = 1
    Offers <- SomeOffers
    MaxMonths = 1
    MaxChanges = 1
    BatchSizes = {3}
    MaxPrinted = 3
    MaxAttempts = 2
SYMMETRY AnyJob
CONSTRAINT Uncrossed
INVARIANTS
    TypeOK
    GrantedOnce
    CreditsAccounted
    ReceiptsInSequence
    MonthsAccounted
CHECK_DEADLOCK FALSE
