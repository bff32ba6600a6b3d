\* Liveness under the cron's fairness; no symmetry.
SPECIFICATION FairSpec
CONSTANTS
    tickets = tickets
    shopOnly = shopOnly
    Payments = {tickets}
    Templates = {t1}
    Workers = {w1, w2}
    NoPayment = NoPayment
    Lines <- OrderLines
PROPERTIES
    EventuallySettled
CHECK_DEADLOCK FALSE
