\* Two campaigns, the daily round and one request at a time; no symmetry.
SPECIFICATION Spec
CONSTANTS
    c1 = c1
    c2 = c2
    Campaigns = {c1, c2}
    Tickets = {t1}
    Audience <- Audiences
    Requests = {r1}
    Cron = Cron
INVARIANTS
    TypeOK
    OncePerTicket
    StatusTellsTruth
PROPERTIES
    DueIsSent
CHECK_DEADLOCK FALSE
