---------------------------- MODULE PaymentFlow ----------------------------
(***************************************************************************)
(* The payment row of an order and everything that moves its status: the  *)
(* checkout request (initiatePayment), FlexPay's callback, the success    *)
(* page's poll (getPaymentStatus), the cron (settleStalePayments) and the *)
(* organizer's refund, in src/backend/src/payment/payment.service.ts and  *)
(* src/backend/src/billing/refunds.service.ts.                            *)
(*                                                                         *)
(* Every await is an interleaving point, so a job reads the row in one    *)
(* step and acts on what it read in a later one; an updateMany guarded by *)
(* the status is one step.  A job or a checkout request may die (Crash).  *)
(* Abstracted: prices, names, e-mails, the content of the tickets.  What a *)
(* generated line does to the seats is left open here (GenerateLine or     *)
(* GenerationFails): see TicketStock.                                      *)
(***************************************************************************)
EXTENDS Naturals, FiniteSets

CONSTANTS
    Payments,    \* payment rows, one per checkout
    Templates,   \* ticket categories
    Workers,     \* jobs running in the Node processes
    NoPayment,   \* what an idle job works on
    Lines        \* Lines[p]: the categories ordered ({}: a shop-only order)

ASSUME LinesAssumption == Lines \in [Payments -> SUBSET Templates]
ASSUME NoPaymentAssumption == NoPayment \notin Payments

VARIABLES
    status,       \* payment.status, "NONE" before the row exists
    orderNumber,  \* payment.orderNumber is known
    aged,         \* the row is more than an hour old
    issued,       \* issued[p][t]: batches of tickets generated for line t
    refunds,      \* refund rows of the payment
    request,      \* where its checkout request is
    flexpay,      \* FlexPay's own view of the order; REFUSED also when another amount was paid
    pc, pay, via, todo  \* each job: its step, payment, trigger, lines left

rowVars == <<status, orderNumber, aged, issued, refunds>>
jobVars == <<pc, pay, via, todo>>
vars == <<rowVars, request, flexpay, jobVars>>

Statuses == {"NONE", "PENDING", "PROCESSING", "COMPLETED", "FAILED", "REFUNDED"}
RequestSteps == {"idle", "created", "accepted", "closing", "done", "closed", "dead"}
Steps == {"idle", "verify", "claim", "generate", "fail", "refund"}
Triggers == {"none", "callback", "poll", "cron", "refund"}

TypeOK ==
    /\ status \in [Payments -> Statuses]
    /\ orderNumber \in [Payments -> BOOLEAN]
    /\ aged \in [Payments -> BOOLEAN]
    /\ issued \in [Payments -> [Templates -> Nat]]
    /\ refunds \in [Payments -> Nat]
    /\ request \in [Payments -> RequestSteps]
    /\ flexpay \in [Payments -> {"NONE", "WAITING", "PAID", "REFUSED"}]
    /\ pc \in [Workers -> Steps]
    /\ pay \in [Workers -> Payments \cup {NoPayment}]
    /\ via \in [Workers -> Triggers]
    /\ todo \in [Workers -> SUBSET Templates]

Init ==
    /\ status = [p \in Payments |-> "NONE"]
    /\ orderNumber = [p \in Payments |-> FALSE]
    /\ aged = [p \in Payments |-> FALSE]
    /\ issued = [p \in Payments |-> [t \in Templates |-> 0]]
    /\ refunds = [p \in Payments |-> 0]
    /\ request = [p \in Payments |-> "idle"]
    /\ flexpay = [p \in Payments |-> "NONE"]
    /\ pc = [w \in Workers |-> "idle"]
    /\ pay = [w \in Workers |-> NoPayment]
    /\ via = [w \in Workers |-> "none"]
    /\ todo = [w \in Workers |-> {}]

(***************************************************************************)
(* The checkout request.                                                   *)
(***************************************************************************)
RequestStep(p, from, to) ==
    /\ request[p] = from
    /\ request' = [request EXCEPT ![p] = to]

\* Mutant: the row is created again by a retried request
StoreReopens(p) ==
    /\ RequestStep(p, "accepted", "done")
    /\ orderNumber' = [orderNumber EXCEPT ![p] = TRUE]
    /\ status' = [status EXCEPT ![p] = "VALIDATING"]
    /\ UNCHANGED <<aged, issued, refunds, flexpay, jobVars>>

\* payment.create, once the order passed the checks
CreatePayment(p) ==
    /\ RequestStep(p, "idle", "created")
    /\ status' = [status EXCEPT ![p] = "PENDING"]
    /\ UNCHANGED <<orderNumber, aged, issued, refunds, flexpay, jobVars>>

\* FlexPay takes the order; its answer is still on the way back
FlexPayAccepts(p) ==
    /\ RequestStep(p, "created", "accepted")
    /\ flexpay' = [flexpay EXCEPT ![p] = "WAITING"]
    /\ UNCHANGED <<rowVars, jobVars>>

\* Reserving shop items throws, or FlexPay refuses or cannot be reached
StartFails(p) ==
    /\ RequestStep(p, "created", "closing")
    /\ UNCHANGED <<rowVars, flexpay, jobVars>>

StoreOrderNumber(p) ==
    /\ RequestStep(p, "accepted", "done")
    /\ orderNumber' = [orderNumber EXCEPT ![p] = TRUE]
    /\ UNCHANGED <<status, aged, issued, refunds, flexpay, jobVars>>

\* The answer is lost, or the order number cannot be stored
AnswerLost(p) ==
    /\ RequestStep(p, "accepted", "closing")
    /\ UNCHANGED <<rowVars, flexpay, jobVars>>

\* Mutant: the catch block updates the row whatever its status
CloseAlways(p) ==
    /\ RequestStep(p, "closing", "closed")
    /\ status' = [status EXCEPT ![p] = "FAILED"]
    /\ UNCHANGED <<orderNumber, aged, issued, refunds, flexpay, jobVars>>

\* The catch block: updateMany PENDING -> FAILED
CloseRequest(p) ==
    /\ RequestStep(p, "closing", "closed")
    /\ status' = [status EXCEPT ![p] = IF @ = "PENDING" THEN "FAILED" ELSE @]
    /\ UNCHANGED <<orderNumber, aged, issued, refunds, flexpay, jobVars>>

RequestDies(p) ==
    /\ request[p] \in {"created", "accepted", "closing"}
    /\ request' = [request EXCEPT ![p] = "dead"]
    /\ UNCHANGED <<rowVars, flexpay, jobVars>>

(***************************************************************************)
(* FlexPay and time.                                                       *)
(***************************************************************************)
BuyerDecides(p) ==
    /\ flexpay[p] = "WAITING"
    /\ \E d \in {"PAID", "REFUSED"} : flexpay' = [flexpay EXCEPT ![p] = d]
    /\ UNCHANGED <<rowVars, request, jobVars>>

\* Also while the request hangs: its POST to FlexPay has no timeout
HourPasses(p) ==
    /\ status[p] = "PENDING" /\ ~aged[p]
    /\ aged' = [aged EXCEPT ![p] = TRUE]
    /\ UNCHANGED <<status, orderNumber, issued, refunds, request, flexpay, jobVars>>

(***************************************************************************)
(* The jobs.                                                               *)
(***************************************************************************)
Start(w, p, trigger, step) ==
    /\ pc[w] = "idle"
    /\ pc' = [pc EXCEPT ![w] = step]
    /\ pay' = [pay EXCEPT ![w] = p]
    /\ via' = [via EXCEPT ![w] = trigger]
    /\ UNCHANGED <<rowVars, request, flexpay, todo>>

Goto(w, step) ==
    /\ pc' = [pc EXCEPT ![w] = step]
    /\ UNCHANGED <<pay, via, todo>>

Finish(w) ==
    /\ pc' = [pc EXCEPT ![w] = "idle"]
    /\ pay' = [pay EXCEPT ![w] = NoPayment]
    /\ via' = [via EXCEPT ![w] = "none"]
    /\ todo' = [todo EXCEPT ![w] = {}]

\* FlexPay calls back, any number of times, once it has decided, as a success too
\* when another amount was paid; the body may or may not carry the order number
HandleCallback(w, p) ==
    /\ status[p] = "PENDING"
    /\ \/ flexpay[p] = "REFUSED" /\ Start(w, p, "callback", "fail")
       \/ /\ flexpay[p] \in {"PAID", "REFUSED"}
          /\ \E inBody \in BOOLEAN :
               Start(w, p, "callback",
                     IF orderNumber[p] \/ inBody THEN "verify" ELSE "fail")

\* The success page asks for the status
PollStatus(w, p) ==
    /\ status[p] = "PENDING" /\ orderNumber[p]
    /\ Start(w, p, "poll", "verify")

\* Mutant: orders without an order number are skipped
SettleOnlyKnown(w, p) ==
    /\ status[p] = "PENDING" /\ aged[p] /\ orderNumber[p]
    /\ Start(w, p, "cron", "verify")

SettleStale(w, p) ==
    /\ status[p] = "PENDING" /\ aged[p]
    /\ Start(w, p, "cron", IF orderNumber[p] THEN "verify" ELSE "fail")

\* FlexPay answers the check; whatever is not a success of the amount asked is a
\* rejection, which the poll leaves to the callback and the cron
VerifyAnswers(w) ==
    /\ pc[w] = "verify"
    /\ \/ flexpay[pay[w]] = "PAID" /\ Goto(w, "claim")
       \/ flexpay[pay[w]] # "PAID" /\ via[w] # "poll" /\ Goto(w, "fail")
       \/ flexpay[pay[w]] # "PAID" /\ via[w] = "poll" /\ Finish(w)
    /\ UNCHANGED <<rowVars, request, flexpay>>

VerifyUnreachable(w) ==
    /\ pc[w] = "verify"
    /\ Finish(w)
    /\ UNCHANGED <<rowVars, request, flexpay>>

\* Mutant: failPayment without the condition on the status
FailAlways(w) ==
    /\ pc[w] = "fail"
    /\ status' = [status EXCEPT ![pay[w]] = "FAILED"]
    /\ Finish(w)
    /\ UNCHANGED <<orderNumber, aged, issued, refunds, request, flexpay>>

\* failPayment: updateMany PENDING -> FAILED
FailPayment(w) ==
    /\ pc[w] = "fail"
    /\ status' = [status EXCEPT ![pay[w]] = IF @ = "PENDING" THEN "FAILED" ELSE @]
    /\ Finish(w)
    /\ UNCHANGED <<orderNumber, aged, issued, refunds, request, flexpay>>

\* Mutant: the status checked at the start of the job is trusted
ClaimUnguarded(w) ==
    LET p == pay[w] IN
    /\ pc[w] = "claim"
    /\ status' = [status EXCEPT ![p] = "PROCESSING"]
    /\ pc' = [pc EXCEPT ![w] = "generate"]
    /\ todo' = [todo EXCEPT ![w] = Lines[p]]
    /\ UNCHANGED <<pay, via, orderNumber, aged, issued, refunds, request, flexpay>>

\* updateMany PENDING -> PROCESSING: one job wins, the others stop
Claim(w) ==
    LET p == pay[w] IN
    /\ pc[w] = "claim"
    /\ IF status[p] = "PENDING"
       THEN /\ status' = [status EXCEPT ![p] = "PROCESSING"]
            /\ pc' = [pc EXCEPT ![w] = "generate"]
            /\ todo' = [todo EXCEPT ![w] = Lines[p]]
            /\ UNCHANGED <<pay, via>>
       ELSE Finish(w) /\ UNCHANGED status
    /\ UNCHANGED <<orderNumber, aged, issued, refunds, request, flexpay>>

GenerateLine(w, t) ==
    /\ pc[w] = "generate" /\ t \in todo[w]
    /\ issued' = [issued EXCEPT ![pay[w]][t] = @ + 1]
    /\ todo' = [todo EXCEPT ![w] = @ \ {t}]
    /\ UNCHANGED <<status, orderNumber, aged, refunds, request, flexpay, pc, pay, via>>

\* Mutant: a line that throws is skipped and the others go on
SkipFailedLine(w) ==
    /\ pc[w] = "generate"
    /\ \E t \in todo[w] : todo' = [todo EXCEPT ![w] = @ \ {t}]
    /\ UNCHANGED <<rowVars, request, flexpay, pc, pay, via>>

\* A line throws: the payment is left PROCESSING on purpose
GenerationFails(w) ==
    /\ pc[w] = "generate"
    /\ Finish(w)
    /\ UNCHANGED <<rowVars, request, flexpay>>

Complete(w) ==
    /\ pc[w] = "generate" /\ todo[w] = {}
    /\ status' = [status EXCEPT ![pay[w]] = "COMPLETED"]
    /\ Finish(w)
    /\ UNCHANGED <<orderNumber, aged, issued, refunds, request, flexpay>>

\* The organizer refunds: a check, then a transaction that claims the row
StartRefund(w, p) ==
    /\ status[p] = "COMPLETED"
    /\ Start(w, p, "refund", "refund")

\* Mutant: the refund transaction does not claim the row
RefundUnclaimed(w) ==
    LET p == pay[w] IN
    /\ pc[w] = "refund"
    /\ status' = [status EXCEPT ![p] = "REFUNDED"]
    /\ refunds' = [refunds EXCEPT ![p] = @ + 1]
    /\ Finish(w)
    /\ UNCHANGED <<orderNumber, aged, issued, request, flexpay>>

RefundTx(w) ==
    LET p == pay[w] IN
    /\ pc[w] = "refund"
    /\ IF status[p] = "COMPLETED"
       THEN /\ status' = [status EXCEPT ![p] = "REFUNDED"]
            /\ refunds' = [refunds EXCEPT ![p] = @ + 1]
       ELSE UNCHANGED <<status, refunds>>
    /\ Finish(w)
    /\ UNCHANGED <<orderNumber, aged, issued, request, flexpay>>

\* The process running the job dies; the row stays as it is
Crash(w) ==
    /\ pc[w] # "idle"
    /\ Finish(w)
    /\ UNCHANGED <<rowVars, request, flexpay>>

CheckoutStep(p) ==
    \/ CreatePayment(p) \/ FlexPayAccepts(p) \/ StartFails(p)
    \/ StoreOrderNumber(p) \/ AnswerLost(p) \/ CloseRequest(p) \/ RequestDies(p)

JobStep(w) ==
    \/ \E p \in Payments :
         HandleCallback(w, p) \/ PollStatus(w, p) \/ SettleStale(w, p) \/ StartRefund(w, p)
    \/ VerifyAnswers(w) \/ VerifyUnreachable(w) \/ FailPayment(w) \/ Claim(w)
    \/ \E t \in Templates : GenerateLine(w, t)
    \/ GenerationFails(w) \/ Complete(w) \/ RefundTx(w) \/ Crash(w)

Next ==
    \/ \E p \in Payments : CheckoutStep(p) \/ BuyerDecides(p) \/ HourPasses(p)
    \/ \E w \in Workers : JobStep(w)

Spec == Init /\ [][Next]_vars

(***************************************************************************)
(* Fairness: time passes; a job that can go on does; and for each payment  *)
(* the cron keeps firing, its check is not unreachable for ever and the    *)
(* process does not die for ever at the same step.                         *)
(***************************************************************************)
CronAnswered(w, p) == via[w] = "cron" /\ pay[w] = p /\ VerifyAnswers(w)
FailsRow(w, p) == pay[w] = p /\ FailPayment(w)
ClaimsRow(w, p) == pay[w] = p /\ Claim(w)

Fairness ==
    /\ \A p \in Payments : WF_vars(HourPasses(p))
    /\ \A w \in Workers :
         /\ WF_vars(JobStep(w))
         /\ \A p \in Payments :
              /\ SF_vars(SettleStale(w, p))
              /\ SF_vars(CronAnswered(w, p))
              /\ SF_vars(FailsRow(w, p))
              /\ SF_vars(ClaimsRow(w, p))

FairSpec == Spec /\ Fairness

(***************************************************************************)
(* Properties.                                                             *)
(***************************************************************************)
\* At most one job generates the tickets of a payment, and the row says so
\* (claimAndGenerate's comment; PaymentStatus.PROCESSING in schema.prisma).
OneGenerator ==
    \A v, w \in Workers :
        pc[v] = "generate" =>
            /\ status[pay[v]] = "PROCESSING"
            /\ pc[w] = "generate" /\ pay[w] = pay[v] => v = w

\* However many callbacks, polls and cron runs confirm a payment, each line of
\* the order is generated at most once, and nothing else is.
IssuedOnce ==
    \A p \in Payments, t \in Templates :
        issued[p][t] <= IF t \in Lines[p] THEN 1 ELSE 0

\* A payment shown as completed (and so downloadable and refundable) has all
\* its tickets.
DeliveredInFull ==
    \A p \in Payments :
        status[p] \in {"COMPLETED", "REFUNDED"} =>
            \A t \in Lines[p] : issued[p][t] = 1

\* No ticket leaves before FlexPay confirmed that it holds the money.
PaidFirst ==
    \A p \in Payments :
        (status[p] \in {"PROCESSING", "COMPLETED", "REFUNDED"}
           \/ \E t \in Templates : issued[p][t] > 0) => flexpay[p] = "PAID"

\* A failed payment gave no ticket, whichever job failed it and when.
FailedGaveNothing ==
    \A p \in Payments : status[p] = "FAILED" => \A t \in Templates : issued[p][t] = 0

\* One refund per order, even if two people click at the same time.
RefundedOnce ==
    \A p \in Payments :
        refunds[p] = IF status[p] = "REFUNDED" THEN 1 ELSE 0

\* Whatever a stale job writes, a row only goes forward: a closed or refunded
\* payment never opens again, a completed one is only refunded.
Forward(s) ==
    CASE s = "NONE" -> {"PENDING"}
      [] s = "PENDING" -> {"PROCESSING", "FAILED"}
      [] s = "PROCESSING" -> {"COMPLETED"}
      [] s = "COMPLETED" -> {"REFUNDED"}
      [] OTHER -> {}

StatusOnlyForward ==
    [][\A p \in Payments : status'[p] # status[p] => status'[p] \in Forward(status[p])]_vars

\* No payment stays pending: the callback, the poll or at the latest the cron
\* settles it, also when the checkout request died half-way.
EventuallySettled ==
    \A p \in Payments : status[p] = "PENDING" ~> status[p] # "PENDING"

\* The buyer's view: what the flow promises (see Fulfilment).
PhaseOf(s) ==
    CASE s = "NONE" -> "none"
      [] s = "PENDING" -> "open"
      [] s = "FAILED" -> "lost"
      [] s = "PROCESSING" -> "owed"
      [] s = "COMPLETED" -> "served"
      [] OTHER -> "returned"

Promise == INSTANCE Fulfilment WITH
    Orders <- Payments,
    phase <- [p \in Payments |-> PhaseOf(status[p])],
    taken <- {p \in Payments : flexpay[p] = "PAID"},
    given <- issued,
    returned <- refunds

\* The payment flow implements the promise made to the buyer.
KeepsPromise == Promise!Spec
=============================================================================
