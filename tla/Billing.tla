------------------------------ MODULE Billing ------------------------------
(***************************************************************************)
(* What an organizer pays ZAYA: plans and print credits, the receipts, and *)
(* the printing that uses them, in src/backend/src/billing/                *)
(* billing.service.ts, src/backend/src/subscription/                       *)
(* subscription.service.ts and tickets/ticket-generation.service.ts.       *)
(*                                                                         *)
(* One organizer.  A job keeps what it read between two awaits; an         *)
(* updateMany is one step; a job or a checkout request may die.            *)
(* Abstracted: prices, badges (counted as tickets are), the content of     *)
(* receipts and tickets, the start of the plan and with it the part of its *)
(* quota that is left (any number up to Included), days (months pass while *)
(* no grant is half done).                                                 *)
(***************************************************************************)
EXTENDS Integers, FiniteSets, FiniteSetsExt

CONSTANTS
    Payments,     \* BillingPayment rows
    Jobs,         \* callbacks, status checks, receipts and prints under way
    Quantity,     \* Quantity[p]: print credits bought; 0: p pays a month of the plan
    Plans,        \* paid plans
    FreePlan,     \* the plan of code FREE
    NoPlan,       \* no subscription row
    Plan,         \* Plan[p]: the plan p pays a month of, when Quantity[p] = 0
    Included,     \* tickets a plan includes, at most
    Offers,       \* <<plan, months, active>> an administrator writes; 0 months: for ever
    MaxMonths,    \* bound on the months that pass
    MaxChanges,   \* bound on the changes of plan made without a payment
    BatchSizes,   \* tickets the organizer prints at once
    MaxPrinted,   \* bound on the tickets printed
    MaxAttempts   \* attempts of assignReceiptNumber

ASSUME PaymentsAssumption == IsFiniteSet(Payments) /\ IsFiniteSet(Jobs)
ASSUME QuantityAssumption == Quantity \in [Payments -> Nat]
ASSUME PrintAssumption ==
    /\ Included \in Nat /\ MaxPrinted \in Nat
    /\ BatchSizes \subseteq Nat \ {0}
ASSUME PlanAssumption ==
    /\ Plan \in [Payments -> Plans] /\ FreePlan \notin Plans
    /\ NoPlan \notin Plans \cup {FreePlan}
    /\ Offers \subseteq (Plans \cup {FreePlan}) \X Nat \X BOOLEAN
    /\ MaxMonths \in Nat /\ MaxChanges \in Nat
ASSUME AttemptsAssumption == MaxAttempts \in Nat \ {0}

VARIABLES
    status,    \* BillingPayment.status, "none" before the row exists
    ordered,   \* payments whose orderNumber is stored
    late,      \* payments older than the quarter of an hour left to the payer
    receipt,   \* receiptNumber; 0: none
    checkout,  \* where the checkout request of each payment is
    flexpay,   \* FlexPay's own view of the payment; refused also when another amount was paid
    credits,   \* BillingAccount.ticketCredits
    sub,       \* OrganizerSubscription: plan, expiresAt (0: none), status ACTIVE
    month,     \* the current month
    changes,   \* changes of plan made without a payment
    printed,   \* tickets printed
    job,       \* what each job is doing
    granted,   \* auxiliary: times each payment was granted
    spent,     \* auxiliary: credits that became tickets
    lost,      \* auxiliary: credits taken by a print that died
    due,       \* auxiliary: months paid or offered, neither served nor given up
    crossed    \* auxiliary: a grant wrote over a change it had not seen

planVars == <<sub, month, changes, due, crossed>>
vars == <<status, ordered, late, receipt, checkout, flexpay, credits, planVars, printed,
          job, granted, spent, lost>>
payVars == <<ordered, late, checkout, flexpay>>
printVars == <<printed, spent, lost>>

Idle == [at |-> "idle"]
Ending == {"COMPLETED", "FAILED"}

Row(plan, ends, active) == [plan |-> plan, ends |-> ends, active |-> active]
NoRow == Row(NoPlan, 0, FALSE)
Rows == {NoRow} \cup [plan : Plans \cup {FreePlan}, ends : Nat, active : BOOLEAN]

(***************************************************************************)
(* Type invariant.                                                         *)
(***************************************************************************)
TypeOK ==
    /\ status \in [Payments -> {"none", "PENDING"} \cup Ending]
    /\ ordered \subseteq Payments /\ late \subseteq Payments
    /\ receipt \in [Payments -> 0..Cardinality(Payments)]
    /\ checkout \in [Payments -> {"idle", "created", "accepted", "closing", "over"}]
    /\ flexpay \in [Payments -> {"none", "waiting", "paid", "refused"}]
    /\ credits \in Nat /\ printed \in 0..MaxPrinted
    /\ sub \in Rows /\ month \in 0..MaxMonths /\ changes \in 0..MaxChanges
    /\ due \in Int /\ crossed \in BOOLEAN
    /\ granted \in [Payments -> Nat] /\ spent \in Nat /\ lost \in Nat
    /\ \A j \in Jobs : LET k == job[j] IN
         \/ k = Idle
         \/ k.at \in {"check", "fail", "claim", "grant"} /\ k.payment \in Payments
         \/ /\ k.at \in {"receipt", "number"} /\ k.payment \in Payments
            /\ k.attempt \in 1..MaxAttempts /\ k.grants \in BOOLEAN /\ k.number \in Nat
         \/ k.at = "extend" /\ k.payment \in Payments /\ k.sub \in Rows
         \/ k.at = "quote" /\ k.size \in BatchSizes /\ k.credits \in Nat
         \/ k.at \in {"take", "print", "return"} /\ k.size \in BatchSizes /\ k.taken \in Nat

Init ==
    /\ status = [p \in Payments |-> "none"]
    /\ ordered = {} /\ late = {}
    /\ receipt = [p \in Payments |-> 0]
    /\ checkout = [p \in Payments |-> "idle"]
    /\ flexpay = [p \in Payments |-> "none"]
    /\ credits = 0 /\ printed = 0
    /\ sub = NoRow /\ month = 0 /\ changes = 0 /\ due = 0 /\ crossed = FALSE
    /\ job = [j \in Jobs |-> Idle]
    /\ granted = [p \in Payments |-> 0] /\ spent = 0 /\ lost = 0

At(j, step) == job[j].at = step
Goto(j, step) == job' = [job EXCEPT ![j] = step]
Done(j) == Goto(j, Idle)
Proceed(j, step) == Goto(j, [at |-> step, payment |-> job[j].payment])
SetStatus(p, s) == status' = [status EXCEPT ![p] = s]

(***************************************************************************)
(* The checkout request (start), FlexPay and time.                         *)
(***************************************************************************)
Checkout(p, from, to) ==
    /\ checkout[p] = from
    /\ checkout' = [checkout EXCEPT ![p] = to]
    /\ UNCHANGED <<receipt, credits, planVars, job, granted, printVars>>

CreatePayment(p) ==
    /\ Checkout(p, "idle", "created")
    /\ SetStatus(p, "PENDING")
    /\ UNCHANGED <<ordered, late, flexpay>>

FlexPayAccepts(p) ==
    /\ Checkout(p, "created", "accepted")
    /\ flexpay' = [flexpay EXCEPT ![p] = "waiting"]
    /\ UNCHANGED <<status, ordered, late>>

StoreOrderNumber(p) ==
    /\ Checkout(p, "accepted", "over")
    /\ ordered' = ordered \cup {p}
    /\ UNCHANGED <<status, late, flexpay>>

\* FlexPay refuses or does not answer in time, or the order number is not stored
StartFails(p) ==
    /\ Checkout(p, "created", "closing") \/ Checkout(p, "accepted", "closing")
    /\ UNCHANGED <<status, ordered, late, flexpay>>

\* The catch block, whatever became of the payment meanwhile
CloseCheckout(p) ==
    /\ Checkout(p, "closing", "over")
    /\ SetStatus(p, "FAILED")
    /\ UNCHANGED <<ordered, late, flexpay>>

RequestDies(p) ==
    /\ \E from \in {"created", "accepted", "closing"} : Checkout(p, from, "over")
    /\ UNCHANGED <<status, ordered, late, flexpay>>

PayerDecides(p) ==
    /\ flexpay[p] = "waiting"
    /\ \E d \in {"paid", "refused"} : flexpay' = [flexpay EXCEPT ![p] = d]
    /\ UNCHANGED <<status, ordered, late, receipt, checkout, credits, planVars, job,
                   granted, printVars>>

QuarterPasses(p) ==
    /\ status[p] = "PENDING" /\ p \notin late
    /\ late' = late \cup {p}
    /\ UNCHANGED <<status, ordered, receipt, checkout, flexpay, credits, planVars, job,
                   granted, printVars>>

(***************************************************************************)
(* Confirmation: the callback, or the status page.                         *)
(***************************************************************************)
Start(j, step) ==
    /\ At(j, "idle")
    /\ Goto(j, step)
    /\ UNCHANGED <<status, receipt, credits, planVars, granted, payVars, printVars>>

\* Any number of times; the body may carry the order number
HandleCallback(j, p) ==
    /\ status[p] = "PENDING"
    /\ \/ flexpay[p] = "refused" /\ Start(j, [at |-> "fail", payment |-> p])
       \/ flexpay[p] = "paid" /\ Start(j, [at |-> "check", payment |-> p])

CheckStatus(j, p) ==
    /\ status[p] = "PENDING" /\ p \in ordered
    /\ Start(j, [at |-> "check", payment |-> p])

\* FlexPay confirms; or has nothing yet, which fails a late payment; or cannot be reached
Verify(j) ==
    /\ At(j, "check")
    /\ LET p == job[j].payment IN
       \/ flexpay[p] = "paid" /\ Proceed(j, "claim")
       \/ flexpay[p] # "paid" /\ p \in late /\ Proceed(j, "fail")
       \/ Done(j)
    /\ UNCHANGED <<status, receipt, credits, planVars, granted, payVars, printVars>>

Fail(j) ==
    /\ At(j, "fail")
    /\ status' = [status EXCEPT ![job[j].payment] = IF @ = "PENDING" THEN "FAILED" ELSE @]
    /\ Done(j)
    /\ UNCHANGED <<receipt, credits, planVars, granted, payVars, printVars>>

AskNumber(p, attempt, grants) ==
    [at |-> "receipt", payment |-> p, attempt |-> attempt, grants |-> grants, number |-> 0]

\* Mutant: the status read before the check is trusted
ClaimUnguarded(j) ==
    /\ At(j, "claim")
    /\ SetStatus(job[j].payment, "COMPLETED")
    /\ Goto(j, AskNumber(job[j].payment, 1, TRUE))
    /\ UNCHANGED <<receipt, credits, planVars, granted, payVars, printVars>>

\* One job completes the payment and grants it
Claim(j) ==
    LET p == job[j].payment IN
    /\ At(j, "claim")
    /\ IF status[p] = "PENDING"
       THEN SetStatus(p, "COMPLETED") /\ Goto(j, AskNumber(p, 1, TRUE))
       ELSE Done(j) /\ UNCHANGED status
    /\ UNCHANGED <<receipt, credits, planVars, granted, payVars, printVars>>

(***************************************************************************)
(* The receipt number: the highest one plus one, asked again when another  *)
(* payment took it (the column is unique).                                 *)
(***************************************************************************)
\* The organizer downloads a receipt that has no number yet
AskReceipt(j, p) ==
    /\ status[p] = "COMPLETED" /\ receipt[p] = 0
    /\ Start(j, AskNumber(p, 1, FALSE))

Numbers == {receipt[p] : p \in Payments}

ReadNumbers(j) ==
    /\ At(j, "receipt")
    /\ Goto(j, [job[j] EXCEPT !.at = "number", !.number = Max(Numbers) + 1])
    /\ UNCHANGED <<status, receipt, credits, planVars, granted, payVars, printVars>>

AfterNumber(j) == IF job[j].grants THEN Proceed(j, "grant") ELSE Done(j)

\* Mutant: a number given meanwhile is replaced
RenumberTaken(j) ==
    /\ At(j, "number")
    /\ IF job[j].number \in Numbers
       THEN /\ IF job[j].attempt < MaxAttempts
               THEN Goto(j, AskNumber(job[j].payment, job[j].attempt + 1, job[j].grants))
               ELSE AfterNumber(j)
            /\ UNCHANGED receipt
       ELSE receipt' = [receipt EXCEPT ![job[j].payment] = job[j].number] /\ AfterNumber(j)
    /\ UNCHANGED <<status, credits, planVars, granted, payVars, printVars>>

AssignNumber(j) ==
    LET p == job[j].payment IN
    /\ At(j, "number")
    /\ \/ receipt[p] # 0 /\ AfterNumber(j) /\ UNCHANGED receipt
       \/ /\ receipt[p] = 0 /\ job[j].number \notin Numbers
          /\ receipt' = [receipt EXCEPT ![p] = job[j].number]
          /\ AfterNumber(j)
       \/ /\ receipt[p] = 0 /\ job[j].number \in Numbers
          /\ IF job[j].attempt < MaxAttempts
             THEN Goto(j, AskNumber(p, job[j].attempt + 1, job[j].grants))
             ELSE AfterNumber(j)
          /\ UNCHANGED receipt
    /\ UNCHANGED <<status, credits, planVars, granted, payVars, printVars>>

(***************************************************************************)
(* The grant: credits are incremented, a plan is read then written.        *)
(***************************************************************************)
Granted(p) == granted' = [granted EXCEPT ![p] = @ + 1]

AddCredits(j) ==
    LET p == job[j].payment IN
    /\ At(j, "grant") /\ Quantity[p] > 0
    /\ credits' = credits + Quantity[p]
    /\ Granted(p)
    /\ Done(j)
    /\ UNCHANGED <<status, receipt, planVars, payVars, printVars>>

\* A plan other than the free one, not suspended, with months still to come
Running(s) == s.active /\ s.plan \in Plans /\ s.ends > month
MonthsLeft(s) == IF Running(s) THEN s.ends - month ELSE 0

ReadPlan(j) ==
    LET p == job[j].payment IN
    /\ At(j, "grant") /\ Quantity[p] = 0
    /\ Goto(j, [at |-> "extend", payment |-> p, sub |-> sub])
    /\ UNCHANGED <<status, receipt, credits, planVars, granted, payVars, printVars>>

Extends(j) == Running(job[j].sub) /\ job[j].sub.plan = Plan[job[j].payment]
Unseen(j) == crossed' = (crossed \/ sub # job[j].sub)

\* Mutant: the month starts now, also when the plan still runs
RestartPlan(j) ==
    /\ At(j, "extend") /\ Extends(j)
    /\ sub' = [sub EXCEPT !.ends = month + 1]
    /\ due' = due + 1
    /\ Unseen(j)
    /\ Granted(job[j].payment)
    /\ Done(j)
    /\ UNCHANGED <<status, receipt, credits, month, changes, payVars, printVars>>

\* The plan read still ran: a month after its end, and nothing else is written
ExtendPlan(j) ==
    /\ At(j, "extend") /\ Extends(j)
    /\ sub' = [sub EXCEPT !.ends = job[j].sub.ends + 1]
    /\ due' = due + 1
    /\ Unseen(j)
    /\ Granted(job[j].payment)
    /\ Done(j)
    /\ UNCHANGED <<status, receipt, credits, month, changes, payVars, printVars>>

\* Or it starts now, giving up what was left of another; the row was not there when it
\* was read and is now: the insert fails and nothing is granted
StartPlan(j) ==
    LET p == job[j].payment IN
    /\ At(j, "extend") /\ ~Extends(j)
    /\ IF job[j].sub # NoRow \/ sub = NoRow
       THEN /\ sub' = Row(Plan[p], month + 1, TRUE)
            /\ due' = due + 1 - (IF sub.plan = Plan[p] THEN 0 ELSE MonthsLeft(sub))
            /\ Granted(p)
       ELSE UNCHANGED <<sub, due, granted>>
    /\ Unseen(j)
    /\ Done(j)
    /\ UNCHANGED <<status, receipt, credits, month, changes, payVars, printVars>>

(***************************************************************************)
(* The plan without a payment.                                             *)
(***************************************************************************)
ChangePlan(s) ==
    /\ changes < MaxChanges /\ changes' = changes + 1
    /\ sub' = s
    /\ due' = due + MonthsLeft(s) - MonthsLeft(sub)
    /\ UNCHANGED <<status, receipt, credits, month, crossed, job, granted, payVars, printVars>>

\* Back to the free plan at once.  The plan is the row migration 20261009000000 inserts:
\* without it the code deletes the subscription instead, which is left out
ChooseFreePlan == sub # NoRow /\ ChangePlan(Row(FreePlan, 0, TRUE))

\* An administrator assigns a plan, for a month or for ever, or edits any part of the row
AdminChanges ==
    \E offer \in Offers : LET n == offer[2] IN
        /\ offer[3] \/ sub # NoRow
        /\ ChangePlan(Row(offer[1], IF n = 0 THEN 0 ELSE month + n, offer[3]))

MonthPasses ==
    /\ month < MaxMonths /\ \A j \in Jobs : ~At(j, "extend")
    /\ month' = month + 1
    /\ due' = due - (IF Running(sub) THEN 1 ELSE 0)
    /\ UNCHANGED <<status, receipt, credits, sub, changes, crossed, job, granted, payVars,
                   printVars>>

(***************************************************************************)
(* Printing: the quota, then the credits.                                  *)
(***************************************************************************)
StartPrint(j, n) ==
    /\ printed + n <= MaxPrinted
    /\ Start(j, [at |-> "quote", size |-> n, credits |-> credits])

\* Tickets the quota does not cover, whatever is left of it
Beyond(n) == {n - Min({n, remaining}) : remaining \in 0..Included}

\* The tickets of the period are counted; refused when credits are missing
Quote(j) ==
    LET n == job[j].size IN
    /\ At(j, "quote")
    /\ \E beyond \in Beyond(n) :
         IF beyond > job[j].credits THEN Done(j)
         ELSE Goto(j, [at |-> "take", size |-> n, taken |-> beyond])
    /\ UNCHANGED <<status, receipt, credits, planVars, granted, payVars, printVars>>

\* Mutant: the credits quoted are taken without looking again
TakeQuoted(j) ==
    /\ At(j, "take")
    /\ credits' = credits - job[j].taken
    /\ Goto(j, [job[j] EXCEPT !.at = "print"])
    /\ UNCHANGED <<status, receipt, planVars, granted, payVars, printVars>>

\* Spent meanwhile: refused
TakeCredits(j) ==
    /\ At(j, "take")
    /\ IF credits >= job[j].taken
       THEN /\ credits' = credits - job[j].taken
            /\ Goto(j, [job[j] EXCEPT !.at = "print"])
       ELSE Done(j) /\ UNCHANGED credits
    /\ UNCHANGED <<status, receipt, planVars, granted, payVars, printVars>>

\* Mutant: the credits are given back without a ticket less
PrintThenReturn(j) ==
    /\ At(j, "print")
    /\ printed' = printed + job[j].size
    /\ spent' = spent + job[j].taken
    /\ Goto(j, [job[j] EXCEPT !.at = "return"])
    /\ UNCHANGED <<status, receipt, credits, planVars, granted, payVars, lost>>

MakeTickets(j) ==
    /\ At(j, "print")
    /\ printed + job[j].size <= MaxPrinted
    /\ printed' = printed + job[j].size
    /\ spent' = spent + job[j].taken
    /\ Done(j)
    /\ UNCHANGED <<status, receipt, credits, planVars, granted, payVars, lost>>

\* The transaction fails: what it took is given back
PrintFails(j) ==
    /\ At(j, "print")
    /\ Goto(j, [job[j] EXCEPT !.at = "return"])
    /\ UNCHANGED <<status, receipt, credits, planVars, granted, payVars, printVars>>

RefundCredits(j) ==
    /\ At(j, "return")
    /\ credits' = credits + job[j].taken
    /\ Done(j)
    /\ UNCHANGED <<status, receipt, planVars, granted, payVars, printVars>>

\* The process dies, or a print throws before its transaction
Crash(j) ==
    /\ job[j] # Idle
    /\ lost' = lost + IF job[j].at \in {"print", "return"} THEN job[j].taken ELSE 0
    /\ Done(j)
    /\ UNCHANGED <<status, receipt, credits, planVars, granted, payVars, printed, spent>>

Paying(p) ==
    \/ CreatePayment(p) \/ FlexPayAccepts(p) \/ StoreOrderNumber(p)
    \/ StartFails(p) \/ CloseCheckout(p) \/ RequestDies(p)
    \/ PayerDecides(p) \/ QuarterPasses(p)

Confirming(j) ==
    \/ \E p \in Payments : HandleCallback(j, p) \/ CheckStatus(j, p) \/ AskReceipt(j, p)
    \/ Verify(j) \/ Fail(j) \/ Claim(j)
    \/ ReadNumbers(j) \/ AssignNumber(j)
    \/ AddCredits(j) \/ ReadPlan(j) \/ ExtendPlan(j) \/ StartPlan(j)

Printing(j) ==
    \/ \E n \in BatchSizes : StartPrint(j, n)
    \/ Quote(j) \/ TakeCredits(j) \/ MakeTickets(j) \/ PrintFails(j) \/ RefundCredits(j)

Changing == ChooseFreePlan \/ AdminChanges \/ MonthPasses

Next ==
    \/ \E p \in Payments : Paying(p)
    \/ \E j \in Jobs : Confirming(j) \/ Printing(j) \/ Crash(j)
    \/ Changing

Spec == Init /\ [][Next]_vars

(***************************************************************************)
(* Properties.                                                             *)
(***************************************************************************)
\* "One grant only, even if the callback and a status check arrive together",
\* and only for money FlexPay holds; a failed checkout, a retry of the receipt
\* or a crash never grants again
GrantedOnce ==
    \A p \in Payments : granted[p] <= (IF flexpay[p] = "paid" THEN 1 ELSE 0)

\* Every credit bought is in the account, held by a print under way, in a
\* ticket, or lost with a print that died: none is spent twice or given back
\* twice, whatever prints fail, compete or end
Bought == SumFunction([p \in Payments |-> granted[p] * Quantity[p]])
Holding(j) == IF job[j].at \in {"print", "return"} THEN job[j].taken ELSE 0
Held == SumFunction([j \in Jobs |-> Holding(j)])
CreditsAccounted ==
    credits >= 0 /\ credits + Held + spent + lost = Bought

\* The receipts are numbered 1, 2, ... without a gap, in any order of
\* confirmations and downloads, and only confirmed payments have one
ReceiptsInSequence ==
    LET numbered == {p \in Payments : receipt[p] # 0} IN
    /\ {receipt[p] : p \in numbered} = 1..Cardinality(numbered)
    /\ \A p \in numbered : flexpay[p] = "paid"

\* The plan in force has the months that were paid or offered and have neither
\* passed nor been given up for another plan: no confirmation, crash or change of
\* plan loses a month or adds one, unless a grant wrote over a change of plan made
\* after it had read the subscription
MonthsAccounted == ~crossed => MonthsLeft(sub) = due
=============================================================================
