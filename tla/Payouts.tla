------------------------------ MODULE Payouts ------------------------------
(***************************************************************************)
(* What ZAYA owes an organizer for an event sold online, and how it is     *)
(* settled: src/backend/src/billing/payouts.service.ts, pricing.ts,        *)
(* refunds.service.ts, closing an account (privacy/privacy.service.ts) and *)
(* the administrators' page of the web site.                               *)
(*                                                                         *)
(* One event and one currency; amounts are cents (or whole francs).  A     *)
(* clerk is an administrator with the page of payouts, or a request to     *)
(* close the account; the summary of the sales is read in three queries    *)
(* (the last one stands for two that run together: an order is in the same *)
(* one of the two for ever, by its netAmount).  What is transferred by     *)
(* hand is told apart from what is recorded.                               *)
(* (Names differ from those of Billing, so that Billing_proofs may extend  *)
(* both.)                                                                  *)
(***************************************************************************)
EXTENDS Integers, FiniteSetsExt

CONSTANTS
    Orders,      \* orders of the event
    Cart,        \* Cart[o]: the listed price and the quantity of its tickets
    FeePayer,    \* FeePayer[o]: "BUYER", "ORGANIZER", or "NONE" for an order older than the fee
    HalvesDown,  \* amounts whose half the floating point takes just below a half
    Clerks,      \* administrators and closing requests at work
    None

VARIABLES
    order,     \* Payment.status of the orders
    refund,    \* Refund.status of the orders
    payout,    \* Payout rows
    selling,   \* the event is published and not over
    account,   \* the organizer's account: open, closed at its request, or retired after years
    desk       \* what each of them is doing

payoutsVars == <<order, refund, payout, selling, account, desk>>

Parts == {"MAIN", "RESERVE"}
PayoutRows == [amount : Int, asRead : BOOLEAN, current : BOOLEAN]
IdleDesk == [at |-> "idle"]
Amounts == [Parts -> Int]

ASSUME SalesAssumption ==
    /\ IsFiniteSet(Orders)
    /\ Cart \in [Orders -> [price : Nat, quantity : Nat \ {0}]]
    /\ FeePayer \in [Orders -> {"BUYER", "ORGANIZER", "NONE"}]
    /\ HalvesDown \subseteq Int
    /\ None \notin Int \cup PayoutRows

(***************************************************************************)
(* Prices (pricing.ts).                                                    *)
(***************************************************************************)
\* Math.round(n / d)
Rounded(n, d) ==
    (2 * n + d) \div (2 * d) - (IF (2 * n) % (2 * d) = d /\ n \in HalvesDown THEN 1 ELSE 0)

\* The fee: rounded on each ticket when the buyer pays it, on the order otherwise
Fee(o) ==
    LET c == Cart[o] IN
    CASE FeePayer[o] = "BUYER"     -> c.quantity * Rounded(9 * c.price, 100)
      [] FeePayer[o] = "ORGANIZER" -> Rounded(9 * c.price * c.quantity, 100)
      [] OTHER                     -> 0

OrganizerGets(o) ==
    Cart[o].price * Cart[o].quantity - (IF FeePayer[o] = "ORGANIZER" THEN Fee(o) ELSE 0)

\* The fee of a refunded order stays due
RefundedFees ==
    SumFunctionOnSet([o \in Orders |-> Fee(o)], {o \in Orders : order[o] = "REFUNDED"})
Collected ==
    SumFunctionOnSet([o \in Orders |-> OrganizerGets(o)], {o \in Orders : order[o] = "COMPLETED"})
Net == Collected - RefundedFees

\* Mutant: the reserve is a tenth whatever was paid before
FixedReserve(net, paid) ==
    [MAIN    |-> IF paid["MAIN"] # None THEN paid["MAIN"] ELSE net - Rounded(net, 10),
     RESERVE |-> IF paid["RESERVE"] # None THEN paid["RESERVE"] ELSE Rounded(net, 10)]

\* 90 %, then what is left; a part that was paid keeps its amount
Shares(net, paid) ==
    LET main == IF paid["MAIN"] # None THEN paid["MAIN"] ELSE net - Rounded(net, 10) IN
    [MAIN |-> main,
     RESERVE |-> IF paid["RESERVE"] # None THEN paid["RESERVE"] ELSE net - main]

IsPaid(p) == payout[p] # None
Paid == [p \in Parts |-> IF IsPaid(p) THEN payout[p].amount ELSE None]
\* What is left of the parts that were not paid, what was recorded of the others
Left == Shares(Net, Paid)
Transferred == (IF IsPaid("MAIN") THEN payout["MAIN"].amount ELSE 0)
             + (IF IsPaid("RESERVE") THEN payout["RESERVE"].amount ELSE 0)

(***************************************************************************)
(* Type invariant.                                                         *)
(***************************************************************************)
PayoutsTypeOK ==
    /\ order \in [Orders -> {"PENDING", "COMPLETED", "REFUNDED"}]
    /\ refund \in [Orders -> {"none", "REQUESTED", "PAID"}]
    /\ \A p \in Parts : payout[p] = None \/ payout[p] \in PayoutRows
    /\ selling \in BOOLEAN
    /\ account \in [state : {"open", "closed", "retired"}, current : BOOLEAN, counted : BOOLEAN]
    /\ \A j \in Clerks : LET k == desk[j] IN
         \/ k = IdleDesk
         \/ /\ k.at \in {"event", "refunded", "completed", "page", "record", "refunds", "closing"}
            /\ k.for \in {"page", "close"} \cup Parts
            /\ k.sent \in Int /\ k.fees \in Nat /\ k.amounts \in Amounts
            /\ DOMAIN k.paid = Parts
            /\ k.asShown \in BOOLEAN /\ k.asRead \in BOOLEAN

PayoutsInit ==
    /\ order = [o \in Orders |-> "PENDING"] /\ refund = [o \in Orders |-> "none"]
    /\ payout = [p \in Parts |-> None]
    /\ selling = TRUE
    /\ account = [state |-> "open", current |-> TRUE, counted |-> TRUE]
    /\ desk = [j \in Clerks |-> IdleDesk]

DeskAt(j, step) == desk[j].at = step
SetDesk(j, step) == desk' = [desk EXCEPT ![j] = step]
ClearDesk(j) == SetDesk(j, IdleDesk)

\* Auxiliary: what was read (asRead), looked at (asShown: the page, the refunds
\* counted), recorded or closed before an order changed
OrderChanged ==
    /\ desk' = [j \in Clerks |-> IF desk[j] = IdleDesk THEN IdleDesk
                                ELSE [desk[j] EXCEPT !.asShown = FALSE, !.asRead = FALSE]]
    /\ payout' = [p \in Parts |-> IF payout[p] = None THEN None
                                  ELSE [payout[p] EXCEPT !.current = FALSE]]
    /\ account' = [account EXCEPT !.current = FALSE, !.counted = FALSE]

(***************************************************************************)
(* Sales.                                                                  *)
(***************************************************************************)
\* At any time: the payment may be confirmed long after the order
CompleteOrder(o) ==
    /\ order[o] = "PENDING"
    /\ order' = [order EXCEPT ![o] = "COMPLETED"]
    /\ OrderChanged
    /\ UNCHANGED <<refund, selling>>

\* refund: one transaction; an administrator may ask for it as well
Refund(o) ==
    /\ order[o] = "COMPLETED"
    /\ order' = [order EXCEPT ![o] = "REFUNDED"]
    /\ refund' = [refund EXCEPT ![o] = "REQUESTED"]
    /\ OrderChanged
    /\ UNCHANGED selling

RefundPaid(o) ==
    /\ refund[o] = "REQUESTED"
    /\ refund' = [refund EXCEPT ![o] = "PAID"]
    /\ UNCHANGED <<order, payout, selling, account, desk>>

\* It ends, or it is cancelled
EventOver ==
    /\ selling /\ selling' = FALSE
    /\ UNCHANGED <<order, refund, payout, account, desk>>

(***************************************************************************)
(* The summary: the event and its payouts, the refunded orders, the others.*)
(***************************************************************************)
Step(j, step) ==
    /\ SetDesk(j, step)
    /\ UNCHANGED <<order, refund, payout, selling, account>>

Zero == [p \in Parts |-> 0]

Ask(j, for, sent, asShown) ==
    Step(j, [at |-> "event", for |-> for, sent |-> sent, asShown |-> asShown, asRead |-> TRUE,
             fees |-> 0, paid |-> [p \in Parts |-> None], amounts |-> Zero])

\* An event without sales is not in the summary
ReadEvent(j) ==
    /\ DeskAt(j, "event")
    /\ \/ /\ \E o \in Orders : order[o] \in {"COMPLETED", "REFUNDED"}
          /\ Step(j, [desk[j] EXCEPT !.at = "refunded", !.asRead = TRUE,
                      !.asShown = @ \/ desk[j].for = "page", !.paid = Paid])
       \/ /\ \A o \in Orders : order[o] \notin {"COMPLETED", "REFUNDED"}
          /\ Step(j, IF desk[j].for = "close"
                     THEN [desk[j] EXCEPT !.at = "refunds", !.asRead = TRUE] ELSE IdleDesk)

ReadRefunded(j) ==
    /\ DeskAt(j, "refunded")
    /\ Step(j, [desk[j] EXCEPT !.at = "completed", !.fees = RefundedFees])

Unpaid(j, p) == desk[j].paid[p] = None

\* Mutant: what the organizer owes does not keep the account open
DuePending(j, amounts) == \E p \in Parts : Unpaid(j, p) /\ amounts[p] > 0

\* Parts not settled, due to the organizer or by the organizer
Pending(j, amounts) == \E p \in Parts : Unpaid(j, p) /\ amounts[p] # 0

\* The page, or the next step of the request, or its refusal
ReadCompleted(j) ==
    /\ DeskAt(j, "completed")
    /\ LET amounts == Shares(Collected - desk[j].fees, desk[j].paid)
           read(at, keep) == [desk[j] EXCEPT !.at = at, !.fees = 0, !.amounts = keep]
       IN \/ desk[j].for = "page" /\ Step(j, read("page", amounts))
          \/ /\ desk[j].for = "close"
             /\ Step(j, IF Pending(j, amounts) THEN IdleDesk ELSE read("refunds", Zero))
          \/ /\ desk[j].for \in Parts
             /\ Step(j, IF ~Unpaid(j, desk[j].for) \/ amounts[desk[j].for] <= 0 THEN IdleDesk
                        ELSE read("record", amounts))

(***************************************************************************)
(* An administrator transfers what the page shows, then records it.        *)
(***************************************************************************)
OpenPage(j) == DeskAt(j, "idle") /\ Ask(j, "page", 0, TRUE)

MarkPaid(j, p) ==
    /\ DeskAt(j, "page") /\ Unpaid(j, p) /\ desk[j].amounts[p] >= 0
    /\ Ask(j, p, desk[j].amounts[p], desk[j].asShown)

LeavePage(j) == DeskAt(j, "page") /\ Step(j, IdleDesk)

\* Mutant: the row is written without its amount
RecordedEmpty(j, amount) ==
    [amount |-> None, asRead |-> desk[j].asRead, current |-> desk[j].asRead]

Recorded(j, amount) ==
    [amount |-> amount, asRead |-> desk[j].asRead, current |-> desk[j].asRead]

\* Mutant: the first part is recorded whichever was asked
RecordFirstPart(j) ==
    /\ DeskAt(j, "record")
    /\ payout' = [payout EXCEPT ![desk[j].for] =
                    IF @ = None THEN Recorded(j, desk[j].amounts["MAIN"]) ELSE @]
    /\ ClearDesk(j)
    /\ UNCHANGED <<order, refund, selling, account>>

\* The amount computed again, not the one transferred; a part has one row
RecordPayout(j) ==
    /\ DeskAt(j, "record")
    /\ payout' = [payout EXCEPT ![desk[j].for] =
                    IF @ = None THEN Recorded(j, desk[j].amounts[desk[j].for]) ELSE @]
    /\ ClearDesk(j)
    /\ UNCHANGED <<order, refund, selling, account>>

(***************************************************************************)
(* Closing the account.                                                    *)
(***************************************************************************)
\* Refused while an event is to come
AskToClose(j) ==
    /\ DeskAt(j, "idle") /\ account.state = "open" /\ ~selling
    /\ Ask(j, "close", 0, FALSE)

\* Refused while buyers wait for their money
CountRefunds(j) ==
    /\ DeskAt(j, "refunds")
    /\ Step(j, IF \E o \in Orders : refund[o] = "REQUESTED" THEN IdleDesk
               ELSE [desk[j] EXCEPT !.at = "closing", !.asShown = TRUE])

\* After the new password is hashed, in one transaction, whatever happened since
CloseAccount(j) ==
    /\ DeskAt(j, "closing")
    /\ account' = [state |-> "closed", current |-> desk[j].asRead, counted |-> desk[j].asShown]
    /\ ClearDesk(j)
    /\ UNCHANGED <<order, refund, payout, selling>>

\* applyRetention: nobody signed in for years, no event since; neither payouts
\* nor refunds are looked at
RetireAccount ==
    /\ account.state = "open" /\ ~selling
    /\ account' = [account EXCEPT !.state = "retired"]
    /\ UNCHANGED <<order, refund, payout, selling, desk>>

PayoutsNext ==
    \/ \E o \in Orders : CompleteOrder(o) \/ Refund(o) \/ RefundPaid(o)
    \/ EventOver \/ RetireAccount
    \/ \E j \in Clerks :
         \/ OpenPage(j) \/ LeavePage(j) \/ AskToClose(j) \/ CountRefunds(j) \/ CloseAccount(j)
         \/ ReadEvent(j) \/ ReadRefunded(j) \/ ReadCompleted(j) \/ RecordPayout(j)
         \/ \E p \in Parts : MarkPaid(j, p)

PayoutsSpec == PayoutsInit /\ [][PayoutsNext]_payoutsVars

(***************************************************************************)
(* Properties.                                                             *)
(***************************************************************************)
\* An order changed between the reading of the sales and the row
Stale(p) == IsPaid(p) /\ ~payout[p].asRead

\* A clerk writes the row of a part
Records(j, p) ==
    /\ DeskAt(j, "record") /\ desk[j].for = p /\ desk'[j] = IdleDesk
    /\ ~IsPaid(p) /\ IsPaid(p)'

\* "The reserve covers what changed after the first payout: it is what is
\* left": the second part recorded brings the two to the net of the sales,
\* whatever was refunded or sold since the first, unless an order changes while
\* it is recorded, or it is the advance and orders changed since the reserve
ReserveSettles ==
    [][\A j \in Clerks, p, q \in Parts :
         /\ Records(j, p) /\ q # p /\ IsPaid(q) /\ desk[j].asRead
         /\ payout[q].current \/ (q = "MAIN" /\ ~Unpaid(j, "MAIN"))
         => payout'[p].amount + payout[q].amount = Net]_payoutsVars

\* The row tells what was transferred: the two amounts differ only when an
\* order changed after the page was shown, or while the other part was recorded
RecordedIsTransferred ==
    [][\A j \in Clerks, p \in Parts :
         Records(j, p) => \/ payout'[p].amount = desk[j].sent
                          \/ ~desk[j].asShown
                          \/ \E q \in Parts : Stale(q)]_payoutsVars

\* Sales nobody changed since the request to close read them, every part
\* recorded on the sales of its time
ClosedOnSales == account.state = "closed" /\ account.current /\ \A p \in Parts : ~Stale(p)

\* An account its organizer closed leaves no buyer waiting for money, and what
\* was recorded is the net of the sales: nothing is owed either way.  Set
\* apart: orders that complete or are refunded once the request has read the
\* sales (for the buyers, once it has counted the refunds), a part recorded
\* while an order changed, and orders that changed after the reserve was
\* recorded, since a part once paid counts as settled whatever the net is
ClosedOwesNothing ==
    /\ account.state = "closed" /\ account.counted =>
         \A o \in Orders : refund[o] # "REQUESTED"
    /\ ClosedOnSales /\ (IsPaid("RESERVE") => payout["RESERVE"].current) => Transferred = Net

\* privacy.service.ts refuses to close an account with payouts under way: it
\* "can be closed once they are settled", so something of them can be settled
CanBeSettled ==
    LET pending == {p \in Parts : ~IsPaid(p) /\ Left[p] # 0}
    IN ~selling /\ (\A o \in Orders : order[o] # "PENDING") /\ pending # {} =>
       \E p \in pending : Left[p] > 0
=============================================================================
