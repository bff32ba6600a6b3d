---------------------------- MODULE MerchOrders ----------------------------
(***************************************************************************)
(* The shop of an event: stock, orders and their reservation, payment,     *)
(* handover, cancellation and refund, in src/backend/src/shop/,            *)
(* controllers-mgmt/controller-space.service.ts and                        *)
(* billing/refunds.service.ts.                                             *)
(*                                                                         *)
(* A request (job) keeps what it read between two awaits; a transaction    *)
(* whose first write is a conditional claim is one step.  The payment is   *)
(* seen from the shop: PaymentFlow models it.  Abstracted: prices, buyers, *)
(* e-mails, access rights, variants added to or removed from a product.    *)
(***************************************************************************)
EXTENDS Integers, FiniteSets

CONSTANTS
    Requests,    \* requests being served
    Orders,      \* orders, one per checkout
    Variants,    \* variants of the products
    Items,       \* Items[o][v]: how many v the order has
    Pickup,      \* orders to pick up at the stand; the others are delivered
    Stock,       \* Stock[v]: goods the organizer declared
    Arrivals,    \* goods an edit of the stock adds or removes
    MaxGoods     \* bound on the goods of a variant after an edit

ASSUME OrdersAssumption == IsFiniteSet(Orders)
ASSUME ItemsAssumption ==
    /\ Items \in [Orders -> [Variants -> Nat]]
    /\ \A o \in Orders : \E v \in Variants : Items[o][v] > 0
ASSUME StockAssumption == Stock \in [Variants -> Nat] /\ Arrivals \subseteq Int
ASSUME MaxGoodsAssumption == MaxGoods \in Nat
ASSUME PickupAssumption == Pickup \subseteq Orders

VARIABLES
    stock,    \* ProductVariant.stock
    status,   \* MerchOrder.status; "none" before it is created
    payment,  \* the order's payment: "open", "failed", "completed", "refunded"
    old,      \* orders older than RESERVATION_MS
    handed,   \* times the goods left the stand (fulfilledAt, if any)
    job,      \* what each request is doing
    goods,    \* auxiliary: goods there are, in stock or under an order
    late,     \* auxiliary: orders paid after their reservation expired
    stale,    \* auxiliary: orders whose status changed before a request acted on it
    edited    \* auxiliary: variants whose stock changed under the edit that replaced it

vars == <<stock, status, payment, old, handed, job, goods, late, stale, edited>>

Statuses == {"none", "PENDING_PAYMENT", "PAID", "READY", "SHIPPED", "DELIVERED",
             "PICKED_UP", "CANCELLED", "REFUNDED"}
Idle == [at |-> "idle"]

\* HANDABLE_STATUSES
Handable == {"PAID", "READY"}

\* NEXT_STATUSES
Successors(s) ==
    CASE s = "PAID"    -> {"READY", "SHIPPED", "PICKED_UP", "CANCELLED"}
      [] s = "READY"   -> {"PICKED_UP", "SHIPPED", "CANCELLED"}
      [] s = "SHIPPED" -> {"DELIVERED", "CANCELLED"}
      [] OTHER         -> {}

\* less what the order's way of delivery forbids
NextStatuses(o, s) ==
    Successors(s) \ (IF o \in Pickup THEN {"SHIPPED", "DELIVERED"} ELSE {"PICKED_UP"})

\* An order holds its goods from its reservation to its cancellation; a
\* refund gives them back unless they were handed over
Holds(o) ==
    \/ status[o] \notin {"none", "CANCELLED", "REFUNDED"}
    \/ status[o] = "REFUNDED" /\ handed[o] > 0

(***************************************************************************)
(* Type invariant.                                                         *)
(***************************************************************************)
TypeOK ==
    /\ stock \in [Variants -> Int] /\ goods \in [Variants -> Int]
    /\ status \in [Orders -> Statuses]
    /\ payment \in [Orders -> {"open", "failed", "completed", "refunded"}]
    /\ handed \in [Orders -> Nat]
    /\ old \subseteq Orders /\ late \subseteq Orders
    /\ stale \subseteq Orders /\ edited \subseteq Variants
    /\ \A r \in Requests : LET j == job[r] IN
         \/ j = Idle
         \/ j.at = "read" /\ j.order \in Orders
         \/ j.at = "retake" /\ j.order \in Orders /\ j.left \subseteq Variants
         \/ j.at \in {"paid", "refund"} /\ j.order \in Orders /\ j.seen \in Statuses
         \/ j.at = "status" /\ j.order \in Orders /\ j.to \in NextStatuses(j.order, j.seen)
         \/ j.at = "stock" /\ j.variant \in Variants /\ j.seen \in Int /\ j.to \in Int

Init ==
    /\ stock = Stock /\ goods = Stock
    /\ status = [o \in Orders |-> "none"]
    /\ payment = [o \in Orders |-> "open"]
    /\ handed = [o \in Orders |-> 0]
    /\ old = {} /\ late = {} /\ stale = {} /\ edited = {}
    /\ job = [r \in Requests |-> Idle]

At(r, step) == job[r].at = step
Goto(r, j) == job' = [job EXCEPT ![r] = j]
Done(r) == Goto(r, Idle)
SetStatus(o, s) == status' = [status EXCEPT ![o] = s]
StaleIf(o, changed) == stale' = stale \cup {p \in {o} : changed}
PutBack(o) == stock' = [v \in Variants |-> stock[v] + Items[o][v]]

(***************************************************************************)
(* Checkout: the reservation, and its release while the order is unpaid.   *)
(***************************************************************************)
\* Mutant: the stock is not looked at again
ReserveUnguarded(o) ==
    /\ status[o] = "none" /\ payment[o] = "open"
    /\ stock' = [v \in Variants |-> stock[v] - Items[o][v]]
    /\ SetStatus(o, "PENDING_PAYMENT")
    /\ UNCHANGED <<payment, old, handed, job, goods, late, stale, edited>>

\* createPendingOrder: every line of the order is taken, or none
CreatePendingOrder(o) ==
    /\ status[o] = "none" /\ payment[o] = "open"
    /\ \A v \in Variants : stock[v] >= Items[o][v]
    /\ stock' = [v \in Variants |-> stock[v] - Items[o][v]]
    /\ SetStatus(o, "PENDING_PAYMENT")
    /\ UNCHANGED <<payment, old, handed, job, goods, late, stale, edited>>

ReleaseOrder(o) ==
    /\ status[o] = "PENDING_PAYMENT"
    /\ SetStatus(o, "CANCELLED")
    /\ PutBack(o)
    /\ UNCHANGED <<payment, old, handed, job, goods, late, stale, edited>>

\* The checkout throws: the order is released before the payment is closed
CloseCheckout(o) == payment[o] = "open" /\ ReleaseOrder(o)
CancelForPayment(o) == payment[o] = "failed" /\ ReleaseOrder(o)
ExpireStale(o) == o \in old /\ ReleaseOrder(o)

GrowOld(o) ==
    /\ status[o] # "none" /\ o \notin old
    /\ old' = old \cup {o}
    /\ UNCHANGED <<stock, status, payment, handed, job, goods, late, stale, edited>>

FailPayment(o) ==
    /\ payment[o] = "open"
    /\ payment' = [payment EXCEPT ![o] = "failed"]
    /\ UNCHANGED <<stock, status, old, handed, job, goods, late, stale, edited>>

(***************************************************************************)
(* markPaidForPayment, called once when the payment is completed.          *)
(***************************************************************************)
CompletePayment(r, o) ==
    /\ At(r, "idle") /\ payment[o] = "open" /\ status[o] # "none"
    /\ payment' = [payment EXCEPT ![o] = "completed"]
    /\ Goto(r, [at |-> "read", order |-> o])
    /\ UNCHANGED <<stock, status, old, handed, goods, late, stale, edited>>

ReadOrder(r) ==
    LET o == job[r].order IN
    /\ At(r, "read")
    /\ CASE status[o] = "CANCELLED" ->
              Goto(r, [at |-> "retake", order |-> o, left |-> {v \in Variants : Items[o][v] > 0}])
         [] status[o] = "PENDING_PAYMENT" ->
              Goto(r, [at |-> "paid", order |-> o, seen |-> status[o]])
         [] OTHER -> Done(r)
    /\ UNCHANGED <<stock, status, payment, old, handed, goods, late, stale, edited>>

\* Line by line, whatever is left of the stock
Retake(r) ==
    LET o == job[r].order IN
    /\ At(r, "retake")
    /\ \E v \in job[r].left :
         /\ stock' = [stock EXCEPT ![v] = @ - Items[o][v]]
         /\ IF job[r].left = {v} THEN Goto(r, [at |-> "paid", order |-> o, seen |-> "CANCELLED"])
            ELSE Goto(r, [job[r] EXCEPT !.left = @ \ {v}])
    /\ late' = late \cup {o}
    /\ UNCHANGED <<status, payment, old, handed, goods, stale, edited>>

SetPaid(r) ==
    LET o == job[r].order IN
    /\ At(r, "paid")
    /\ SetStatus(o, "PAID")
    /\ StaleIf(o, status[o] # job[r].seen)
    /\ Done(r)
    /\ UNCHANGED <<stock, payment, old, handed, goods, late, edited>>

\* An error, only logged by the caller, or the end of the process
MarkPaidFails(r) ==
    /\ job[r].at \in {"read", "retake", "paid"}
    /\ Done(r)
    /\ UNCHANGED <<stock, status, payment, old, handed, goods, late, stale, edited>>

(***************************************************************************)
(* The organizer and the stand.                                            *)
(***************************************************************************)
\* Mutant: the way of delivery is not looked at
StartAnyUpdate(r, o, s) ==
    /\ At(r, "idle") /\ s \in Successors(status[o])
    /\ Goto(r, [at |-> "status", order |-> o, seen |-> status[o], to |-> s])
    /\ UNCHANGED <<stock, status, payment, old, handed, goods, late, stale, edited>>

StartUpdate(r, o, s) ==
    /\ At(r, "idle") /\ s \in NextStatuses(o, status[o])
    /\ Goto(r, [at |-> "status", order |-> o, seen |-> status[o], to |-> s])
    /\ UNCHANGED <<stock, status, payment, old, handed, goods, late, stale, edited>>

\* updateOrderStatus ends in one transaction, unconditional
SetOrderStatus(r) ==
    LET o == job[r].order IN
    /\ At(r, "status")
    /\ SetStatus(o, job[r].to)
    /\ IF job[r].to = "CANCELLED" THEN PutBack(o) ELSE UNCHANGED stock
    /\ handed' = IF job[r].to \in {"PICKED_UP", "DELIVERED"} THEN [handed EXCEPT ![o] = @ + 1]
                 ELSE handed
    /\ StaleIf(o, status[o] # job[r].seen)
    /\ Done(r)
    /\ UNCHANGED <<payment, old, goods, late, edited>>

\* Mutant: the stand hands over what its screen shows as to be picked up
HandOverUnclaimed(o) ==
    /\ o \in Pickup /\ status[o] \in Handable \cup {"PICKED_UP"}
    /\ SetStatus(o, "PICKED_UP")
    /\ handed' = [handed EXCEPT ![o] = @ + 1]
    /\ UNCHANGED <<stock, payment, old, job, goods, late, stale, edited>>

HandOver(o) ==
    /\ o \in Pickup /\ status[o] \in Handable
    /\ SetStatus(o, "PICKED_UP")
    /\ handed' = [handed EXCEPT ![o] = @ + 1]
    /\ UNCHANGED <<stock, payment, old, job, goods, late, stale, edited>>

\* The form shows the stock; what it sends replaces the stock
StartStockEdit(r, v, n) ==
    /\ At(r, "idle") /\ stock[v] + n >= 0 /\ goods[v] + n <= MaxGoods
    /\ Goto(r, [at |-> "stock", variant |-> v, seen |-> stock[v], to |-> stock[v] + n])
    /\ UNCHANGED <<stock, status, payment, old, handed, goods, late, stale, edited>>

SetStock(r) ==
    LET j == job[r] IN
    /\ At(r, "stock")
    /\ stock' = [stock EXCEPT ![j.variant] = j.to]
    /\ goods' = [goods EXCEPT ![j.variant] = @ + j.to - j.seen]
    /\ edited' = edited \cup {v \in {j.variant} : stock[v] # j.seen}
    /\ Done(r)
    /\ UNCHANGED <<status, payment, old, handed, late, stale>>

(***************************************************************************)
(* Refund: the order is read, then the payment claimed and the goods not   *)
(* handed over put back, in one transaction.                               *)
(***************************************************************************)
StartRefund(r, o) ==
    /\ At(r, "idle") /\ payment[o] = "completed"
    /\ Goto(r, [at |-> "refund", order |-> o, seen |-> status[o], handed |-> handed[o] > 0])
    /\ UNCHANGED <<stock, status, payment, old, handed, goods, late, stale, edited>>

\* Mutant: the goods come back even when they were handed over
RefundRestocks(r) ==
    LET o == job[r].order IN
    /\ At(r, "refund") /\ payment[o] = "completed"
    /\ payment' = [payment EXCEPT ![o] = "refunded"]
    /\ IF job[r].seen \in {"REFUNDED", "CANCELLED"} THEN UNCHANGED <<status, stock>>
       ELSE SetStatus(o, "REFUNDED") /\ PutBack(o)
    /\ StaleIf(o, status[o] # job[r].seen)
    /\ Done(r)
    /\ UNCHANGED <<old, handed, goods, late, edited>>

RefundTx(r) ==
    LET o == job[r].order IN
    /\ At(r, "refund") /\ payment[o] = "completed"
    /\ payment' = [payment EXCEPT ![o] = "refunded"]
    /\ IF job[r].seen \in {"REFUNDED", "CANCELLED"} THEN UNCHANGED <<status, stock>>
       ELSE /\ SetStatus(o, "REFUNDED")
            /\ IF job[r].handed THEN UNCHANGED stock ELSE PutBack(o)
    /\ StaleIf(o, status[o] # job[r].seen)
    /\ Done(r)
    /\ UNCHANGED <<old, handed, goods, late, edited>>

RefundRefused(r) ==
    /\ At(r, "refund") /\ payment[job[r].order] # "completed"
    /\ Done(r)
    /\ UNCHANGED <<stock, status, payment, old, handed, goods, late, stale, edited>>

Checkout(o) ==
    \/ CreatePendingOrder(o) \/ FailPayment(o) \/ GrowOld(o)
    \/ CloseCheckout(o) \/ CancelForPayment(o) \/ ExpireStale(o)

MarkPaid(r) ==
    \/ \E o \in Orders : CompletePayment(r, o)
    \/ ReadOrder(r) \/ Retake(r) \/ SetPaid(r) \/ MarkPaidFails(r)

Organizer(r) ==
    \/ \E o \in Orders, s \in Statuses : StartUpdate(r, o, s)
    \/ SetOrderStatus(r)
    \/ \E v \in Variants, n \in Arrivals : StartStockEdit(r, v, n)
    \/ SetStock(r)

Refund(r) ==
    \/ \E o \in Orders : StartRefund(r, o)
    \/ RefundTx(r) \/ RefundRefused(r)

Next ==
    \/ \E o \in Orders : Checkout(o) \/ HandOver(o)
    \/ \E r \in Requests : MarkPaid(r) \/ Organizer(r) \/ Refund(r)

Spec == Init /\ [][Next]_vars

(***************************************************************************)
(* Properties.                                                             *)
(***************************************************************************)
\* The pieces of v in the orders os
Pieces(v, os) == Cardinality(UNION {{o} \X (1..Items[o][v]) : o \in os})
Held(v) == Pieces(v, {o \in Orders : Holds(o)})

\* Goods a late payment has taken again for an order still cancelled, or took
\* before it failed
Retaken(v) == Pieces(v, {o \in late : status[o] = "CANCELLED"})

\* A piece of v is lost or doubled only by who acts on what has changed: an edit of
\* the stock of v, or a request on an order of v
Trusted(v) == v \notin edited /\ \A o \in stale : Items[o][v] = 0

\* Stock and orders balance: every piece of a variant is in stock or under one order,
\* through expiry, late payment, cancellation, refund and stock edits, whatever happens
\* to the orders of other goods (a late payment that is taking its goods, or failed
\* while it did, holds some)
StockBalances ==
    \A v \in Variants : Trusted(v) =>
        /\ stock[v] + Held(v) <= goods[v]
        /\ stock[v] + Held(v) + Retaken(v) >= goods[v]

\* The stock is negative only by what late payments took again, whatever requests
\* act on what has changed
ShortOnlyByLatePayments == \A v \in Variants : -stock[v] <= Pieces(v, late)

\* The goods of an order leave once, whatever stand or organizer acts, unless one of
\* them acted on a status of this order that had changed
HandedOverOnce == \A o \in Orders \ stale : handed[o] <= 1
=============================================================================
