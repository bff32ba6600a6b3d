---------------------------- MODULE TicketStock ----------------------------
(***************************************************************************)
(* The seats and tickets of one category: generation (sales, free orders,  *)
(* organizer batches), cancellation, refund, bulk status change, edit of   *)
(* the category, cancellation of the event and the gate's writes, in       *)
(* src/backend/src/tickets/, billing/refunds.service.ts,                    *)
(* events/events.service.ts and validation/validation.service.ts.          *)
(*                                                                         *)
(* A request keeps between two awaits what it has read (job); writes are   *)
(* conditional only where the code makes them so.  The serial number of a  *)
(* ticket is its place in the sequence, since tickets are never deleted.   *)
(* Abstracted: holders, prices, keys and signatures, the print quota,       *)
(* the days of the category, access rights.                                *)
(***************************************************************************)
EXTENDS Integers, Sequences, FiniteSets

CONSTANTS
    Requests,      \* requests being served
    Orders,        \* paid orders for this category, generated at most once each
    NoOrder,       \* an organizer's batch
    Size,          \* Size[o]: tickets in the order
    BatchSizes,    \* sizes of the organizer's batches
    Quantities,    \* values the organizer gives to the quantity
    InitialQuantity,
    BulkStatuses,  \* statuses the organizer sets in bulk
    MaxTickets     \* bound on the tickets ever generated

ASSUME SizesAssumption ==
    /\ Size \in [Orders -> Nat \ {0}] /\ BatchSizes \subseteq Nat \ {0}
    /\ NoOrder \notin Orders
ASSUME QuantitiesAssumption == Quantities \subseteq Nat \ {0} /\ InitialQuantity \in Nat
ASSUME MaxTicketsAssumption == MaxTickets \in Nat
ASSUME RequestsAssumption == IsFiniteSet(Requests)

VARIABLES
    pass,       \* the category is valid several days; its edit is in GateScan
    quantity,   \* TicketTemplate.quantity
    available,  \* TicketTemplate.availableCount
    tickets,    \* the tickets, by serial number
    event,      \* Event.status: "open" or "cancelled"
    sold,       \* orders whose generation was started
    refunded,   \* orders refunded
    job,        \* what each request is doing
    leak,       \* auxiliary: an edit replaced seats or a quantity it had not seen, or
                \* went below what was sold
    entered,    \* auxiliary: tickets the gate has let somebody in with
    doubled,    \* auxiliary: seats freed by, or given to, a ticket that had none to
                \* free, or that had given its seat up
    reopened    \* auxiliary: tickets a bulk change let open the gate, not refunded since

history == <<leak, entered, doubled, reopened>>    \* the auxiliary variables
vars == <<pass, quantity, available, tickets, event, sold, refunded, job, history>>

Live == {"VALID", "PENDING", "USED"}       \* may be, or is, inside
Unused == {"VALID", "PENDING"}
Statuses == Live \cup {"CANCELLED", "FRAUDULENT"}
ASSUME BulkStatusesAssumption == BulkStatuses \subseteq Statuses
Idle == [at |-> "idle"]

Serials == DOMAIN tickets
LiveTickets == {k \in Serials : tickets[k].status \in Live}
\* The tickets under which a seat is taken: those that may enter, those that did
Taken == LiveTickets \cup entered
Mark(S, s) == [k \in Serials |-> IF k \in S THEN [tickets[k] EXCEPT !.status = s]
                                 ELSE tickets[k]]

(***************************************************************************)
(* Type invariant.                                                         *)
(***************************************************************************)
TypeOK ==
    /\ pass \in BOOLEAN /\ quantity \in Nat /\ available \in Nat
    /\ tickets \in Seq([status : Statuses, order : Orders \cup {NoOrder}])
    /\ event \in {"open", "cancelled"}
    /\ refunded \subseteq sold /\ sold \subseteq Orders
    /\ \A r \in Requests : LET j == job[r] IN
         \/ j = Idle
         \/ j.at = "count" /\ j.order \in sold \cup {NoOrder} /\ j.size \in Nat
         \/ /\ j.at = "insert" /\ j.order \in sold \cup {NoOrder}
            /\ j.size \in Nat /\ j.base \in 0..Len(tickets)
         \/ j.at \in {"cancel", "free", "pass"} /\ j.ticket \in Serials
         \/ j.at = "claim" /\ j.order \in sold
         \/ j.at = "refund" /\ j.order \in sold /\ j.tickets \subseteq Serials
         \/ /\ j.at \in {"resize", "requantify"} /\ j.to \in Nat \ {0}
            /\ j.quantity \in Nat /\ j.available \in Nat
         \/ j.at \in {"cancelling", "closing"}
    /\ leak \in BOOLEAN /\ doubled \in Nat
    /\ entered \subseteq Serials /\ reopened \subseteq Serials

Init ==
    /\ pass \in BOOLEAN /\ quantity = InitialQuantity /\ available = InitialQuantity
    /\ tickets = <<>>
    /\ event = "open"
    /\ sold = {} /\ refunded = {}
    /\ job = [r \in Requests |-> Idle]
    /\ leak = FALSE /\ entered = {} /\ doubled = 0 /\ reopened = {}

At(r, step) == job[r].at = step
Goto(r, j) == job' = [job EXCEPT ![r] = j]
Done(r) == Goto(r, Idle)
LeakIf(broken) == leak' = (leak \/ broken) /\ UNCHANGED <<entered, doubled, reopened>>
\* The tickets of S free their seats, which those dead or inside do not have to give
Frees(S) == /\ doubled' = doubled + Cardinality(S \ (LiveTickets \ entered))
            /\ UNCHANGED <<leak, entered>>
\* The tickets of S come to life, those whose seat is given up without one
Revives(S) == doubled' = doubled + Cardinality(S \ Taken) /\ UNCHANGED leak

(***************************************************************************)
(* generateTickets.                                                        *)
(***************************************************************************)
\* Event and category are read: not cancelled, enough seats left
StartSale(r, o, n) ==
    /\ At(r, "idle") /\ event = "open" /\ n <= available
    /\ Len(tickets) + n <= MaxTickets
    /\ Goto(r, [at |-> "count", order |-> o, size |-> n])
    /\ UNCHANGED <<pass, quantity, available, tickets, event, refunded, history>>

SellOrder(r, o) ==
    /\ o \notin sold
    /\ sold' = sold \cup {o}
    /\ StartSale(r, o, Size[o])

MakeBatch(r) ==
    /\ \E n \in BatchSizes : StartSale(r, NoOrder, n)
    /\ UNCHANGED sold

\* The serial numbers follow the tickets counted now
CountTickets(r) ==
    /\ At(r, "count")
    /\ Goto(r, [at |-> "insert", order |-> job[r].order, size |-> job[r].size,
                base |-> Len(tickets)])
    /\ UNCHANGED <<pass, quantity, available, tickets, event, sold, refunded, history>>

NewTickets(r) == [k \in 1..job[r].size |-> [status |-> "VALID", order |-> job[r].order]]

\* Mutant: the seats seen at the start of the request are trusted
TrustPreflight(r) ==
    /\ At(r, "insert") /\ job[r].base = Len(tickets)
    /\ available' = available - job[r].size
    /\ tickets' = tickets \o NewTickets(r)
    /\ Done(r)
    /\ UNCHANGED <<pass, quantity, event, sold, refunded, history>>

\* One transaction: take the seats if enough are left, insert the tickets; a
\* serial number already taken undoes it
InsertBatch(r) ==
    /\ At(r, "insert")
    /\ IF available >= job[r].size /\ job[r].base = Len(tickets)
       THEN /\ available' = available - job[r].size
            /\ tickets' = tickets \o NewTickets(r)
       ELSE UNCHANGED <<available, tickets>>
    /\ Done(r)
    /\ UNCHANGED <<pass, quantity, event, sold, refunded, history>>

(***************************************************************************)
(* cancelTicket: a check, the ticket, then the seat.                       *)
(***************************************************************************)
StartCancel(r, k) ==
    /\ At(r, "idle")
    /\ tickets[k].status \notin {"CANCELLED", "USED"}
    /\ Goto(r, [at |-> "cancel", ticket |-> k, seen |-> tickets[k].status])
    /\ UNCHANGED <<pass, quantity, available, tickets, event, sold, refunded, history>>

CancelThen(r, freed) ==
    LET k == job[r].ticket IN
    /\ At(r, "cancel")
    /\ tickets' = Mark({k}, "CANCELLED")
    /\ IF job[r].seen \in freed THEN Goto(r, [job[r] EXCEPT !.at = "free"]) ELSE Done(r)
    /\ Frees(IF job[r].seen \in Unused THEN {k} ELSE {})
    /\ UNCHANGED <<pass, quantity, available, event, sold, refunded, reopened>>

\* Mutant: a seat comes back whatever the ticket was
CancelFraudFrees(r) == CancelThen(r, Unused \cup {"FRAUDULENT"})

SetCancelled(r) == CancelThen(r, Unused)

FreeSeat(r) ==
    /\ At(r, "free")
    /\ available' = available + 1
    /\ Done(r)
    /\ UNCHANGED <<pass, quantity, tickets, event, sold, refunded, history>>

(***************************************************************************)
(* Refund of a paid order.  The claim of the payment locks its row until   *)
(* the transaction ends: a second refund waits there, then finds it taken. *)
(***************************************************************************)
Of(o) == {k \in Serials : tickets[k].order = o}

StartRefund(r, o) ==
    /\ At(r, "idle") /\ Of(o) # {} /\ o \notin refunded
    /\ Goto(r, [at |-> "claim", order |-> o])
    /\ UNCHANGED <<pass, quantity, available, tickets, event, sold, refunded, history>>

Claimed(o) == \E r \in Requests : At(r, "refund") /\ job[r].order = o

\* Mutant: tickets still pending are forgotten
ClaimValidOnly(r) ==
    LET o == job[r].order IN
    /\ At(r, "claim") /\ ~Claimed(o)
    /\ IF o \in refunded THEN Done(r)
       ELSE Goto(r, [at |-> "refund", order |-> o,
                     tickets |-> {k \in Of(o) : tickets[k].status = "VALID"}])
    /\ UNCHANGED <<pass, quantity, available, tickets, event, sold, refunded, history>>

\* The tickets not used yet are read under the claim ...
ClaimRefund(r) ==
    LET o == job[r].order IN
    /\ At(r, "claim") /\ ~Claimed(o)
    /\ IF o \in refunded THEN Done(r)
       ELSE Goto(r, [at |-> "refund", order |-> o,
                     tickets |-> {k \in Of(o) : tickets[k].status \in Unused}])
    /\ UNCHANGED <<pass, quantity, available, tickets, event, sold, refunded, history>>

\* ... and cancelled one by one, whatever has happened to them since
CommitRefund(r) ==
    LET j == job[r] IN
    /\ At(r, "refund")
    /\ tickets' = Mark(j.tickets, "CANCELLED")
    /\ available' = available + Cardinality(j.tickets)
    /\ refunded' = refunded \cup {j.order}
    /\ Frees(j.tickets) /\ reopened' = reopened \ j.tickets
    /\ Done(r)
    /\ UNCHANGED <<pass, quantity, event, sold>>

(***************************************************************************)
(* The organizer's other writes: a bulk change of status, which moves no   *)
(* seat, and the edit of the category, in two updates.                     *)
(***************************************************************************)
\* The statuses that let a ticket in, a pass again on another of its days
Opening == IF pass THEN Live ELSE Unused

BulkStatus(k, s) ==
    /\ tickets' = Mark({k}, s)
    /\ Revives(IF s \in Live THEN {k} ELSE {})
    /\ reopened' = reopened \cup
         {i \in {k} : s \in Opening /\ ~({s, tickets[k].status} \subseteq Unused)}
    /\ UNCHANGED <<pass, quantity, available, event, sold, refunded, job, entered>>

\* What a form may send: a quantity typed in, or loaded earlier, or, when the design
\* of the tickets is saved, the seats that were left
FormQuantities == (Quantities \cup {available}) \ {0}

\* A quantity equal to the one read moves no seat, but is written all the same
StartEdit(r, q) ==
    /\ At(r, "idle")
    /\ Goto(r, [at |-> IF q = quantity THEN "requantify" ELSE "resize", to |-> q,
                quantity |-> quantity, available |-> available])
    /\ UNCHANGED <<pass, quantity, available, tickets, event, sold, refunded, history>>

\* Seats left: the new quantity less the seats read as taken, or none
Left(j) == LET n == j.to - (j.quantity - j.available) IN IF n > 0 THEN n ELSE 0

\* An edit about to write another quantity than the one it has read
Rewrites(j) == j.at = "requantify" /\ j.to # j.quantity

Resize(r) ==
    LET j == job[r] IN
    /\ At(r, "resize")
    /\ available' = Left(j)
    /\ LeakIf(\/ quantity # j.quantity \/ available # j.available
              \/ j.to < j.quantity - j.available
              \/ \E s \in Requests : Rewrites(job[s]))
    /\ Goto(r, [j EXCEPT !.at = "requantify"])
    /\ UNCHANGED <<pass, quantity, tickets, event, sold, refunded>>

Requantify(r) ==
    LET j == job[r] IN
    /\ At(r, "requantify")
    /\ quantity' = j.to
    /\ LeakIf(quantity # j.quantity)
    /\ Done(r)
    /\ UNCHANGED <<pass, available, tickets, event, sold, refunded>>

(***************************************************************************)
(* Cancellation of the event: a check, its status, then its tickets; no    *)
(* seat moves.                                                             *)
(***************************************************************************)
StartCancelEvent(r) ==
    /\ At(r, "idle") /\ event = "open"
    /\ Goto(r, [at |-> "cancelling"])
    /\ UNCHANGED <<pass, quantity, available, tickets, event, sold, refunded, history>>

CancelEvent(r) ==
    /\ At(r, "cancelling")
    /\ event' = "cancelled"
    /\ Goto(r, [at |-> "closing"])
    /\ UNCHANGED <<pass, quantity, available, tickets, sold, refunded, history>>

CancelTickets(r) ==
    /\ At(r, "closing")
    /\ tickets' = Mark({k \in Serials : tickets[k].status \in Unused}, "CANCELLED")
    /\ Done(r)
    /\ UNCHANGED <<pass, quantity, available, event, sold, refunded, history>>

(***************************************************************************)
(* The gate, which never looks at the event: a ticket is claimed in one    *)
(* conditional update, a pass is checked and then set used, and a code     *)
(* whose id and serial differ condemns the ticket it names.                *)
(***************************************************************************)
Admit(k) ==
    /\ ~pass /\ tickets[k].status \in Unused
    /\ tickets' = Mark({k}, "USED") /\ entered' = entered \cup {k}
    /\ UNCHANGED <<pass, quantity, available, event, sold, refunded, job,
                   leak, doubled, reopened>>

StartPass(r, k) ==
    /\ pass /\ At(r, "idle") /\ tickets[k].status \in Live
    /\ Goto(r, [at |-> "pass", ticket |-> k])
    /\ UNCHANGED <<pass, quantity, available, tickets, event, sold, refunded, history>>

EnterPass(r) ==
    LET k == job[r].ticket IN
    /\ At(r, "pass")
    /\ tickets' = Mark({k}, "USED") /\ entered' = entered \cup {k}
    /\ Revives({k})
    /\ Done(r)
    /\ UNCHANGED <<pass, quantity, available, event, sold, refunded, reopened>>

CondemnForged(k) ==
    /\ tickets' = Mark({k}, "FRAUDULENT")
    /\ UNCHANGED <<pass, quantity, available, event, sold, refunded, job, history>>

Sale(r) ==
    \/ \E o \in Orders : SellOrder(r, o)
    \/ MakeBatch(r)
    \/ CountTickets(r)
    \/ InsertBatch(r)

Cancellation(r) ==
    \/ \E k \in Serials : StartCancel(r, k)
    \/ SetCancelled(r)
    \/ FreeSeat(r)
    \/ StartCancelEvent(r)
    \/ CancelEvent(r)
    \/ CancelTickets(r)

Refund(r) ==
    \/ \E o \in Orders : StartRefund(r, o)
    \/ ClaimRefund(r)
    \/ CommitRefund(r)

Edit(r) ==
    \/ \E q \in FormQuantities : StartEdit(r, q)
    \/ Resize(r)
    \/ Requantify(r)

Gate ==
    \E k \in Serials : Admit(k) \/ CondemnForged(k)

Pass(r) ==
    \/ \E k \in Serials : StartPass(r, k)
    \/ EnterPass(r)

Bulk == \E k \in Serials, s \in BulkStatuses : BulkStatus(k, s)

Next ==
    \/ \E r \in Requests : Sale(r) \/ Cancellation(r) \/ Refund(r) \/ Edit(r) \/ Pass(r)
    \/ Gate
    \/ Bulk

Spec == Init /\ [][Next]_vars

(***************************************************************************)
(* Properties.                                                             *)
(***************************************************************************)
\* Seats a cancellation has taken from a ticket and not yet given back
Owed == Cardinality({r \in Requests : At(r, "free")})
\* The quantity, or the other one an edit is about to write
Capacities == {quantity} \cup {job[r].to : r \in {s \in Requests : Rewrites(job[s])}}

\* A seat is never both on sale and taken: however sales, cancellations, refunds, edits
\* and the gate interleave, the seats on sale, the seats being given back and the tickets
\* that may enter or have entered together fit the category, as long as no edit is based
\* on what has changed or goes below what was sold, but for one seat each time a ticket
\* already dead, or inside, frees one (a cancellation or a refund written over an entry),
\* or a ticket that had given its seat up comes back
NoSeatSoldTwice ==
    ~leak => \E q \in Capacities : available + Owed + Cardinality(Taken) <= q + doubled

\* Once the refund of an order is committed, no ticket of it which nobody has entered with
\* opens the gate, whatever else was running, but those that a bulk change opened again
\* and no refund took; of those somebody entered with, only a pass set USED does, on
\* another of its days (validation.service.ts:204): the refund does not close it
RefundedStaysOut ==
    \A o \in refunded : \A k \in Of(o) \ reopened :
        /\ tickets[k].status \notin Unused
        /\ tickets[k].status \in Opening => k \in entered
=============================================================================
