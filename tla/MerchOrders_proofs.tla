------------------------- MODULE MerchOrders_proofs -------------------------
(***************************************************************************)
(* Proofs about MerchOrders for any number of requests, orders, variants   *)
(* and goods, in layers: what each request holds (TypeInv); the one        *)
(* request that serves an order's payment (PayInv); the pieces the late    *)
(* payments took (ShortInv); how often an order was handed over (HandInv); *)
(* the balance of stock and orders (StockInv).                             *)
(***************************************************************************)
EXTENDS MerchOrders, FiniteSetTheorems, TLAPS

-----------------------------------------------------------------------------
(***************************************************************************)
(* The pieces of a variant in a set of orders.                             *)
(***************************************************************************)
PieceSet(v, os) == UNION {{o} \X (1..Items[o][v]) : o \in os}

LEMMA PiecesAre == \A v, os : Pieces(v, os) = Cardinality(PieceSet(v, os))
BY DEF Pieces, PieceSet

LEMMA OfOne ==
    ASSUME NEW v \in Variants, NEW o \in Orders
    PROVE  /\ Items[o][v] \in Nat /\ IsFiniteSet({o} \X (1..Items[o][v]))
           /\ Cardinality({o} \X (1..Items[o][v])) = Items[o][v]
<1> DEFINE n == Items[o][v]
<1>1. n \in Nat
  BY ItemsAssumption
<1> HIDE DEF n
<1>2. IsFiniteSet(1..n) /\ Cardinality(1..n) = n
  BY <1>1, FS_Interval
<1>3. IsFiniteSet({o}) /\ Cardinality({o}) = 1
  BY FS_Singleton
<1>4. IsFiniteSet({o} \X (1..n)) /\ Cardinality({o} \X (1..n)) = 1 * n
  BY <1>2, <1>3, FS_Product
<1> QED
  BY <1>1, <1>4 DEF n

LEMMA PiecesType ==
    ASSUME NEW v \in Variants, NEW os \in SUBSET Orders
    PROVE  IsFiniteSet(PieceSet(v, os)) /\ Pieces(v, os) \in Nat
<1> DEFINE f == [o \in os |-> {o} \X (1..Items[o][v])]
           lines == {{o} \X (1..Items[o][v]) : o \in os}
<1>1. IsFiniteSet(os)
  BY OrdersAssumption, FS_Subset
<1>2. f \in Surjection(os, lines)
  BY DEF Surjection
<1>3. IsFiniteSet(lines)
  BY <1>1, <1>2, FS_Surjection
<1>4. \A l \in lines : IsFiniteSet(l)
  BY OfOne
<1>5. IsFiniteSet(UNION lines)
  BY <1>3, <1>4, FS_UNION
<1> QED
  BY <1>5, FS_CardinalityType, PiecesAre DEF PieceSet

LEMMA PiecesMore ==
    ASSUME NEW v \in Variants, NEW S \in SUBSET Orders, NEW T \in SUBSET S
    PROVE  Pieces(v, T) <= Pieces(v, S)
<1>1. PieceSet(v, T) \subseteq PieceSet(v, S)
  BY DEF PieceSet
<1> QED
  BY <1>1, PiecesType, FS_Subset, PiecesAre

LEMMA PiecesAdd ==
    ASSUME NEW v \in Variants, NEW S \in SUBSET Orders, NEW o \in Orders, o \notin S
    PROVE  Pieces(v, S \cup {o}) = Pieces(v, S) + Items[o][v]
<1> DEFINE A == PieceSet(v, S)
           B == {o} \X (1..Items[o][v])
<1>1. PieceSet(v, S \cup {o}) = A \cup B
  BY DEF PieceSet
<1>2. A \cap B = {}
  BY DEF PieceSet
<1>3. IsFiniteSet(A) /\ IsFiniteSet(B) /\ Cardinality(B) = Items[o][v] /\ Items[o][v] \in Nat
  BY OfOne, PiecesType
<1>4. Cardinality(A) \in Nat /\ Cardinality(A \cap B) = 0
  BY <1>2, <1>3, FS_CardinalityType, FS_EmptySet
<1> HIDE DEF A, B
<1>5. Cardinality(A \cup B) = Cardinality(A) + Cardinality(B) - Cardinality(A \cap B)
  BY <1>3, FS_Union
<1>6. Cardinality(A \cup B) = Cardinality(A) + Items[o][v]
  BY <1>3, <1>4, <1>5
<1> QED
  BY <1>1, <1>6, PiecesAre DEF A

LEMMA PiecesLess ==
    ASSUME NEW v \in Variants, NEW S \in SUBSET Orders, NEW o \in S
    PROVE  Pieces(v, S \ {o}) = Pieces(v, S) - Items[o][v]
<1> DEFINE T == S \ {o}
<1>1. T \in SUBSET Orders /\ o \notin T /\ T \cup {o} = S /\ o \in Orders
  OBVIOUS
<1> HIDE DEF T
<1>2. Pieces(v, S) = Pieces(v, T) + Items[o][v]
  BY <1>1, PiecesAdd
<1>3. Pieces(v, T) \in Nat /\ Items[o][v] \in Nat
  BY <1>1, PiecesType, OfOne
<1> QED
  BY <1>2, <1>3 DEF T

\* An order without v does not count
LEMMA PiecesOthers ==
    ASSUME NEW v \in Variants, NEW o \in Orders, Items[o][v] = 0, NEW S \in SUBSET Orders
    PROVE  Pieces(v, S \ {o}) = Pieces(v, S)
<1>1. CASE o \in S
  BY <1>1, PiecesLess, PiecesType
<1>2. CASE o \notin S
  <2>1. S \ {o} = S
    BY <1>2
  <2> QED
    BY <2>1
<1> QED
  BY <1>1, <1>2

-----------------------------------------------------------------------------
(***************************************************************************)
(* Layer 1: what each request holds.                                       *)
(***************************************************************************)
Reading == [at : {"read"}, order : Orders]
Retaking == [at : {"retake"}, order : Orders, left : SUBSET Variants]
Marking == [at : {"paid"}, order : Orders, seen : {"PENDING_PAYMENT", "CANCELLED"}]
Refunding == [at : {"refund"}, order : Orders, seen : Statuses, handed : BOOLEAN]
Updating == [at : {"status"}, order : Orders, seen : Statuses, to : Statuses]
Editing == [at : {"stock"}, variant : Variants, seen : Int, to : Int]

Step(j) ==
    \/ j = Idle
    \/ j \in Reading \cup Retaking \cup Marking \cup Refunding
    \/ j \in Updating /\ j.to \in NextStatuses(j.order, j.seen)
    \/ j \in Editing /\ j.to >= 0

TypeInv ==
    /\ stock \in [Variants -> Int] /\ goods \in [Variants -> Int]
    /\ status \in [Orders -> Statuses]
    /\ payment \in [Orders -> {"open", "failed", "completed", "refunded"}]
    /\ handed \in [Orders -> Nat]
    /\ old \subseteq Orders /\ late \subseteq Orders /\ stale \subseteq Orders /\ edited \subseteq Variants
    /\ DOMAIN job = Requests /\ \A r \in Requests : Step(job[r])


LEMMA JobAt ==
    ASSUME TypeInv, NEW r \in Requests
    PROVE  /\ job[r].at = "read" => job[r] \in Reading
           /\ job[r].at = "retake" => job[r] \in Retaking
           /\ job[r].at = "paid" => job[r] \in Marking
           /\ job[r].at = "refund" => job[r] \in Refunding
           /\ job[r].at = "status" => job[r] \in Updating /\ job[r].to \in NextStatuses(job[r].order, job[r].seen)
           /\ job[r].at = "stock" => job[r] \in Editing /\ job[r].to >= 0
           /\ job[r].at = "idle" => job[r] = Idle
<1>1. Step(job[r])
  BY DEF TypeInv
<1>2. /\ \A k \in Reading : k.at = "read"
      /\ \A k \in Retaking : k.at = "retake"
      /\ \A k \in Marking : k.at = "paid"
      /\ \A k \in Refunding : k.at = "refund"
      /\ \A k \in Updating : k.at = "status"
      /\ \A k \in Editing : k.at = "stock"
      /\ Idle.at = "idle"
  BY DEF Reading, Retaking, Marking, Refunding, Updating, Editing, Idle
<1> QED
  BY <1>1, <1>2 DEF Step

LEMMA TypeInvImplies == TypeInv => TypeOK
<1> SUFFICES ASSUME TypeInv PROVE TypeOK
  OBVIOUS
<1>1. ASSUME NEW r \in Requests
      PROVE  LET j == job[r] IN
         \/ j = Idle
         \/ j.at = "read" /\ j.order \in Orders
         \/ j.at = "retake" /\ j.order \in Orders /\ j.left \subseteq Variants
         \/ j.at \in {"paid", "refund"} /\ j.order \in Orders /\ j.seen \in Statuses
         \/ j.at = "status" /\ j.order \in Orders /\ j.to \in NextStatuses(j.order, j.seen)
         \/ j.at = "stock" /\ j.variant \in Variants /\ j.seen \in Int /\ j.to \in Int
  <2>1. Step(job[r])
    BY DEF TypeInv
  <2> QED
    BY <2>1 DEF Step, Reading, Retaking, Marking, Refunding, Updating, Editing, Statuses
<1> QED
  BY <1>1 DEF TypeInv, TypeOK

\* What an update asks for
LEMMA NextAre ==
    \A o, s : \A to \in NextStatuses(o, s) :
        /\ s \in {"PAID", "READY", "SHIPPED"} /\ to \in {"READY", "SHIPPED", "PICKED_UP", "DELIVERED", "CANCELLED"}
BY DEF NextStatuses, Successors

LEMMA InitTypeInv == Init => TypeInv
<1> SUFFICES ASSUME Init PROVE TypeInv
  OBVIOUS
<1>1. \A r \in Requests : Step(job[r])
  BY DEF Init, Step
<1>2. Stock \in [Variants -> Int]
  BY StockAssumption
<1>3. status \in [Orders -> Statuses] /\ handed \in [Orders -> Nat]
  BY DEF Init, Statuses
<1> QED
  BY <1>1, <1>2, <1>3 DEF Init, TypeInv

LEMMA StepTypeInv == TypeInv /\ [Next]_vars => TypeInv'
<1> SUFFICES ASSUME TypeInv, [Next]_vars PROVE TypeInv'
  OBVIOUS
<1>t. /\ stock \in [Variants -> Int] /\ goods \in [Variants -> Int]
      /\ status \in [Orders -> Statuses]
      /\ payment \in [Orders -> {"open", "failed", "completed", "refunded"}]
      /\ handed \in [Orders -> Nat]
      /\ old \subseteq Orders /\ late \subseteq Orders /\ stale \subseteq Orders /\ edited \subseteq Variants
      /\ DOMAIN job = Requests /\ \A r \in Requests : Step(job[r])
  BY DEF TypeInv
<1>g. ASSUME NEW r \in Requests, NEW k, Goto(r, k), Step(k)
      PROVE  DOMAIN job' = Requests /\ \A q \in Requests : Step(job'[q])
  BY <1>t, <1>g DEF Goto
<1>d. ASSUME NEW r \in Requests, Done(r)
      PROVE  DOMAIN job' = Requests /\ \A q \in Requests : Step(job'[q])
  BY <1>d, <1>g DEF Done, Step
<1>i. \A v \in Variants, o \in Orders : Items[o][v] \in Int
  BY ItemsAssumption
<1>p. ASSUME NEW o \in Orders, PutBack(o) PROVE stock' \in [Variants -> Int]
  BY <1>t, <1>i, <1>p DEF PutBack
<1>s. ASSUME NEW o \in Orders, NEW s \in Statuses, SetStatus(o, s) PROVE status' \in [Orders -> Statuses]
  BY <1>t, <1>s DEF SetStatus
\* A request that keeps what it read, or a step of the payment
<1>k. ASSUME NEW r \in Requests, NEW k, Goto(r, k), Step(k),
             UNCHANGED <<stock, status, old, handed, goods, late, stale, edited>>,
             payment' \in [Orders -> {"open", "failed", "completed", "refunded"}]
      PROVE  TypeInv'
  BY <1>t, <1>g, <1>k DEF TypeInv
<1>1. ASSUME NEW o \in Orders, CreatePendingOrder(o) PROVE TypeInv'
  <2>1. stock' \in [Variants -> Int]
    BY <1>t, <1>i, <1>1 DEF CreatePendingOrder
  <2>2. status' \in [Orders -> Statuses]
    BY <1>s, <1>1 DEF CreatePendingOrder, Statuses
  <2> QED
    BY <1>t, <1>1, <2>1, <2>2 DEF CreatePendingOrder, TypeInv
<1>2. ASSUME NEW o \in Orders, ReleaseOrder(o) PROVE TypeInv'
  <2>1. stock' \in [Variants -> Int] /\ status' \in [Orders -> Statuses]
    BY <1>s, <1>p, <1>2 DEF ReleaseOrder, Statuses
  <2> QED
    BY <1>t, <1>2, <2>1 DEF ReleaseOrder, TypeInv
<1>3. ASSUME NEW o \in Orders, FailPayment(o) \/ GrowOld(o) PROVE TypeInv'
  BY <1>t, <1>3 DEF FailPayment, GrowOld, TypeInv
<1>4. ASSUME NEW o \in Orders, HandOver(o) PROVE TypeInv'
  <2>1. status' \in [Orders -> Statuses]
    BY <1>s, <1>4 DEF HandOver, Statuses
  <2>2. handed' \in [Orders -> Nat]
    BY <1>t, <1>4 DEF HandOver
  <2> QED
    BY <1>t, <1>4, <2>1, <2>2 DEF HandOver, TypeInv
<1>5. ASSUME NEW r \in Requests, NEW o \in Orders, CompletePayment(r, o) PROVE TypeInv'
  <2> DEFINE k == [at |-> "read", order |-> o]
  <2>1. Step(k)
    BY DEF Step, Reading
  <2>2. payment' \in [Orders -> {"open", "failed", "completed", "refunded"}]
    BY <1>t, <1>5 DEF CompletePayment
  <2>3. Goto(r, k)
    BY <1>5 DEF CompletePayment
  <2> HIDE DEF k
  <2> QED
    BY <1>k, <1>5, <2>1, <2>2, <2>3 DEF CompletePayment
<1>6. ASSUME NEW r \in Requests, ReadOrder(r) PROVE TypeInv'
  <2> DEFINE o == job[r].order
             retake == [at |-> "retake", order |-> o, left |-> {v \in Variants : Items[o][v] > 0}]
             paid == [at |-> "paid", order |-> o, seen |-> status[o]]
  <2>1. o \in Orders /\ status[o] \in Statuses
    BY <1>t, <1>6, JobAt DEF ReadOrder, At, Reading
  <2>2. Step(retake) /\ (status[o] = "PENDING_PAYMENT" => Step(paid))
    BY <2>1 DEF Step, Retaking, Marking
  <2>3. \/ Goto(r, retake) \/ Done(r)
        \/ Goto(r, paid) /\ status[o] = "PENDING_PAYMENT"
    BY <1>6 DEF ReadOrder
  <2> HIDE DEF retake, paid
  <2> QED
    BY <1>t, <1>g, <1>d, <1>6, <2>2, <2>3 DEF ReadOrder, TypeInv
<1>7. ASSUME NEW r \in Requests, Retake(r) PROVE TypeInv'
  <2> DEFINE o == job[r].order
             paid == [at |-> "paid", order |-> o, seen |-> "CANCELLED"]
             less(v) == [job[r] EXCEPT !.left = @ \ {v}]
  <2>1. job[r] \in Retaking
    BY <1>7, JobAt DEF Retake, At
  <2>2. o \in Orders /\ job[r].left \subseteq Variants
    BY <2>1 DEF Retaking
  <2>3. PICK v \in job[r].left : stock' = [stock EXCEPT ![v] = @ - Items[o][v]]
                                 /\ (Goto(r, paid) \/ Goto(r, less(v)))
    BY <1>7 DEF Retake
  <2>4. Step(paid)
    BY <2>2 DEF Step, Marking, Statuses
  <2>5. less(v) \in Retaking
    BY <2>1 DEF Retaking
  <2>6. Step(less(v))
    BY <2>5 DEF Step
  <2>7. stock' \in [Variants -> Int]
    BY <1>t, <1>i, <2>2, <2>3
  <2>8. DOMAIN job' = Requests /\ \A q \in Requests : Step(job'[q])
    <3> HIDE DEF paid, less
    <3> QED
      BY <1>g, <2>3, <2>4, <2>6
  <2>9. late' \subseteq Orders
    BY <1>t, <1>7, <2>2 DEF Retake
  <2> QED
    BY <1>t, <1>7, <2>7, <2>8, <2>9 DEF Retake, TypeInv
<1>8. ASSUME NEW r \in Requests, SetPaid(r) PROVE TypeInv'
  <2>1. job[r].order \in Orders
    BY <1>8, JobAt DEF SetPaid, At, Marking
  <2>2. status' \in [Orders -> Statuses]
    BY <1>s, <1>8, <2>1 DEF SetPaid, Statuses
  <2>3. stale' \subseteq Orders
    BY <1>t, <1>8, <2>1 DEF SetPaid, StaleIf
  <2> QED
    BY <1>t, <1>d, <1>8, <2>2, <2>3 DEF SetPaid, TypeInv
<1>9. ASSUME NEW r \in Requests, MarkPaidFails(r) \/ RefundRefused(r) PROVE TypeInv'
  BY <1>t, <1>d, <1>9 DEF MarkPaidFails, RefundRefused, TypeInv
<1>10. ASSUME NEW r \in Requests, NEW o \in Orders, NEW s \in Statuses, StartUpdate(r, o, s) PROVE TypeInv'
  <2> DEFINE k == [at |-> "status", order |-> o, seen |-> status[o], to |-> s]
  <2>1. k \in Updating /\ k.to = s /\ k.order = o /\ k.seen = status[o]
    BY <1>t DEF Updating
  <2>2. Step(k)
    BY <1>10, <2>1 DEF Step, StartUpdate
  <2>3. Goto(r, k)
    BY <1>10 DEF StartUpdate
  <2> HIDE DEF k
  <2> QED
    BY <1>t, <1>k, <1>10, <2>2, <2>3 DEF StartUpdate
<1>11. ASSUME NEW r \in Requests, SetOrderStatus(r) PROVE TypeInv'
  <2>1. job[r].order \in Orders /\ job[r].to \in Statuses
    BY <1>11, JobAt DEF SetOrderStatus, At, Updating
  <2>2. status' \in [Orders -> Statuses]
    BY <1>s, <1>11, <2>1 DEF SetOrderStatus
  <2>3. stock' \in [Variants -> Int]
    BY <1>t, <1>p, <1>11, <2>1 DEF SetOrderStatus
  <2>4. handed' \in [Orders -> Nat]
    BY <1>t, <1>11, <2>1 DEF SetOrderStatus
  <2>5. stale' \subseteq Orders
    BY <1>t, <1>11, <2>1 DEF SetOrderStatus, StaleIf
  <2> QED
    BY <1>t, <1>d, <1>11, <2>2, <2>3, <2>4, <2>5 DEF SetOrderStatus, TypeInv
<1>12. ASSUME NEW r \in Requests, NEW v \in Variants, NEW n \in Arrivals, StartStockEdit(r, v, n) PROVE TypeInv'
  <2> DEFINE k == [at |-> "stock", variant |-> v, seen |-> stock[v], to |-> stock[v] + n]
  <2>1. stock[v] \in Int /\ n \in Int /\ stock[v] + n >= 0
    BY <1>t, <1>12, StockAssumption DEF StartStockEdit
  <2>2. Step(k)
    BY <2>1 DEF Step, Editing
  <2>3. Goto(r, k)
    BY <1>12 DEF StartStockEdit
  <2> HIDE DEF k
  <2> QED
    BY <1>t, <1>k, <1>12, <2>2, <2>3 DEF StartStockEdit
<1>13. ASSUME NEW r \in Requests, SetStock(r) PROVE TypeInv'
  <2>1. job[r].variant \in Variants /\ job[r].to \in Int /\ job[r].seen \in Int
    BY <1>13, JobAt DEF SetStock, At, Editing
  <2>2. stock' \in [Variants -> Int] /\ goods' \in [Variants -> Int]
    BY <1>t, <1>13, <2>1 DEF SetStock
  <2>3. edited' \subseteq Variants
    BY <1>t, <1>13, <2>1 DEF SetStock
  <2> QED
    BY <1>t, <1>d, <1>13, <2>2, <2>3 DEF SetStock, TypeInv
<1>14. ASSUME NEW r \in Requests, NEW o \in Orders, StartRefund(r, o) PROVE TypeInv'
  <2> DEFINE k == [at |-> "refund", order |-> o, seen |-> status[o], handed |-> handed[o] > 0]
  <2>1. (handed[o] > 0) \in BOOLEAN /\ status[o] \in Statuses
    BY <1>t
  <2>2. Step(k)
    BY <2>1 DEF Step, Refunding
  <2>3. Goto(r, k)
    BY <1>14 DEF StartRefund
  <2> HIDE DEF k
  <2> QED
    BY <1>t, <1>k, <1>14, <2>2, <2>3 DEF StartRefund
<1>15. ASSUME NEW r \in Requests, RefundTx(r) PROVE TypeInv'
  <2>1. job[r].order \in Orders
    BY <1>15, JobAt DEF RefundTx, At, Refunding
  <2>2. status' \in [Orders -> Statuses]
    BY <1>t, <1>s, <1>15, <2>1 DEF RefundTx, Statuses
  <2>3. stock' \in [Variants -> Int]
    BY <1>t, <1>p, <1>15, <2>1 DEF RefundTx
  <2>4. payment' \in [Orders -> {"open", "failed", "completed", "refunded"}]
    BY <1>t, <1>15, <2>1 DEF RefundTx
  <2>5. stale' \subseteq Orders
    BY <1>t, <1>15, <2>1 DEF RefundTx, StaleIf
  <2> QED
    BY <1>t, <1>d, <1>15, <2>2, <2>3, <2>4, <2>5 DEF RefundTx, TypeInv
<1>16. CASE UNCHANGED vars
  BY <1>t, <1>16 DEF vars, TypeInv
<1> QED
  BY <1>1, <1>2, <1>3, <1>4, <1>5, <1>6, <1>7, <1>8, <1>9, <1>10, <1>11, <1>12, <1>13, <1>14, <1>15, <1>16
     DEF Next, Checkout, MarkPaid, Organizer, Refund, CloseCheckout, CancelForPayment, ExpireStale

\* Type correctness of orders, stock and requests, for every number of them.
THEOREM TypeCorrect == Spec => []TypeOK
<1>1. Spec => []TypeInv
  BY InitTypeInv, StepTypeInv, PTL DEF Spec
<1> QED
  BY <1>1, TypeInvImplies, PTL

-----------------------------------------------------------------------------
(***************************************************************************)
(* Layer 2: one request serves the payment of an order, once it is         *)
(* completed, and nothing was taken again before it read the order.        *)
(***************************************************************************)
Serving(r, o) == job[r].at \in {"read", "retake", "paid"} /\ job[r].order = o
PaidOnce(o) ==
    /\ \A r, q \in Requests : Serving(r, o) /\ Serving(q, o) => r = q
    /\ (\E r \in Requests : Serving(r, o)) \/ o \in late => payment[o] \notin {"open", "failed"}
    /\ payment[o] \notin {"open", "failed"} => status[o] # "none"
    /\ \A r \in Requests : Serving(r, o) /\ At(r, "read") => o \notin late
PayInv ==
    /\ \A o \in Orders : PaidOnce(o)
    /\ \A r \in Requests : At(r, "refund") => job[r].seen # "none"

LEMMA InitPayInv == Init => PayInv
BY DEF Init, Idle, PayInv, PaidOnce, Serving, At

LEMMA StepPayInv == TypeInv /\ PayInv /\ [Next]_vars => PayInv'
<1> SUFFICES ASSUME TypeInv, PayInv, [Next]_vars PROVE PayInv'
  OBVIOUS
<1>t. /\ status \in [Orders -> Statuses] /\ late \subseteq Orders
      /\ payment \in [Orders -> {"open", "failed", "completed", "refunded"}]
      /\ DOMAIN job = Requests
  BY DEF TypeInv
<1>g. (\A o \in Orders : PaidOnce(o)) /\ \A r \in Requests : At(r, "refund") => job[r].seen # "none"
  BY DEF PayInv
<1>o. ASSUME NEW r \in Requests, NEW k, Goto(r, k)
      PROVE  job'[r] = k /\ \A q \in Requests : q # r => job'[q] = job[q]
  BY <1>t, <1>o DEF Goto
\* What an order keeps when nobody comes to serve it
<1>k. ASSUME NEW o \in Orders, \A r \in Requests : Serving(r, o)' => Serving(r, o),
             \A r \in Requests : Serving(r, o)' /\ At(r, "read")' => At(r, "read"),
             o \in late' => o \in late \/ payment'[o] \notin {"open", "failed"},
             o \in late' => o \in late \/ \A r \in Requests : Serving(r, o)' => ~At(r, "read")',
             payment[o] \notin {"open", "failed"} => payment'[o] \notin {"open", "failed"},
             payment'[o] \notin {"open", "failed"} => status'[o] # "none"
      PROVE  PaidOnce(o)'
  <2>1. PaidOnce(o)
    BY <1>g
  <2> QED
    BY <1>k, <2>1 DEF PaidOnce
\* Steps after which no more is being served
<1>l. ASSUME \A r \in Requests, o \in Orders : Serving(r, o)' => Serving(r, o),
             \A r \in Requests, o \in Orders : Serving(r, o)' /\ At(r, "read")' => At(r, "read"),
             \A r \in Requests : At(r, "refund")' => job'[r].seen # "none",
             late' = late,
             \A o \in Orders : payment[o] \notin {"open", "failed"} => payment'[o] \notin {"open", "failed"},
             \A o \in Orders : payment'[o] \notin {"open", "failed"} => payment[o] \notin {"open", "failed"},
             \A o \in Orders : status[o] # "none" => status'[o] # "none"
      PROVE  PayInv'
  <2>1. ASSUME NEW o \in Orders PROVE PaidOnce(o)'
    <3>1. payment'[o] \notin {"open", "failed"} => status'[o] # "none"
      BY <1>g, <1>l DEF PaidOnce
    <3> QED
      BY <1>k, <1>l, <3>1
  <2> QED
    BY <1>l, <2>1 DEF PayInv
<1>j. ASSUME UNCHANGED <<job, late>>,
             \A o \in Orders : payment[o] \notin {"open", "failed"} <=> payment'[o] \notin {"open", "failed"},
             \A o \in Orders : status[o] # "none" => status'[o] # "none"
      PROVE  PayInv'
  <2>1. /\ \A r \in Requests, o \in Orders : Serving(r, o)' => Serving(r, o)
        /\ \A r \in Requests, o \in Orders : Serving(r, o)' /\ At(r, "read")' => At(r, "read")
        /\ \A r \in Requests : At(r, "refund")' => job'[r].seen # "none"
    BY <1>g, <1>j DEF Serving, At
  <2> QED
    BY <1>j, <1>l, <2>1
\* A request that serves no payment after its step
<1>n. ASSUME NEW r \in Requests, NEW k, Goto(r, k), k.at \notin {"read", "retake", "paid"},
             k.at = "refund" => k.seen # "none", late' = late,
             \A o \in Orders : payment[o] \notin {"open", "failed"} <=> payment'[o] \notin {"open", "failed"},
             \A o \in Orders : status[o] # "none" => status'[o] # "none"
      PROVE  PayInv'
  <2>1. \A q \in Requests, o \in Orders : Serving(q, o)' => Serving(q, o)
    BY <1>n, <1>o DEF Serving
  <2>2. \A q \in Requests, o \in Orders : Serving(q, o)' /\ At(q, "read")' => At(q, "read")
    BY <1>n, <1>o DEF Serving, At
  <2>3. \A q \in Requests : At(q, "refund")' => job'[q].seen # "none"
    BY <1>g, <1>n, <1>o DEF At
  <2> QED
    BY <1>l, <1>n, <2>1, <2>2, <2>3
<1>d. ASSUME NEW r \in Requests, Done(r), late' = late,
             \A o \in Orders : payment[o] \notin {"open", "failed"} <=> payment'[o] \notin {"open", "failed"},
             \A o \in Orders : status[o] # "none" => status'[o] # "none"
      PROVE  PayInv'
  BY <1>d, <1>n DEF Done, Idle
<1>s. ASSUME NEW o \in Orders, NEW s, s # "none", SetStatus(o, s)
      PROVE  \A p \in Orders : status[p] # "none" => status'[p] # "none"
  BY <1>t, <1>s DEF SetStatus
<1>1. ASSUME NEW o \in Orders, CreatePendingOrder(o) \/ ReleaseOrder(o) \/ HandOver(o) PROVE PayInv'
  <2>1. \A p \in Orders : status[p] # "none" => status'[p] # "none"
    BY <1>s, <1>1 DEF CreatePendingOrder, ReleaseOrder, HandOver
  <2> QED
    BY <1>j, <1>1, <2>1 DEF CreatePendingOrder, ReleaseOrder, HandOver
<1>2. ASSUME NEW o \in Orders, FailPayment(o) \/ GrowOld(o) PROVE PayInv'
  <2>1. \A p \in Orders : payment[p] \notin {"open", "failed"} <=> payment'[p] \notin {"open", "failed"}
    BY <1>t, <1>2 DEF FailPayment, GrowOld
  <2> QED
    BY <1>j, <1>2, <2>1 DEF FailPayment, GrowOld
\* The one request that serves the payment starts when it is completed
<1>3. ASSUME NEW r \in Requests, NEW o \in Orders, CompletePayment(r, o) PROVE PayInv'
  <2> DEFINE k == [at |-> "read", order |-> o]
  <2>1. /\ Goto(r, k) /\ payment[o] = "open" /\ status[o] # "none" /\ UNCHANGED <<status, late>>
        /\ payment' = [payment EXCEPT ![o] = "completed"]
    BY <1>3 DEF CompletePayment
  <2>2. k.at = "read" /\ k.order = o
    OBVIOUS
  <2> HIDE DEF k
  <2>3. payment'[o] = "completed" /\ \A p \in Orders : p # o => payment'[p] = payment[p]
    BY <1>t, <2>1
  <2>4. PaidOnce(o)'
    <3>1. o \notin late /\ \A q \in Requests : ~Serving(q, o)
      BY <1>g, <2>1 DEF PaidOnce
    <3>2. \A q \in Requests : Serving(q, o)' => q = r
      BY <1>o, <2>1, <3>1 DEF Serving
    <3> QED
      BY <2>1, <2>3, <3>1, <3>2 DEF PaidOnce
  <2>5. ASSUME NEW p \in Orders, p # o PROVE PaidOnce(p)'
    <3>1. \A q \in Requests : Serving(q, p)' => Serving(q, p)
      BY <1>o, <2>1, <2>2, <2>5 DEF Serving
    <3>2. \A q \in Requests : Serving(q, p)' /\ At(q, "read")' => At(q, "read")
      BY <1>o, <2>1, <2>2, <2>5 DEF Serving, At
    <3>3. PaidOnce(p)
      BY <1>g
    <3> QED
      BY <1>k, <2>1, <2>3, <2>5, <3>1, <3>2, <3>3 DEF PaidOnce
  <2>6. \A q \in Requests : At(q, "refund")' => job'[q].seen # "none"
    BY <1>g, <1>o, <2>1, <2>2 DEF At
  <2> QED
    BY <2>4, <2>5, <2>6 DEF PayInv
\* A request goes on serving its order
<1>f. ASSUME NEW r \in Requests, NEW k, Goto(r, k), k.at \in {"retake", "paid"}, k.order = job[r].order,
             job[r].at \in {"read", "retake", "paid"}, job[r].order \in Orders,
             late' \in {late, late \cup {k.order}}, UNCHANGED <<payment, status>>
      PROVE  PayInv'
  <2>1. \A q \in Requests, p \in Orders : Serving(q, p)' => Serving(q, p)
    BY <1>f, <1>o DEF Serving
  <2>2. \A q \in Requests, p \in Orders : Serving(q, p)' /\ At(q, "read")' => At(q, "read")
    BY <1>f, <1>o DEF Serving, At
  <2>3. Serving(r, job[r].order)
    BY <1>f DEF Serving
  <2>4. ASSUME NEW p \in Orders PROVE PaidOnce(p)'
    <3>1. PaidOnce(p)
      BY <1>g
    <3>2. p \in late' => p \in late \/ payment'[p] \notin {"open", "failed"}
      BY <1>f, <2>3, <3>1 DEF PaidOnce
    <3>3. p \in late' => p \in late \/ \A q \in Requests : Serving(q, p)' => ~At(q, "read")'
      <4>1. CASE p = job[r].order
        <5>1. \A q \in Requests : Serving(q, p)' => q = r
          BY <2>1, <2>3, <3>1, <4>1 DEF PaidOnce
        <5>2. ~At(r, "read")'
          BY <1>f, <1>o DEF At
        <5> QED
          BY <5>1, <5>2
      <4> QED
        BY <1>f, <4>1
    <3>4. payment'[p] \notin {"open", "failed"} => status'[p] # "none"
      BY <1>f, <3>1 DEF PaidOnce
    <3> QED
      BY <1>f, <1>k, <2>1, <2>2, <3>2, <3>3, <3>4
  <2>5. \A q \in Requests : At(q, "refund")' => job'[q].seen # "none"
    BY <1>f, <1>g, <1>o DEF At
  <2> QED
    BY <2>4, <2>5 DEF PayInv
<1>4. ASSUME NEW r \in Requests, ReadOrder(r) PROVE PayInv'
  <2> DEFINE o == job[r].order
             retake == [at |-> "retake", order |-> o, left |-> {v \in Variants : Items[o][v] > 0}]
             paid == [at |-> "paid", order |-> o, seen |-> status[o]]
  <2>1. o \in Orders /\ job[r].at = "read"
    BY <1>4, JobAt DEF ReadOrder, At, Reading
  <2>2. (Goto(r, retake) \/ Goto(r, paid) \/ Done(r)) /\ UNCHANGED <<payment, status, late>>
    BY <1>4 DEF ReadOrder
  <2>3. /\ retake.at \in {"retake", "paid"} /\ retake.order = o
        /\ paid.at \in {"retake", "paid"} /\ paid.order = o
    OBVIOUS
  <2> HIDE DEF retake, paid
  <2>4. CASE Goto(r, retake)
    BY <1>f, <2>1, <2>2, <2>3, <2>4
  <2>5. CASE Goto(r, paid)
    BY <1>f, <2>1, <2>2, <2>3, <2>5
  <2>6. CASE Done(r)
    BY <1>d, <2>2, <2>6
  <2> QED
    BY <2>2, <2>4, <2>5, <2>6
<1>5. ASSUME NEW r \in Requests, Retake(r) PROVE PayInv'
  <2> DEFINE o == job[r].order
             paid == [at |-> "paid", order |-> o, seen |-> "CANCELLED"]
             less(v) == [job[r] EXCEPT !.left = @ \ {v}]
  <2>1. job[r] \in Retaking
    BY <1>5, JobAt DEF Retake, At
  <2>2. PICK v \in job[r].left : Goto(r, paid) \/ Goto(r, less(v))
    BY <1>5 DEF Retake
  <2>3. /\ paid.at \in {"retake", "paid"} /\ paid.order = o
        /\ less(v).at \in {"retake", "paid"} /\ less(v).order = o /\ o \in Orders
        /\ job[r].at \in {"read", "retake", "paid"}
    BY <2>1 DEF Retaking
  <2>4. late' = late \cup {o} /\ UNCHANGED <<payment, status>>
    BY <1>5 DEF Retake
  <2> HIDE DEF paid, less
  <2>5. CASE Goto(r, paid)
    BY <1>f, <2>3, <2>4, <2>5
  <2>6. CASE Goto(r, less(v))
    BY <1>f, <2>3, <2>4, <2>6
  <2> QED
    BY <2>2, <2>5, <2>6
<1>6. ASSUME NEW r \in Requests, SetPaid(r) PROVE PayInv'
  <2>1. job[r].order \in Orders
    BY <1>6, JobAt DEF SetPaid, At, Marking
  <2>2. \A p \in Orders : status[p] # "none" => status'[p] # "none"
    BY <1>s, <1>6, <2>1 DEF SetPaid
  <2> QED
    BY <1>d, <1>6, <2>2 DEF SetPaid
<1>7. ASSUME NEW r \in Requests, MarkPaidFails(r) \/ RefundRefused(r) PROVE PayInv'
  BY <1>d, <1>7 DEF MarkPaidFails, RefundRefused
<1>8. ASSUME NEW r \in Requests, NEW o \in Orders, NEW s \in Statuses, StartUpdate(r, o, s) PROVE PayInv'
  <2> DEFINE k == [at |-> "status", order |-> o, seen |-> status[o], to |-> s]
  <2>1. Goto(r, k) /\ k.at = "status" /\ UNCHANGED <<late, payment, status>>
    BY <1>8 DEF StartUpdate
  <2> HIDE DEF k
  <2> QED
    BY <1>n, <2>1
<1>9. ASSUME NEW r \in Requests, SetOrderStatus(r) PROVE PayInv'
  <2>1. job[r].order \in Orders /\ job[r].to # "none"
    BY <1>9, JobAt, NextAre DEF SetOrderStatus, At, Updating
  <2>2. \A p \in Orders : status[p] # "none" => status'[p] # "none"
    BY <1>s, <1>9, <2>1 DEF SetOrderStatus
  <2> QED
    BY <1>d, <1>9, <2>2 DEF SetOrderStatus
<1>10. ASSUME NEW r \in Requests, NEW v \in Variants, NEW n \in Arrivals, StartStockEdit(r, v, n) PROVE PayInv'
  <2> DEFINE k == [at |-> "stock", variant |-> v, seen |-> stock[v], to |-> stock[v] + n]
  <2>1. Goto(r, k) /\ k.at = "stock" /\ UNCHANGED <<late, payment, status>>
    BY <1>10 DEF StartStockEdit
  <2> HIDE DEF k
  <2> QED
    BY <1>n, <2>1
<1>11. ASSUME NEW r \in Requests, SetStock(r) PROVE PayInv'
  BY <1>d, <1>11 DEF SetStock
<1>12. ASSUME NEW r \in Requests, NEW o \in Orders, StartRefund(r, o) PROVE PayInv'
  <2> DEFINE k == [at |-> "refund", order |-> o, seen |-> status[o], handed |-> handed[o] > 0]
  <2>1. Goto(r, k) /\ k.at = "refund" /\ k.seen = status[o] /\ UNCHANGED <<late, payment, status>>
        /\ payment[o] = "completed"
    BY <1>12 DEF StartRefund
  <2>2. status[o] # "none"
    BY <1>g, <2>1 DEF PaidOnce
  <2> HIDE DEF k
  <2> QED
    BY <1>n, <2>1, <2>2
<1>13. ASSUME NEW r \in Requests, RefundTx(r) PROVE PayInv'
  <2>1. job[r].order \in Orders
    BY <1>13, JobAt DEF RefundTx, At, Refunding
  <2>2. \A p \in Orders : status[p] # "none" => status'[p] # "none"
    BY <1>s, <1>13, <2>1 DEF RefundTx
  <2>3. \A p \in Orders : payment[p] \notin {"open", "failed"} <=> payment'[p] \notin {"open", "failed"}
    BY <1>t, <1>13, <2>1 DEF RefundTx
  <2> QED
    BY <1>d, <1>13, <2>2, <2>3 DEF RefundTx
<1>14. CASE UNCHANGED vars
  BY <1>14, <1>j DEF vars
<1> QED
  BY <1>1, <1>2, <1>3, <1>4, <1>5, <1>6, <1>7, <1>8, <1>9, <1>10, <1>11, <1>12, <1>13, <1>14
     DEF Next, Checkout, MarkPaid, Organizer, Refund, CloseCheckout, CancelForPayment, ExpireStale

-----------------------------------------------------------------------------
(***************************************************************************)
(* Layer 3: what late payments took, apart from the lines that a request   *)
(* has still to take.                                                      *)
(***************************************************************************)
ToTake(v, o) == \E r \in Requests : At(r, "retake") /\ job[r].order = o /\ v \in job[r].left
TookAgain(v) == {o \in late : ~ToTake(v, o)}
ShortInv == \A v \in Variants : stock[v] + Pieces(v, TookAgain(v)) >= 0

LEMMA InitShortInv == Init => ShortInv
<1> SUFFICES ASSUME Init, NEW v \in Variants PROVE stock[v] + Pieces(v, TookAgain(v)) >= 0
  BY DEF ShortInv
<1>1. TookAgain(v) \in SUBSET Orders
  BY DEF Init, TookAgain
<1>2. Pieces(v, TookAgain(v)) \in Nat
  BY <1>1, PiecesType
<1>3. stock[v] \in Nat
  BY StockAssumption DEF Init
<1> QED
  BY <1>2, <1>3

\* A request that comes to take nothing leaves what was taken
LEMMA TookGrows ==
    ASSUME TypeInv, NEW r \in Requests, NEW k, Goto(r, k), k.at # "retake", late' = late, NEW v \in Variants
    PROVE  TookAgain(v) \subseteq TookAgain(v)'
<1>1. job'[r] = k /\ \A q \in Requests : q # r => job'[q] = job[q]
  BY DEF TypeInv, Goto
<1>2. \A o \in Orders : ToTake(v, o)' => ToTake(v, o)
  BY <1>1 DEF ToTake, At
<1>3. late \subseteq Orders
  BY DEF TypeInv
<1> QED
  BY <1>2, <1>3 DEF TookAgain

LEMMA StepShortInv == TypeInv /\ TypeInv' /\ PayInv /\ ShortInv /\ [Next]_vars => ShortInv'
<1> SUFFICES ASSUME TypeInv, TypeInv', PayInv, ShortInv, [Next]_vars PROVE ShortInv'
  OBVIOUS
<1>t. /\ stock \in [Variants -> Int] /\ late \subseteq Orders /\ DOMAIN job = Requests
      /\ stock' \in [Variants -> Int] /\ late' \subseteq Orders
  BY DEF TypeInv
<1>p. ASSUME NEW v \in Variants
      PROVE  /\ TookAgain(v) \in SUBSET Orders /\ Pieces(v, TookAgain(v)) \in Nat
             /\ TookAgain(v)' \in SUBSET Orders /\ Pieces(v, TookAgain(v)') \in Nat
             /\ stock[v] + Pieces(v, TookAgain(v)) >= 0
  <2>1. TookAgain(v) \in SUBSET Orders /\ TookAgain(v)' \in SUBSET Orders
    BY <1>t DEF TookAgain
  <2> QED
    BY <2>1, PiecesType DEF ShortInv
<1>i. \A v \in Variants, o \in Orders : Items[o][v] \in Nat
  BY ItemsAssumption
<1>o. ASSUME NEW r \in Requests, NEW k, Goto(r, k)
      PROVE  job'[r] = k /\ \A q \in Requests : q # r => job'[q] = job[q]
  BY <1>t, <1>o DEF Goto
\* No less in stock, no less taken
<1>m. ASSUME NEW v \in Variants, stock'[v] >= stock[v], TookAgain(v) \subseteq TookAgain(v)'
      PROVE  stock'[v] + Pieces(v, TookAgain(v)') >= 0
  <2>1. Pieces(v, TookAgain(v)) <= Pieces(v, TookAgain(v)')
    BY <1>m, <1>p, PiecesMore
  <2> QED
    BY <1>m, <1>p, <1>t, <2>1
<1>z. ASSUME NEW v \in Variants, stock'[v] >= 0
      PROVE  stock'[v] + Pieces(v, TookAgain(v)') >= 0
  BY <1>z, <1>p, <1>t
<1>j. ASSUME UNCHANGED <<job, late>>, NEW v \in Variants PROVE TookAgain(v)' = TookAgain(v)
  BY <1>j DEF TookAgain, ToTake, At
<1>n. ASSUME NEW r \in Requests, NEW k, Goto(r, k), k.at # "retake", late' = late, NEW v \in Variants
      PROVE  TookAgain(v) \subseteq TookAgain(v)'
  BY <1>n, TookGrows
<1>d. ASSUME NEW r \in Requests, Done(r), late' = late, NEW v \in Variants
      PROVE  TookAgain(v) \subseteq TookAgain(v)'
  BY <1>d, <1>n DEF Done, Idle
<1>b. ASSUME NEW o \in Orders, PutBack(o) PROVE \A v \in Variants : stock'[v] >= stock[v]
  BY <1>b, <1>i, <1>t DEF PutBack
<1>1. ASSUME NEW o \in Orders, CreatePendingOrder(o) PROVE ShortInv'
  <2>1. \A v \in Variants : stock[v] >= Items[o][v] /\ stock'[v] = stock[v] - Items[o][v]
    BY <1>1 DEF CreatePendingOrder
  <2>2. \A v \in Variants : stock'[v] >= 0
    BY <1>t, <1>i, <2>1
  <2> QED
    BY <1>z, <2>2 DEF ShortInv
<1>2. ASSUME NEW o \in Orders,
             ReleaseOrder(o) \/ FailPayment(o) \/ GrowOld(o) \/ HandOver(o)
      PROVE  ShortInv'
  <2>1. \A v \in Variants : stock'[v] >= stock[v]
    BY <1>2, <1>b, <1>t DEF ReleaseOrder, FailPayment, GrowOld, HandOver
  <2>2. \A v \in Variants : TookAgain(v)' = TookAgain(v)
    BY <1>2, <1>j DEF ReleaseOrder, FailPayment, GrowOld, HandOver
  <2> QED
    BY <1>m, <2>1, <2>2 DEF ShortInv
\* A request whose step only keeps what it read
<1>3. ASSUME NEW r \in Requests, NEW k, Goto(r, k), k.at # "retake", UNCHANGED <<stock, late>>
      PROVE  ShortInv'
  BY <1>3, <1>m, <1>n, <1>t DEF ShortInv
<1>4. ASSUME NEW r \in Requests, NEW o \in Orders, CompletePayment(r, o) \/ StartRefund(r, o) PROVE ShortInv'
  <2> DEFINE k == [at |-> "read", order |-> o]
             l == [at |-> "refund", order |-> o, seen |-> status[o], handed |-> handed[o] > 0]
  <2>1. (Goto(r, k) \/ Goto(r, l)) /\ k.at = "read" /\ l.at = "refund" /\ UNCHANGED <<stock, late>>
    BY <1>4 DEF CompletePayment, StartRefund
  <2> HIDE DEF k, l
  <2> QED
    BY <1>3, <2>1
<1>5. ASSUME NEW r \in Requests, NEW o \in Orders, NEW s \in Statuses, StartUpdate(r, o, s) PROVE ShortInv'
  <2> DEFINE k == [at |-> "status", order |-> o, seen |-> status[o], to |-> s]
  <2>1. Goto(r, k) /\ k.at = "status" /\ UNCHANGED <<stock, late>>
    BY <1>5 DEF StartUpdate
  <2> HIDE DEF k
  <2> QED
    BY <1>3, <2>1
<1>6. ASSUME NEW r \in Requests, NEW v \in Variants, NEW n \in Arrivals, StartStockEdit(r, v, n) PROVE ShortInv'
  <2> DEFINE k == [at |-> "stock", variant |-> v, seen |-> stock[v], to |-> stock[v] + n]
  <2>1. Goto(r, k) /\ k.at = "stock" /\ UNCHANGED <<stock, late>>
    BY <1>6 DEF StartStockEdit
  <2> HIDE DEF k
  <2> QED
    BY <1>3, <2>1
\* Nothing was taken for the order before it is read
<1>7. ASSUME NEW r \in Requests, ReadOrder(r) PROVE ShortInv'
  <2> DEFINE o == job[r].order
             retake == [at |-> "retake", order |-> o, left |-> {v \in Variants : Items[o][v] > 0}]
             paid == [at |-> "paid", order |-> o, seen |-> status[o]]
  <2>1. o \in Orders /\ job[r].at = "read"
    BY <1>7, JobAt DEF ReadOrder, At, Reading
  <2>2. (Goto(r, retake) \/ Goto(r, paid) \/ Done(r)) /\ UNCHANGED <<stock, late>>
    BY <1>7 DEF ReadOrder
  <2>3. retake.order = o /\ paid.at # "retake" /\ Idle.at # "retake"
    BY DEF Idle
  <2>4. o \notin late
    BY <2>1 DEF PayInv, PaidOnce, Serving, At
  <2> HIDE DEF retake, paid
  <2>5. CASE Goto(r, retake)
    <3>1. ASSUME NEW v \in Variants PROVE TookAgain(v) \subseteq TookAgain(v)'
      <4>1. \A p \in Orders : p # o => (ToTake(v, p)' => ToTake(v, p))
        BY <1>o, <2>3, <2>5 DEF ToTake, At
      <4> QED
        BY <1>t, <2>2, <2>4, <4>1 DEF TookAgain
    <3> QED
      BY <1>m, <1>t, <2>2, <3>1 DEF ShortInv
  <2>6. CASE Goto(r, paid)
    BY <1>3, <2>2, <2>3, <2>6
  <2>7. CASE Done(r)
    BY <1>3, <2>2, <2>3, <2>7 DEF Done
  <2> QED
    BY <2>2, <2>5, <2>6, <2>7
\* A line is taken from the stock once
<1>8. ASSUME NEW r \in Requests, Retake(r), NEW w \in Variants
      PROVE  stock'[w] + Pieces(w, TookAgain(w)') >= 0
  <2> DEFINE o == job[r].order
             paid == [at |-> "paid", order |-> o, seen |-> "CANCELLED"]
             less(v) == [job[r] EXCEPT !.left = @ \ {v}]
  <2>1. job[r] \in Retaking /\ job[r].at = "retake"
    BY <1>8, JobAt DEF Retake, At
  <2>2. PICK v \in job[r].left : /\ stock' = [stock EXCEPT ![v] = @ - Items[o][v]]
                                 /\ \/ job[r].left = {v} /\ Goto(r, paid)
                                    \/ Goto(r, less(v))
    BY <1>8 DEF Retake
  <2>3. o \in Orders /\ v \in Variants
    BY <2>1, <2>2 DEF Retaking
  <2>4. late' = late \cup {o}
    BY <1>8 DEF Retake
  <2>5. less(v).at = "retake" /\ less(v).order = o /\ less(v).left = job[r].left \ {v} /\ paid.at = "paid"
    BY <2>1 DEF Retaking
  <2> HIDE DEF paid, less
  <2>6. \A p \in Orders : ToTake(w, p)' => ToTake(w, p) /\ ~(p = o /\ w = v /\ ~\E q \in Requests : q # r /\ Serving(q, o))
    BY <1>o, <2>1, <2>2, <2>5 DEF ToTake, At, Serving
  <2>7. TookAgain(w) \subseteq TookAgain(w)'
    BY <1>t, <2>4, <2>6 DEF TookAgain
  <2>8. CASE w # v
    BY <1>m, <1>t, <2>2, <2>7, <2>8
  <2>9. CASE w = v
    <3>1. o \notin TookAgain(v)
      BY <2>1, <2>2 DEF TookAgain, ToTake, At
    <3>2. \A q \in Requests : q # r => ~Serving(q, o)
      BY <2>1, <2>3 DEF PayInv, PaidOnce, Serving
    <3>3. o \in TookAgain(v)'
      BY <2>3, <2>4, <2>6, <2>9, <3>2 DEF TookAgain
    <3>4. Pieces(v, TookAgain(v) \cup {o}) = Pieces(v, TookAgain(v)) + Items[o][v]
      BY <1>p, <2>3, <3>1, PiecesAdd
    <3>5. Pieces(v, TookAgain(v) \cup {o}) <= Pieces(v, TookAgain(v)')
      BY <1>p, <2>3, <2>7, <2>9, <3>3, PiecesMore
    <3>6. stock'[v] = stock[v] - Items[o][v] /\ Items[o][v] \in Nat
      BY <1>i, <1>t, <2>2, <2>3
    <3> QED
      BY <1>p, <1>t, <2>3, <2>9, <3>4, <3>5, <3>6
  <2> QED
    BY <2>8, <2>9
<1>9. ASSUME NEW r \in Requests, SetPaid(r) \/ MarkPaidFails(r) \/ RefundRefused(r) PROVE ShortInv'
  <2>1. Done(r) /\ UNCHANGED <<stock, late>>
    BY <1>9 DEF SetPaid, MarkPaidFails, RefundRefused
  <2> QED
    BY <1>3, <2>1 DEF Done, Idle
<1>10. ASSUME NEW r \in Requests, SetOrderStatus(r) \/ RefundTx(r) PROVE ShortInv'
  <2>1. job[r].order \in Orders
    BY <1>10, JobAt DEF SetOrderStatus, RefundTx, At, Updating, Refunding
  <2>2. \A v \in Variants : stock'[v] >= stock[v]
    BY <1>10, <1>b, <1>t, <2>1 DEF SetOrderStatus, RefundTx
  <2>3. Done(r) /\ late' = late
    BY <1>10 DEF SetOrderStatus, RefundTx
  <2> QED
    BY <1>d, <1>m, <2>2, <2>3 DEF ShortInv
<1>11. ASSUME NEW r \in Requests, SetStock(r), NEW w \in Variants
       PROVE  stock'[w] + Pieces(w, TookAgain(w)') >= 0
  <2>1. job[r].variant \in Variants /\ job[r].to >= 0
    BY <1>11, JobAt DEF SetStock, At, Editing
  <2>2. stock'[w] = (IF w = job[r].variant THEN job[r].to ELSE stock[w])
    BY <1>11, <1>t, <2>1 DEF SetStock
  <2>3. Done(r) /\ late' = late
    BY <1>11 DEF SetStock
  <2>4. CASE w = job[r].variant
    BY <1>z, <2>1, <2>2, <2>4
  <2>5. CASE w # job[r].variant
    BY <1>d, <1>m, <1>t, <2>2, <2>3, <2>5
  <2> QED
    BY <2>4, <2>5
<1>12. CASE UNCHANGED vars
  BY <1>12, <1>j, <1>m, <1>t DEF vars, ShortInv
<1>r. ASSUME NEW r \in Requests, Retake(r) PROVE ShortInv'
  BY <1>r, <1>8 DEF ShortInv
<1>s. ASSUME NEW r \in Requests, SetStock(r) PROVE ShortInv'
  BY <1>s, <1>11 DEF ShortInv
<1> QED
  BY <1>1, <1>2, <1>4, <1>5, <1>6, <1>7, <1>r, <1>9, <1>10, <1>s, <1>12
     DEF Next, Checkout, MarkPaid, Organizer, Refund, CloseCheckout, CancelForPayment, ExpireStale

LEMMA PayInvAlways == Spec => [](TypeInv /\ PayInv)
BY InitTypeInv, StepTypeInv, InitPayInv, StepPayInv, PTL DEF Spec

\* The stock of no variant is short of more pieces than late payments took again,
\* for any number of orders and requests.
THEOREM ShortIsAccounted == Spec => []ShortOnlyByLatePayments
<1>1. TypeInv /\ ShortInv => ShortOnlyByLatePayments
  <2> SUFFICES ASSUME TypeInv, ShortInv, NEW v \in Variants PROVE -stock[v] <= Pieces(v, late)
    BY DEF ShortOnlyByLatePayments
  <2>1. late \in SUBSET Orders /\ TookAgain(v) \in SUBSET late /\ stock[v] \in Int
    BY DEF TypeInv, TookAgain
  <2>2. Pieces(v, TookAgain(v)) <= Pieces(v, late)
    BY <2>1, PiecesMore
  <2>3. Pieces(v, TookAgain(v)) \in Nat /\ Pieces(v, late) \in Nat
    BY <2>1, PiecesType
  <2>4. stock[v] + Pieces(v, TookAgain(v)) >= 0
    BY DEF ShortInv
  <2> QED
    BY <2>1, <2>2, <2>3, <2>4
<1> QED
  BY <1>1, PayInvAlways, InitShortInv, StepShortInv, PTL DEF Spec

-----------------------------------------------------------------------------
(***************************************************************************)
(* Layer 4: how often the goods of an order left, as its status tells      *)
(* while no request has acted on a status of it that had changed.          *)
(***************************************************************************)
Handed(s) == s \in {"PICKED_UP", "DELIVERED"}
HandOK(o) ==
    /\ handed[o] <= 1
    /\ Handed(status[o]) => handed[o] = 1
    /\ handed[o] = 1 => Handed(status[o]) \/ status[o] = "REFUNDED"
SeenHanded(o) == \A r \in Requests :
    At(r, "refund") /\ job[r].order = o /\ job[r].seen # "REFUNDED" =>
        (job[r].handed <=> Handed(job[r].seen))
CancelledRetaken(o) == \A r \in Requests :
    At(r, "retake") /\ job[r].order = o => status[o] = "CANCELLED"
HandGood(o) == HandOK(o) /\ SeenHanded(o) /\ CancelledRetaken(o)
HandInv == \A o \in Orders \ stale : HandGood(o)

LEMMA Unstale == ASSUME NEW o, NEW b, StaleIf(o, b), o \notin stale' PROVE ~b
BY DEF StaleIf

LEMMA StaleGrows == [Next]_vars => stale \subseteq stale' /\ edited \subseteq edited'
<1> SUFFICES ASSUME [Next]_vars PROVE stale \subseteq stale' /\ edited \subseteq edited'
  OBVIOUS
<1>1. ASSUME NEW o \in Orders, Checkout(o) \/ HandOver(o) PROVE UNCHANGED <<stale, edited>>
  BY <1>1 DEF Checkout, HandOver, CreatePendingOrder, FailPayment, GrowOld, CloseCheckout,
              CancelForPayment, ExpireStale, ReleaseOrder
<1>2. ASSUME NEW r \in Requests, MarkPaid(r) PROVE stale \subseteq stale' /\ edited' = edited
  BY <1>2 DEF MarkPaid, CompletePayment, ReadOrder, Retake, SetPaid, MarkPaidFails, StaleIf
<1>3. ASSUME NEW r \in Requests, Organizer(r) PROVE stale \subseteq stale' /\ edited \subseteq edited'
  BY <1>3 DEF Organizer, StartUpdate, SetOrderStatus, StartStockEdit, SetStock, StaleIf
<1>4. ASSUME NEW r \in Requests, Refund(r) PROVE stale \subseteq stale' /\ edited' = edited
  BY <1>4 DEF Refund, StartRefund, RefundTx, RefundRefused, StaleIf
<1>5. CASE UNCHANGED vars
  BY <1>5 DEF vars
<1> QED
  BY <1>1, <1>2, <1>3, <1>4, <1>5 DEF Next

LEMMA InitHandInv == Init => HandInv
BY DEF Init, Idle, HandInv, HandGood, HandOK, Handed, SeenHanded, CancelledRetaken, At

LEMMA StepHandInv == TypeInv /\ PayInv /\ HandInv /\ [Next]_vars => HandInv'
<1> SUFFICES ASSUME TypeInv, PayInv, HandInv, [Next]_vars, NEW e \in Orders, e \notin stale'
             PROVE  HandGood(e)'
  BY DEF HandInv
<1>t. /\ status \in [Orders -> Statuses] /\ handed \in [Orders -> Nat] /\ DOMAIN job = Requests
  BY DEF TypeInv
<1>o. ASSUME NEW r \in Requests, NEW k, Goto(r, k)
      PROVE  job'[r] = k /\ \A q \in Requests : q # r => job'[q] = job[q]
  BY <1>t, <1>o DEF Goto
<1>g. e \notin stale /\ HandOK(e) /\ SeenHanded(e) /\ CancelledRetaken(e)
  BY StaleGrows DEF HandInv, HandGood
\* Its status does not change and it is not handed over
<1>c. ASSUME UNCHANGED <<status, handed>> PROVE HandOK(e)'
  BY <1>c, <1>g DEF HandOK
\* The status of an order changes
<1>s. ASSUME NEW o \in Orders, NEW s, SetStatus(o, s), ~Handed(s), handed' = handed,
             e = o => s = "REFUNDED" \/ (~Handed(status[o]) /\ status[o] # "REFUNDED")
      PROVE  HandOK(e)'
  <2>1. status'[o] = s /\ \A p \in Orders : p # o => status'[p] = status[p]
    BY <1>t, <1>s DEF SetStatus
  <2> QED
    BY <1>g, <1>s, <1>t, <2>1 DEF HandOK
\* ... when its goods leave
<1>h. ASSUME NEW o \in Orders, NEW s, SetStatus(o, s), Handed(s),
             e = o => ~Handed(status[o]) /\ status[o] # "REFUNDED",
             handed' = [handed EXCEPT ![o] = @ + 1]
      PROVE  HandOK(e)'
  <2>1. status'[o] = s /\ \A p \in Orders : p # o => status'[p] = status[p]
    BY <1>t, <1>h DEF SetStatus
  <2>2. handed'[o] = handed[o] + 1 /\ \A p \in Orders : p # o => handed'[p] = handed[p]
    BY <1>t, <1>h
  <2>3. CASE e = o
    <3>1. handed[o] \in Nat /\ handed[o] <= 1 /\ handed[o] # 1
      BY <1>g, <1>h, <1>t, <2>3 DEF HandOK
    <3>2. handed'[o] = 1
      BY <2>2, <3>1
    <3> QED
      BY <1>h, <2>1, <2>3, <3>2 DEF HandOK
  <2>4. CASE e # o
    BY <1>g, <2>1, <2>2, <2>4 DEF HandOK
  <2> QED
    BY <2>3, <2>4
<1>r. ASSUME job' = job PROVE SeenHanded(e)'
  BY <1>r, <1>g DEF SeenHanded, At
<1>q. ASSUME NEW r \in Requests, NEW k, Goto(r, k),
             k.at = "refund" /\ k.order = e /\ k.seen # "REFUNDED" => (k.handed <=> Handed(k.seen))
      PROVE  SeenHanded(e)'
  BY <1>g, <1>o, <1>q DEF SeenHanded, At
<1>x. ASSUME job' = job, status[e] = "CANCELLED" => status'[e] = "CANCELLED"
      PROVE  CancelledRetaken(e)'
  BY <1>x, <1>g DEF CancelledRetaken, At
<1>y. ASSUME NEW r \in Requests, NEW k, Goto(r, k), k.at # "retake",
             status[e] = "CANCELLED" => status'[e] = "CANCELLED"
      PROVE  CancelledRetaken(e)'
  BY <1>y, <1>g, <1>o DEF CancelledRetaken, At
<1>d. ASSUME NEW r \in Requests, Done(r), status[e] = "CANCELLED" => status'[e] = "CANCELLED"
      PROVE  SeenHanded(e)' /\ CancelledRetaken(e)'
  BY <1>d, <1>q, <1>y DEF Done, Idle
<1>z. ASSUME NEW o \in Orders, NEW s, SetStatus(o, s), e = o => status[o] # "CANCELLED" \/ s = "CANCELLED"
      PROVE  status[e] = "CANCELLED" => status'[e] = "CANCELLED"
  BY <1>t, <1>z DEF SetStatus
\* A request that keeps what it read
<1>k. ASSUME NEW r \in Requests, NEW k, Goto(r, k), k.at \notin {"retake", "refund"},
             UNCHANGED <<status, handed>>
      PROVE  HandGood(e)'
  BY <1>k, <1>c, <1>q, <1>y DEF HandGood
<1>1. ASSUME NEW o \in Orders, CreatePendingOrder(o) \/ ReleaseOrder(o) PROVE HandGood(e)'
  <2>1. PICK s \in {"PENDING_PAYMENT", "CANCELLED"} : SetStatus(o, s)
    BY <1>1 DEF CreatePendingOrder, ReleaseOrder
  <2>2. UNCHANGED <<handed, job>> /\ status[o] \in {"none", "PENDING_PAYMENT"}
    BY <1>1 DEF CreatePendingOrder, ReleaseOrder
  <2>3. ~Handed(s) /\ ~Handed(status[o]) /\ status[o] # "REFUNDED"
    BY <2>2 DEF Handed
  <2> QED
    BY <1>s, <1>r, <1>x, <1>z, <2>1, <2>2, <2>3 DEF HandGood
<1>2. ASSUME NEW o \in Orders, FailPayment(o) \/ GrowOld(o) PROVE HandGood(e)'
  <2>1. UNCHANGED <<handed, job, status>>
    BY <1>2 DEF FailPayment, GrowOld
  <2> QED
    BY <1>c, <1>r, <1>x, <2>1 DEF HandGood
<1>3. ASSUME NEW o \in Orders, HandOver(o) PROVE HandGood(e)'
  <2>1. /\ SetStatus(o, "PICKED_UP") /\ job' = job /\ status[o] \in {"PAID", "READY"}
        /\ handed' = [handed EXCEPT ![o] = @ + 1]
    BY <1>3 DEF HandOver, Handable
  <2>2. HandOK(e)'
    BY <1>h, <2>1 DEF Handed
  <2> QED
    BY <1>r, <1>x, <1>z, <2>1, <2>2 DEF HandGood
<1>4. ASSUME NEW r \in Requests, NEW o \in Orders, CompletePayment(r, o) PROVE HandGood(e)'
  <2> DEFINE k == [at |-> "read", order |-> o]
  <2>1. Goto(r, k) /\ k.at = "read" /\ UNCHANGED <<status, handed>>
    BY <1>4 DEF CompletePayment
  <2> HIDE DEF k
  <2> QED
    BY <1>k, <2>1
<1>5. ASSUME NEW r \in Requests, NEW o \in Orders, NEW s \in Statuses, StartUpdate(r, o, s) PROVE HandGood(e)'
  <2> DEFINE k == [at |-> "status", order |-> o, seen |-> status[o], to |-> s]
  <2>1. Goto(r, k) /\ k.at = "status" /\ UNCHANGED <<status, handed>>
    BY <1>5 DEF StartUpdate
  <2> HIDE DEF k
  <2> QED
    BY <1>k, <2>1
<1>6. ASSUME NEW r \in Requests, NEW v \in Variants, NEW n \in Arrivals, StartStockEdit(r, v, n) PROVE HandGood(e)'
  <2> DEFINE k == [at |-> "stock", variant |-> v, seen |-> stock[v], to |-> stock[v] + n]
  <2>1. Goto(r, k) /\ k.at = "stock" /\ UNCHANGED <<status, handed>>
    BY <1>6 DEF StartStockEdit
  <2> HIDE DEF k
  <2> QED
    BY <1>k, <2>1
<1>7. ASSUME NEW r \in Requests, ReadOrder(r) PROVE HandGood(e)'
  <2> DEFINE o == job[r].order
             retake == [at |-> "retake", order |-> o, left |-> {v \in Variants : Items[o][v] > 0}]
             paid == [at |-> "paid", order |-> o, seen |-> status[o]]
  <2>1. /\ (Goto(r, retake) /\ status[o] = "CANCELLED") \/ Goto(r, paid) \/ Done(r)
        /\ UNCHANGED <<status, handed>>
    BY <1>7 DEF ReadOrder
  <2>2. retake.at = "retake" /\ retake.order = o /\ paid.at = "paid" /\ Idle.at = "idle"
    BY DEF Idle
  <2> HIDE DEF retake, paid
  <2>3. CASE Goto(r, retake) /\ status[o] = "CANCELLED"
    <3>1. CancelledRetaken(e)'
      BY <1>g, <1>o, <2>1, <2>2, <2>3 DEF CancelledRetaken, At
    <3>2. SeenHanded(e)'
      BY <1>q, <2>1, <2>2, <2>3
    <3> QED
      BY <1>c, <2>1, <3>1, <3>2 DEF HandGood
  <2>4. CASE Goto(r, paid)
    BY <1>k, <2>1, <2>2, <2>4
  <2>5. CASE Done(r)
    BY <1>k, <2>1, <2>2, <2>5 DEF Done
  <2> QED
    BY <2>1, <2>3, <2>4, <2>5
<1>8. ASSUME NEW r \in Requests, Retake(r) PROVE HandGood(e)'
  <2> DEFINE o == job[r].order
             paid == [at |-> "paid", order |-> o, seen |-> "CANCELLED"]
             less(v) == [job[r] EXCEPT !.left = @ \ {v}]
  <2>1. job[r] \in Retaking /\ job[r].at = "retake" /\ UNCHANGED <<status, handed>>
    BY <1>8, JobAt DEF Retake, At
  <2>2. PICK v \in job[r].left : Goto(r, paid) \/ Goto(r, less(v))
    BY <1>8 DEF Retake
  <2>3. paid.at = "paid" /\ less(v).at = "retake" /\ less(v).order = o
    BY <2>1 DEF Retaking
  <2> HIDE DEF paid, less
  <2>4. CASE Goto(r, paid)
    BY <1>k, <2>1, <2>3, <2>4
  <2>5. CASE Goto(r, less(v))
    <3>1. CancelledRetaken(e)'
      BY <1>g, <1>o, <2>1, <2>3, <2>5 DEF CancelledRetaken, At
    <3>2. SeenHanded(e)'
      BY <1>q, <2>1, <2>3, <2>5
    <3> QED
      BY <1>c, <2>1, <3>1, <3>2 DEF HandGood
  <2> QED
    BY <2>2, <2>4, <2>5
<1>9. ASSUME NEW r \in Requests, SetPaid(r) PROVE HandGood(e)'
  <2> DEFINE o == job[r].order
  <2>1. o \in Orders /\ job[r].seen \in {"PENDING_PAYMENT", "CANCELLED"} /\ job[r].at = "paid"
    BY <1>9, JobAt DEF SetPaid, At, Marking
  <2>2. e = o => status[o] = job[r].seen
    BY <1>9, Unstale DEF SetPaid
  <2>3. Done(r) /\ SetStatus(o, "PAID") /\ handed' = handed
    BY <1>9 DEF SetPaid
  <2>4. HandOK(e)'
    BY <1>s, <2>1, <2>2, <2>3 DEF Handed
  <2>5. SeenHanded(e)'
    BY <1>q, <2>2, <2>3 DEF Done, Idle
  <2>6. ASSUME NEW q \in Requests, At(q, "retake")', job'[q].order = e PROVE status'[e] = "CANCELLED"
    <3>1. q # r /\ job'[q] = job[q] /\ job[q].at = "retake"
      BY <1>o, <2>3, <2>6 DEF Done, Idle, At
    <3>2. e # o
      BY <2>1, <2>6, <3>1 DEF PayInv, PaidOnce, Serving
    <3>3. status[e] = "CANCELLED"
      BY <1>g, <2>6, <3>1 DEF CancelledRetaken, At
    <3> QED
      BY <1>t, <2>3, <3>2, <3>3 DEF SetStatus
  <2> QED
    BY <2>4, <2>5, <2>6 DEF HandGood, CancelledRetaken
<1>10. ASSUME NEW r \in Requests, MarkPaidFails(r) \/ RefundRefused(r) PROVE HandGood(e)'
  <2>1. Done(r) /\ UNCHANGED <<status, handed>>
    BY <1>10 DEF MarkPaidFails, RefundRefused
  <2> QED
    BY <1>k, <2>1 DEF Done, Idle
<1>11. ASSUME NEW r \in Requests, SetOrderStatus(r) PROVE HandGood(e)'
  <2> DEFINE o == job[r].order
             s == job[r].to
  <2>1. /\ o \in Orders /\ job[r].seen \in {"PAID", "READY", "SHIPPED"}
        /\ s \in {"READY", "SHIPPED", "PICKED_UP", "DELIVERED", "CANCELLED"}
    BY <1>11, JobAt, NextAre DEF SetOrderStatus, At, Updating
  <2>2. e = o => status[o] = job[r].seen
    BY <1>11, Unstale DEF SetOrderStatus
  <2>3. Done(r) /\ SetStatus(o, s)
    BY <1>11 DEF SetOrderStatus
  <2>4. handed' = IF Handed(s) THEN [handed EXCEPT ![o] = @ + 1] ELSE handed
    BY <1>11 DEF SetOrderStatus, Handed
  <2>5. e = o => ~Handed(status[o]) /\ status[o] # "REFUNDED" /\ status[o] # "CANCELLED"
    BY <2>1, <2>2 DEF Handed
  <2> HIDE DEF o, s
  <2>6. HandOK(e)'
    BY <1>h, <1>s, <2>1, <2>2, <2>3, <2>4, <2>5
  <2> QED
    BY <1>d, <1>z, <2>1, <2>2, <2>3, <2>5, <2>6 DEF HandGood
<1>12. ASSUME NEW r \in Requests, SetStock(r) PROVE HandGood(e)'
  <2>1. Done(r) /\ UNCHANGED <<status, handed>>
    BY <1>12 DEF SetStock
  <2> QED
    BY <1>c, <1>d, <2>1 DEF HandGood
<1>13. ASSUME NEW r \in Requests, NEW o \in Orders, StartRefund(r, o) PROVE HandGood(e)'
  <2> DEFINE left == handed[o] > 0
             k == [at |-> "refund", order |-> o, seen |-> status[o], handed |-> left]
  <2>1. Goto(r, k) /\ UNCHANGED <<status, handed>>
    BY <1>13 DEF StartRefund
  <2>2. k.at = "refund" /\ k.order = o /\ k.seen = status[o] /\ k.handed = left
    OBVIOUS
  <2>3. e = o /\ status[o] # "REFUNDED" => (left <=> Handed(status[o]))
    BY <1>g, <1>t, <2>1 DEF HandOK
  <2> HIDE DEF k, left
  <2>4. k.order = e /\ k.seen # "REFUNDED" => (k.handed <=> Handed(k.seen))
    BY <2>2, <2>3
  <2>5. SeenHanded(e)'
    BY <1>q, <2>1, <2>4
  <2>6. CancelledRetaken(e)'
    BY <1>y, <2>1, <2>2
  <2> QED
    BY <1>c, <2>1, <2>5, <2>6 DEF HandGood
<1>14. ASSUME NEW r \in Requests, RefundTx(r) PROVE HandGood(e)'
  <2> DEFINE o == job[r].order
  <2>1. o \in Orders
    BY <1>14, JobAt DEF RefundTx, At, Refunding
  <2>2. e = o => status[o] = job[r].seen
    BY <1>14, Unstale DEF RefundTx
  <2>3. Done(r) /\ handed' = handed
    BY <1>14 DEF RefundTx
  <2>4. CASE status' = status
    BY <1>c, <1>d, <2>2, <2>3, <2>4 DEF HandGood
  <2>5. CASE SetStatus(o, "REFUNDED") /\ (e = o => status[o] # "CANCELLED")
    <3>1. HandOK(e)'
      BY <1>s, <2>1, <2>2, <2>3, <2>5 DEF Handed
    <3> QED
      BY <1>d, <1>z, <2>1, <2>2, <2>3, <2>5, <3>1 DEF HandGood
  <2> QED
    BY <1>14, <2>2, <2>4, <2>5 DEF RefundTx
<1>15. CASE UNCHANGED vars
  BY <1>15, <1>c, <1>r, <1>x DEF vars, HandGood
<1> QED
  BY <1>1, <1>2, <1>3, <1>4, <1>5, <1>6, <1>7, <1>8, <1>9, <1>10, <1>11, <1>12, <1>13, <1>14, <1>15
     DEF Next, Checkout, MarkPaid, Organizer, Refund, CloseCheckout, CancelForPayment, ExpireStale

\* The goods of an order leave once, whatever stand and organizer do to it and to any
\* other order, as long as no request acted on a status of this order that had changed.
THEOREM GoodsLeaveOnce == Spec => []HandedOverOnce
<1>1. HandInv => HandedOverOnce
  BY DEF HandInv, HandGood, HandOK, HandedOverOnce
<1> QED
  BY <1>1, PayInvAlways, InitHandInv, StepHandInv, PTL DEF Spec

-----------------------------------------------------------------------------
(***************************************************************************)
(* Layer 5: every piece is in stock, under an order that holds it, or      *)
(* taken for an order still cancelled: at least what a request is taking,  *)
(* at most what one may have taken.  An order without a piece of a variant *)
(* may do what it wants.                                                   *)
(***************************************************************************)
HeldBy == {o \in Orders : Holds(o)}
MayHave(v) == {o \in TookAgain(v) : status[o] = "CANCELLED"}
Takes(r, v) ==
    \/ At(r, "retake") /\ v \notin job[r].left
    \/ At(r, "paid") /\ job[r].seen = "CANCELLED"
Taking(v) == {o \in Orders : \E r \in Requests : Takes(r, v) /\ job[r].order = o}
Balance(v) ==
    /\ stock[v] + Pieces(v, HeldBy) + Pieces(v, Taking(v)) <= goods[v]
    /\ stock[v] + Pieces(v, HeldBy) + Pieces(v, MayHave(v)) >= goods[v]
StockInv == \A v \in Variants : Trusted(v) => Balance(v)

LEMMA InitStockInv == Init => StockInv
<1> SUFFICES ASSUME Init, NEW v \in Variants PROVE Balance(v)
  BY DEF StockInv
<1>1. HeldBy = {} /\ Taking(v) = {} /\ MayHave(v) = {}
  BY DEF Init, Idle, HeldBy, Holds, Taking, Takes, At, MayHave, TookAgain
<1>2. Pieces(v, {}) = 0
  <2>1. PieceSet(v, {}) = {}
    BY DEF PieceSet
  <2> QED
    BY <2>1, PiecesAre, FS_EmptySet
<1>3. stock[v] = goods[v] /\ stock[v] \in Int
  BY StockAssumption DEF Init
<1> QED
  BY <1>1, <1>2, <1>3 DEF Balance

LEMMA StepStockInv ==
    TypeInv /\ TypeInv' /\ PayInv /\ HandInv /\ StockInv /\ [Next]_vars => StockInv'
<1> SUFFICES ASSUME TypeInv, TypeInv', PayInv, HandInv, StockInv, [Next]_vars,
                    NEW v \in Variants, Trusted(v)'
             PROVE  Balance(v)'
  BY DEF StockInv
<1>t. /\ status \in [Orders -> Statuses] /\ handed \in [Orders -> Nat] /\ DOMAIN job = Requests
      /\ stock \in [Variants -> Int] /\ goods \in [Variants -> Int] /\ late \subseteq Orders
      /\ stock' \in [Variants -> Int] /\ goods' \in [Variants -> Int] /\ late' \subseteq Orders
  BY DEF TypeInv
<1>o. ASSUME NEW r \in Requests, NEW k, Goto(r, k)
      PROVE  job'[r] = k /\ \A q \in Requests : q # r => job'[q] = job[q]
  BY <1>t, <1>o DEF Goto
<1>i. \A o \in Orders : Items[o][v] \in Nat
  BY ItemsAssumption
<1>p. /\ HeldBy \in SUBSET Orders /\ Taking(v) \in SUBSET Orders /\ MayHave(v) \in SUBSET Orders
      /\ HeldBy' \in SUBSET Orders /\ Taking(v)' \in SUBSET Orders /\ MayHave(v)' \in SUBSET Orders
      /\ Pieces(v, HeldBy) \in Nat /\ Pieces(v, Taking(v)) \in Nat /\ Pieces(v, MayHave(v)) \in Nat
      /\ Pieces(v, HeldBy') \in Nat /\ Pieces(v, Taking(v)') \in Nat /\ Pieces(v, MayHave(v)') \in Nat
  <2>1. /\ HeldBy \in SUBSET Orders /\ Taking(v) \in SUBSET Orders /\ MayHave(v) \in SUBSET Orders
        /\ HeldBy' \in SUBSET Orders /\ Taking(v)' \in SUBSET Orders /\ MayHave(v)' \in SUBSET Orders
    BY <1>t DEF HeldBy, Taking, MayHave, TookAgain
  <2> QED
    BY <2>1, PiecesType
<1>b. Balance(v)
  <2>1. stale \subseteq stale' /\ edited \subseteq edited'
    BY StaleGrows
  <2>2. Trusted(v)
    BY <2>1 DEF Trusted
  <2> QED
    BY <2>2 DEF StockInv
\* Whoever acts on what has changed has no piece of v, or replaces no stock of v
<1>w. ASSUME NEW o \in Orders, Items[o][v] # 0 PROVE o \notin stale' /\ o \notin stale
  BY <1>w, StaleGrows DEF Trusted
<1>f. ASSUME NEW o \in Orders, Items[o][v] = 0, HeldBy' \ {o} = HeldBy \ {o},
             Taking(v)' \ {o} \subseteq Taking(v), MayHave(v) \ {o} \subseteq MayHave(v)',
             goods'[v] - goods[v] = stock'[v] - stock[v]
      PROVE  Balance(v)'
  <2>1. /\ Pieces(v, HeldBy' \ {o}) = Pieces(v, HeldBy') /\ Pieces(v, HeldBy \ {o}) = Pieces(v, HeldBy)
        /\ Pieces(v, Taking(v)' \ {o}) = Pieces(v, Taking(v)')
        /\ Pieces(v, MayHave(v) \ {o}) = Pieces(v, MayHave(v))
    BY <1>f, <1>p, PiecesOthers
  <2>2. /\ Pieces(v, Taking(v)' \ {o}) <= Pieces(v, Taking(v))
        /\ Pieces(v, MayHave(v) \ {o}) <= Pieces(v, MayHave(v)')
    BY <1>f, <1>p, PiecesMore
  <2>3. /\ Pieces(v, HeldBy') = Pieces(v, HeldBy)
        /\ Pieces(v, Taking(v)') <= Pieces(v, Taking(v))
        /\ Pieces(v, MayHave(v)) <= Pieces(v, MayHave(v)')
    BY <1>f, <2>1, <2>2
  <2> QED
    BY <1>b, <1>f, <1>p, <1>t, <2>3 DEF Balance
\* What orders hold, keep or lose with the stock
<1>k. ASSUME HeldBy' = HeldBy, Taking(v)' \subseteq Taking(v), MayHave(v) \subseteq MayHave(v)',
             goods'[v] - goods[v] = stock'[v] - stock[v]
      PROVE  Balance(v)'
  <2>1. Pieces(v, Taking(v)') <= Pieces(v, Taking(v)) /\ Pieces(v, MayHave(v)) <= Pieces(v, MayHave(v)')
    BY <1>k, <1>p, PiecesMore
  <2> QED
    BY <1>b, <1>k, <1>p, <1>t, <2>1 DEF Balance
<1>m. ASSUME NEW o \in Orders, o \notin HeldBy, HeldBy' = HeldBy \cup {o},
             Taking(v)' \subseteq Taking(v), MayHave(v) \subseteq MayHave(v)',
             goods'[v] = goods[v], stock'[v] = stock[v] - Items[o][v]
      PROVE  Balance(v)'
  <2>1. Pieces(v, Taking(v)') <= Pieces(v, Taking(v)) /\ Pieces(v, MayHave(v)) <= Pieces(v, MayHave(v)')
    BY <1>m, <1>p, PiecesMore
  <2>2. Pieces(v, HeldBy') = Pieces(v, HeldBy) + Items[o][v]
    BY <1>m, <1>p, PiecesAdd
  <2> QED
    BY <1>b, <1>i, <1>m, <1>p, <1>t, <2>1, <2>2 DEF Balance
<1>l. ASSUME NEW o \in Orders, o \in HeldBy, HeldBy' = HeldBy \ {o},
             Taking(v)' \subseteq Taking(v), MayHave(v) \subseteq MayHave(v)',
             goods'[v] = goods[v], stock'[v] = stock[v] + Items[o][v]
      PROVE  Balance(v)'
  <2>1. Pieces(v, Taking(v)') <= Pieces(v, Taking(v)) /\ Pieces(v, MayHave(v)) <= Pieces(v, MayHave(v)')
    BY <1>l, <1>p, PiecesMore
  <2>2. Pieces(v, HeldBy') = Pieces(v, HeldBy) - Items[o][v]
    BY <1>l, <1>p, PiecesLess
  <2> QED
    BY <1>b, <1>i, <1>l, <1>p, <1>t, <2>1, <2>2 DEF Balance
\* A request that comes to take nothing, while no order leaves CANCELLED
<1>n. ASSUME NEW r \in Requests, NEW k, Goto(r, k), k.at \notin {"retake", "paid"}, late' = late,
             \A o \in Orders : status[o] = "CANCELLED" => status'[o] = "CANCELLED"
      PROVE  Taking(v)' \subseteq Taking(v) /\ MayHave(v) \subseteq MayHave(v)'
  <2>1. Taking(v)' \subseteq Taking(v)
    BY <1>n, <1>o DEF Taking, Takes, At
  <2>2. TookAgain(v) \subseteq TookAgain(v)' /\ TookAgain(v) \subseteq Orders
    BY <1>n, <1>t, TookGrows DEF TookAgain
  <2>3. MayHave(v) \subseteq MayHave(v)'
    BY <1>n, <2>2 DEF MayHave
  <2> QED
    BY <2>1, <2>3
<1>d. ASSUME NEW r \in Requests, Done(r), late' = late,
             \A o \in Orders : status[o] = "CANCELLED" => status'[o] = "CANCELLED"
      PROVE  Taking(v)' \subseteq Taking(v) /\ MayHave(v) \subseteq MayHave(v)'
  BY <1>d, <1>n DEF Done, Idle
\* ... while no other order does
<1>a. ASSUME NEW r \in Requests, Done(r), late' = late, NEW o \in Orders,
             \A p \in Orders : p # o => (status[p] = "CANCELLED" => status'[p] = "CANCELLED")
      PROVE  Taking(v)' \ {o} \subseteq Taking(v) /\ MayHave(v) \ {o} \subseteq MayHave(v)'
  <2>1. Taking(v)' \subseteq Taking(v)
    BY <1>a, <1>o DEF Done, Idle, Taking, Takes, At
  <2>2. TookAgain(v) \subseteq TookAgain(v)' /\ TookAgain(v) \subseteq Orders
    BY <1>a, <1>t, TookGrows DEF Done, Idle, TookAgain
  <2>3. MayHave(v) \ {o} \subseteq MayHave(v)'
    BY <1>a, <2>2 DEF MayHave
  <2> QED
    BY <2>1, <2>3
<1>u. ASSUME UNCHANGED <<job, late>>,
             \A o \in Orders : status[o] = "CANCELLED" => status'[o] = "CANCELLED"
      PROVE  Taking(v)' \subseteq Taking(v) /\ MayHave(v) \subseteq MayHave(v)'
  <2>1. Taking(v)' = Taking(v)
    BY <1>u DEF Taking, Takes, At
  <2>2. TookAgain(v) = TookAgain(v)' /\ TookAgain(v) \subseteq Orders
    BY <1>u, <1>t DEF TookAgain, ToTake, At
  <2>3. MayHave(v) \subseteq MayHave(v)'
    BY <1>u, <2>2 DEF MayHave
  <2> QED
    BY <2>1, <2>3
<1>h. ASSUME UNCHANGED <<status, handed>> PROVE HeldBy' = HeldBy
  BY <1>h DEF HeldBy, Holds
<1>z. ASSUME NEW o \in Orders, NEW s, SetStatus(o, s)
      PROVE  /\ status'[o] = s /\ \A p \in Orders : p # o => status'[p] = status[p]
             /\ status[o] # "CANCELLED" =>
                  \A p \in Orders : status[p] = "CANCELLED" => status'[p] = "CANCELLED"
  BY <1>t, <1>z DEF SetStatus
\* A request that keeps what it read
<1>e. ASSUME NEW r \in Requests, NEW k, Goto(r, k), k.at \notin {"retake", "paid"},
             UNCHANGED <<status, handed, late, stock, goods>>
      PROVE  Balance(v)'
  <2>1. HeldBy' = HeldBy
    BY <1>e, <1>h
  <2>2. Taking(v)' \subseteq Taking(v) /\ MayHave(v) \subseteq MayHave(v)'
    BY <1>e, <1>n
  <2>3. goods'[v] - goods[v] = stock'[v] - stock[v]
    BY <1>e, <1>t
  <2> QED
    BY <1>e, <1>k, <2>1, <2>2, <2>3
<1>1. ASSUME NEW o \in Orders, CreatePendingOrder(o) PROVE Balance(v)'
  <2>1. /\ status[o] = "none" /\ SetStatus(o, "PENDING_PAYMENT")
        /\ UNCHANGED <<job, late, handed, goods>> /\ stock'[v] = stock[v] - Items[o][v]
    BY <1>1 DEF CreatePendingOrder
  <2>2. o \notin HeldBy /\ HeldBy' = HeldBy \cup {o}
    BY <1>z, <2>1 DEF HeldBy, Holds
  <2> QED
    BY <1>m, <1>u, <1>z, <2>1, <2>2
<1>2. ASSUME NEW o \in Orders, ReleaseOrder(o) PROVE Balance(v)'
  <2>1. /\ status[o] = "PENDING_PAYMENT" /\ SetStatus(o, "CANCELLED")
        /\ UNCHANGED <<job, late, handed, goods>> /\ stock'[v] = stock[v] + Items[o][v]
    BY <1>2 DEF ReleaseOrder, PutBack
  <2>2. o \in HeldBy /\ HeldBy' = HeldBy \ {o}
    BY <1>z, <2>1 DEF HeldBy, Holds
  <2> QED
    BY <1>l, <1>u, <1>z, <2>1, <2>2
<1>3. ASSUME NEW o \in Orders, FailPayment(o) \/ GrowOld(o) PROVE Balance(v)'
  <2>1. UNCHANGED <<stock, goods, status, handed, job, late>>
    BY <1>3 DEF FailPayment, GrowOld
  <2>2. goods'[v] - goods[v] = stock'[v] - stock[v]
    BY <1>t, <2>1
  <2> QED
    BY <1>h, <1>k, <1>u, <2>1, <2>2
<1>4. ASSUME NEW o \in Orders, HandOver(o) PROVE Balance(v)'
  <2>1. /\ status[o] \in {"PAID", "READY"} /\ SetStatus(o, "PICKED_UP")
        /\ UNCHANGED <<job, late, goods, stock>> /\ handed' = [handed EXCEPT ![o] = @ + 1]
    BY <1>4 DEF HandOver, Handable
  <2>2. \A p \in Orders : p # o => handed'[p] = handed[p]
    BY <1>t, <2>1
  <2>3. HeldBy' = HeldBy
    BY <1>z, <2>1, <2>2 DEF HeldBy, Holds
  <2>4. goods'[v] - goods[v] = stock'[v] - stock[v]
    BY <1>t, <2>1
  <2> QED
    BY <1>k, <1>u, <1>z, <2>1, <2>3, <2>4
<1>5. ASSUME NEW r \in Requests, NEW o \in Orders, CompletePayment(r, o) \/ StartRefund(r, o) PROVE Balance(v)'
  <2> DEFINE k == [at |-> "read", order |-> o]
             l == [at |-> "refund", order |-> o, seen |-> status[o], handed |-> handed[o] > 0]
  <2>1. /\ (Goto(r, k) \/ Goto(r, l)) /\ k.at = "read" /\ l.at = "refund"
        /\ UNCHANGED <<status, handed, late, stock, goods>>
    BY <1>5 DEF CompletePayment, StartRefund
  <2> HIDE DEF k, l
  <2> QED
    BY <1>e, <2>1
<1>6. ASSUME NEW r \in Requests, NEW o \in Orders, NEW s \in Statuses, StartUpdate(r, o, s) PROVE Balance(v)'
  <2> DEFINE k == [at |-> "status", order |-> o, seen |-> status[o], to |-> s]
  <2>1. Goto(r, k) /\ k.at = "status" /\ UNCHANGED <<status, handed, late, stock, goods>>
    BY <1>6 DEF StartUpdate
  <2> HIDE DEF k
  <2> QED
    BY <1>e, <2>1
<1>7. ASSUME NEW r \in Requests, NEW w \in Variants, NEW n \in Arrivals, StartStockEdit(r, w, n) PROVE Balance(v)'
  <2> DEFINE k == [at |-> "stock", variant |-> w, seen |-> stock[w], to |-> stock[w] + n]
  <2>1. Goto(r, k) /\ k.at = "stock" /\ UNCHANGED <<status, handed, late, stock, goods>>
    BY <1>7 DEF StartStockEdit
  <2> HIDE DEF k
  <2> QED
    BY <1>e, <2>1
\* A request that will take every line of the order has taken those of no pieces
<1>8. ASSUME NEW r \in Requests, ReadOrder(r) PROVE Balance(v)'
  <2> DEFINE o == job[r].order
             retake == [at |-> "retake", order |-> o, left |-> {w \in Variants : Items[o][w] > 0}]
             paid == [at |-> "paid", order |-> o, seen |-> status[o]]
  <2>1. o \in Orders /\ job[r].at = "read"
    BY <1>8, JobAt DEF ReadOrder, At, Reading
  <2>2. /\ Goto(r, retake) \/ (Goto(r, paid) /\ status[o] = "PENDING_PAYMENT") \/ Done(r)
        /\ UNCHANGED <<status, handed, late, stock, goods>>
    BY <1>8 DEF ReadOrder
  <2>3. /\ retake.at = "retake" /\ retake.order = o
        /\ v \notin retake.left => Items[o][v] = 0
        /\ paid.at = "paid" /\ paid.seen = status[o]
    BY <1>i, <2>1
  <2>4. HeldBy' = HeldBy /\ goods'[v] - goods[v] = stock'[v] - stock[v]
    BY <1>h, <1>t, <2>2
  <2> HIDE DEF retake, paid
  <2>5. CASE Goto(r, retake)
    <3>1. o \notin late
      BY <2>1 DEF PayInv, PaidOnce, Serving, At
    <3>2. \A p \in Orders : p # o => (ToTake(v, p)' => ToTake(v, p))
      BY <1>o, <2>3, <2>5 DEF ToTake, At
    <3>3. TookAgain(v) \subseteq TookAgain(v)'
      BY <1>t, <2>2, <3>1, <3>2 DEF TookAgain
    <3>4. MayHave(v) \subseteq MayHave(v)'
      BY <2>2, <3>3 DEF MayHave
    <3>5. Taking(v)' \subseteq Taking(v) \cup {o}
      BY <1>o, <2>3, <2>5 DEF Taking, Takes, At
    <3>6. CASE Taking(v)' \subseteq Taking(v)
      BY <1>k, <2>2, <2>4, <3>4, <3>6
    <3>7. CASE o \in Taking(v)' /\ o \notin Taking(v)
      <4>1. v \notin retake.left
        BY <1>o, <2>3, <2>5, <3>7 DEF Taking, Takes, At
      <4>2. Pieces(v, Taking(v) \cup {o}) = Pieces(v, Taking(v)) + Items[o][v] /\ Items[o][v] = 0
        BY <1>p, <2>1, <2>3, <3>7, <4>1, PiecesAdd
      <4>3. Pieces(v, Taking(v)') <= Pieces(v, Taking(v) \cup {o})
        BY <1>p, <2>1, <3>5, PiecesMore
      <4>4. Pieces(v, MayHave(v)) <= Pieces(v, MayHave(v)')
        BY <1>p, <3>4, PiecesMore
      <4>5. Pieces(v, Taking(v)') <= Pieces(v, Taking(v))
        BY <1>p, <4>2, <4>3
      <4> QED
        BY <1>b, <1>p, <1>t, <2>2, <2>4, <4>4, <4>5 DEF Balance
    <3> QED
      BY <3>5, <3>6, <3>7
  <2>6. CASE Goto(r, paid) /\ status[o] = "PENDING_PAYMENT"
    <3>1. Taking(v)' \subseteq Taking(v)
      BY <1>o, <2>3, <2>6 DEF Taking, Takes, At
    <3>2. TookAgain(v) \subseteq TookAgain(v)'
      BY <2>2, <2>3, <2>6, TookGrows
    <3>3. MayHave(v) \subseteq MayHave(v)'
      BY <2>2, <3>2 DEF MayHave
    <3> QED
      BY <1>k, <2>2, <2>4, <3>1, <3>3
  <2>7. CASE Done(r)
    BY <1>e, <2>2, <2>7 DEF Done, Idle
  <2> QED
    BY <2>2, <2>5, <2>6, <2>7
\* The piece goes from the stock to what the request is taking
<1>9. ASSUME NEW r \in Requests, Retake(r) PROVE Balance(v)'
  <2> DEFINE o == job[r].order
             paid == [at |-> "paid", order |-> o, seen |-> "CANCELLED"]
             less(w) == [job[r] EXCEPT !.left = @ \ {w}]
  <2>1. job[r] \in Retaking /\ job[r].at = "retake" /\ UNCHANGED <<status, handed, goods>>
    BY <1>9, JobAt DEF Retake, At
  <2>2. PICK w \in job[r].left : /\ stock' = [stock EXCEPT ![w] = @ - Items[o][w]]
                                 /\ \/ job[r].left = {w} /\ Goto(r, paid)
                                    \/ Goto(r, less(w))
    BY <1>9 DEF Retake
  <2>3. o \in Orders /\ w \in Variants
    BY <2>1, <2>2 DEF Retaking
  <2>4. late' = late \cup {o}
    BY <1>9 DEF Retake
  <2>5. /\ less(w).at = "retake" /\ less(w).order = o /\ less(w).left = job[r].left \ {w}
        /\ paid.at = "paid" /\ paid.order = o /\ paid.seen = "CANCELLED"
    BY <2>1 DEF Retaking
  <2> HIDE DEF paid, less
  <2>6. HeldBy' = HeldBy
    BY <1>h, <2>1
  <2>7. \A q \in Requests : q # r => ~Serving(q, o)
    BY <2>1, <2>3 DEF PayInv, PaidOnce, Serving
  <2>8. \A p \in Orders : ToTake(v, p)' => ToTake(v, p) /\ (p = o => w # v)
    BY <1>o, <2>1, <2>2, <2>5, <2>7 DEF ToTake, At, Serving
  <2>9. TookAgain(v) \subseteq TookAgain(v)'
    BY <1>t, <2>4, <2>8 DEF TookAgain
  <2>10. MayHave(v) \subseteq MayHave(v)'
    BY <2>1, <2>9 DEF MayHave
  <2>11. CASE w # v \/ Items[o][v] = 0
    <3>1. goods'[v] - goods[v] = stock'[v] - stock[v]
      BY <1>t, <2>1, <2>2, <2>11
    <3>2. CASE w # v
      <4>1. Taking(v)' \subseteq Taking(v)
        BY <1>o, <2>1, <2>2, <2>3, <2>5, <3>2 DEF Taking, Takes, At
      <4> QED
        BY <1>k, <2>6, <2>10, <3>1, <4>1
    <3>3. CASE Items[o][v] = 0
      <4>1. Taking(v)' \subseteq Taking(v) \cup {o}
        BY <1>o, <2>5, <2>2 DEF Taking, Takes, At
      <4> QED
        BY <1>f, <2>3, <2>6, <2>10, <3>1, <3>3, <4>1
    <3> QED
      BY <2>11, <3>2, <3>3
  <2>12. CASE w = v /\ Items[o][v] # 0
    <3>1. o \notin Taking(v)
      BY <2>1, <2>2, <2>7, <2>12 DEF Taking, Takes, At, Serving
    <3>2. Taking(v)' \subseteq Taking(v) \cup {o}
      BY <1>o, <2>5, <2>2 DEF Taking, Takes, At
    <3>3. o \notin TookAgain(v) /\ o \notin MayHave(v)
      BY <2>1, <2>2, <2>12 DEF MayHave, TookAgain, ToTake, At
    <3>4. status[o] = "CANCELLED"
      BY <1>w, <2>1, <2>3, <2>12 DEF HandInv, HandGood, CancelledRetaken, At
    <3>5. o \in MayHave(v)'
      BY <2>1, <2>3, <2>4, <2>8, <2>12, <3>4 DEF MayHave, TookAgain
    <3>6. /\ Pieces(v, Taking(v) \cup {o}) = Pieces(v, Taking(v)) + Items[o][v]
          /\ Pieces(v, MayHave(v) \cup {o}) = Pieces(v, MayHave(v)) + Items[o][v]
      BY <1>p, <2>3, <3>1, <3>3, PiecesAdd
    <3>7. /\ Pieces(v, Taking(v)') <= Pieces(v, Taking(v) \cup {o})
          /\ Pieces(v, MayHave(v) \cup {o}) <= Pieces(v, MayHave(v)')
      BY <1>p, <2>3, <2>10, <3>2, <3>5, PiecesMore
    <3>8. stock'[v] = stock[v] - Items[o][v] /\ goods'[v] = goods[v]
      BY <1>t, <2>1, <2>2, <2>12
    <3>9. /\ Pieces(v, Taking(v)') <= Pieces(v, Taking(v)) + Items[o][v]
          /\ Pieces(v, MayHave(v)) + Items[o][v] <= Pieces(v, MayHave(v)')
      BY <3>6, <3>7
    <3>10. Items[o][v] \in Nat
      BY <1>i, <2>3
    <3> QED
      BY <1>b, <1>p, <1>t, <2>6, <3>8, <3>9, <3>10 DEF Balance
  <2> QED
    BY <2>11, <2>12
\* The order holds what its request took
<1>10. ASSUME NEW r \in Requests, SetPaid(r) PROVE Balance(v)'
  <2> DEFINE o == job[r].order
  <2>1. o \in Orders /\ job[r].seen \in {"PENDING_PAYMENT", "CANCELLED"} /\ job[r].at = "paid"
    BY <1>10, JobAt DEF SetPaid, At, Marking
  <2>2. Items[o][v] # 0 => status[o] = job[r].seen
    BY <1>10, <1>w, <2>1, Unstale DEF SetPaid
  <2>3. Done(r) /\ SetStatus(o, "PAID") /\ UNCHANGED <<handed, stock, goods, late>>
    BY <1>10 DEF SetPaid
  <2>4. status'[o] = "PAID" /\ \A p \in Orders : p # o => status'[p] = status[p]
    BY <1>z, <2>1, <2>3
  <2>11. CASE Items[o][v] = 0
    <3>1. HeldBy' \ {o} = HeldBy \ {o}
      BY <2>3, <2>4 DEF HeldBy, Holds
    <3>2. Taking(v)' \ {o} \subseteq Taking(v) /\ MayHave(v) \ {o} \subseteq MayHave(v)'
      BY <1>a, <2>1, <2>3, <2>4
    <3>3. goods'[v] - goods[v] = stock'[v] - stock[v]
      BY <1>t, <2>3
    <3> QED
      BY <1>f, <2>1, <2>11, <3>1, <3>2, <3>3
  <2>5. CASE status[o] = "PENDING_PAYMENT"
    <3>1. HeldBy' = HeldBy
      BY <2>3, <2>4, <2>5 DEF HeldBy, Holds
    <3>2. Taking(v)' \subseteq Taking(v) /\ MayHave(v) \subseteq MayHave(v)'
      BY <1>d, <1>z, <2>1, <2>3, <2>5
    <3>3. goods'[v] - goods[v] = stock'[v] - stock[v]
      BY <1>t, <2>3
    <3> QED
      BY <1>k, <3>1, <3>2, <3>3
  <2>6. CASE status[o] = "CANCELLED" /\ Items[o][v] # 0
    <3>1. o \notin HeldBy /\ HeldBy' = HeldBy \cup {o}
      BY <2>1, <2>3, <2>4, <2>6 DEF HeldBy, Holds
    <3>2. o \in Taking(v)
      BY <2>1, <2>2, <2>6 DEF Taking, Takes, At
    <3>3. \A q \in Requests : q # r => ~Serving(q, o)
      BY <2>1 DEF PayInv, PaidOnce, Serving
    <3>4. Taking(v)' \subseteq Taking(v) \ {o}
      BY <1>o, <2>3, <3>3 DEF Done, Idle, Taking, Takes, At, Serving
    <3>5. TookAgain(v) \subseteq TookAgain(v)'
      BY <2>3, TookGrows DEF Done, Idle
    <3>6. MayHave(v) \ {o} \subseteq MayHave(v)'
      BY <1>t, <2>4, <3>5 DEF MayHave, TookAgain
    <3>7. /\ Pieces(v, HeldBy') = Pieces(v, HeldBy) + Items[o][v]
          /\ Pieces(v, Taking(v) \ {o}) = Pieces(v, Taking(v)) - Items[o][v]
      BY <1>p, <2>1, <3>1, <3>2, PiecesAdd, PiecesLess
    <3>8. Pieces(v, Taking(v)') <= Pieces(v, Taking(v) \ {o})
      BY <1>p, <3>4, PiecesMore
    <3>9. Pieces(v, MayHave(v)) <= Pieces(v, MayHave(v)') + Items[o][v]
      <4>1. CASE o \in MayHave(v)
        <5>1. Pieces(v, MayHave(v) \ {o}) = Pieces(v, MayHave(v)) - Items[o][v]
          BY <1>p, <4>1, PiecesLess
        <5>2. Pieces(v, MayHave(v) \ {o}) <= Pieces(v, MayHave(v)')
          BY <1>p, <3>6, PiecesMore
        <5> QED
          BY <1>i, <1>p, <2>1, <5>1, <5>2
      <4>2. CASE o \notin MayHave(v)
        <5>1. Pieces(v, MayHave(v)) <= Pieces(v, MayHave(v)')
          BY <1>p, <3>6, <4>2, PiecesMore
        <5> QED
          BY <1>i, <1>p, <2>1, <5>1
      <4> QED
        BY <4>1, <4>2
    <3>10. Items[o][v] \in Nat
      BY <1>i, <2>1
    <3>11. stock'[v] = stock[v] /\ goods'[v] = goods[v]
      BY <2>3
    <3> QED
      BY <1>b, <1>p, <1>t, <3>7, <3>8, <3>9, <3>10, <3>11 DEF Balance
  <2> QED
    BY <2>1, <2>2, <2>5, <2>6, <2>11
<1>11. ASSUME NEW r \in Requests, MarkPaidFails(r) \/ RefundRefused(r) PROVE Balance(v)'
  <2>1. Done(r) /\ UNCHANGED <<status, handed, late, stock, goods>>
    BY <1>11 DEF MarkPaidFails, RefundRefused
  <2> QED
    BY <1>e, <2>1 DEF Done, Idle
<1>12. ASSUME NEW r \in Requests, SetOrderStatus(r) PROVE Balance(v)'
  <2> DEFINE o == job[r].order
             s == job[r].to
  <2>1. /\ o \in Orders /\ job[r].seen \in {"PAID", "READY", "SHIPPED"}
        /\ s \in {"READY", "SHIPPED", "PICKED_UP", "DELIVERED", "CANCELLED"}
    BY <1>12, JobAt, NextAre DEF SetOrderStatus, At, Updating
  <2>2. Items[o][v] # 0 => status[o] \in {"PAID", "READY", "SHIPPED"}
    BY <1>12, <1>w, <2>1, Unstale DEF SetOrderStatus
  <2>3. /\ Done(r) /\ SetStatus(o, s) /\ UNCHANGED <<goods, late>>
        /\ IF s = "CANCELLED" THEN PutBack(o) ELSE UNCHANGED stock
        /\ handed' = [handed EXCEPT ![o] = @ + 1] \/ handed' = handed
    BY <1>12 DEF SetOrderStatus
  <2>4. \A p \in Orders : p # o => handed'[p] = handed[p]
    BY <1>t, <2>3
  <2> HIDE DEF o, s
  <2>5. status'[o] = s /\ \A p \in Orders : p # o => status'[p] = status[p]
    BY <1>z, <2>1, <2>3
  <2>9. CASE Items[o][v] = 0
    <3>1. HeldBy' \ {o} = HeldBy \ {o}
      BY <2>4, <2>5 DEF HeldBy, Holds
    <3>2. Taking(v)' \ {o} \subseteq Taking(v) /\ MayHave(v) \ {o} \subseteq MayHave(v)'
      BY <1>a, <2>1, <2>3, <2>5
    <3>3. goods'[v] - goods[v] = stock'[v] - stock[v]
      BY <1>t, <2>3, <2>9 DEF PutBack
    <3> QED
      BY <1>f, <2>1, <2>9, <3>1, <3>2, <3>3
  <2>6. Items[o][v] # 0 => Taking(v)' \subseteq Taking(v) /\ MayHave(v) \subseteq MayHave(v)'
    BY <1>d, <1>z, <2>1, <2>2, <2>3
  <2>7. CASE s = "CANCELLED" /\ Items[o][v] # 0
    <3>1. o \in HeldBy /\ HeldBy' = HeldBy \ {o}
      BY <2>1, <2>2, <2>4, <2>5, <2>7 DEF HeldBy, Holds
    <3>2. stock'[v] = stock[v] + Items[o][v]
      BY <2>3, <2>7 DEF PutBack
    <3> QED
      BY <1>l, <2>1, <2>3, <2>6, <2>7, <3>1, <3>2
  <2>8. CASE s # "CANCELLED" /\ Items[o][v] # 0
    <3>1. HeldBy' = HeldBy
      BY <2>1, <2>2, <2>4, <2>5, <2>8 DEF HeldBy, Holds
    <3>2. goods'[v] - goods[v] = stock'[v] - stock[v]
      BY <1>t, <2>3, <2>8
    <3> QED
      BY <1>k, <2>6, <2>8, <3>1, <3>2
  <2> QED
    BY <2>7, <2>8, <2>9
\* An edit that saw the stock it writes over
<1>13. ASSUME NEW r \in Requests, SetStock(r) PROVE Balance(v)'
  <2> DEFINE w == job[r].variant
  <2>1. w \in Variants /\ job[r].to \in Int /\ job[r].seen \in Int
    BY <1>13, JobAt DEF SetStock, At, Editing
  <2>2. w = v => stock[w] = job[r].seen
    BY <1>13 DEF SetStock, Trusted
  <2>3. Done(r) /\ UNCHANGED <<status, handed, late>>
    BY <1>13 DEF SetStock
  <2>4. /\ stock' = [stock EXCEPT ![w] = job[r].to]
        /\ goods' = [goods EXCEPT ![w] = @ + job[r].to - job[r].seen]
    BY <1>13 DEF SetStock
  <2>5. goods'[v] - goods[v] = stock'[v] - stock[v]
    BY <1>t, <2>1, <2>2, <2>4
  <2> QED
    BY <1>d, <1>h, <1>k, <2>3, <2>5
\* The goods of a refunded order come back unless they were handed over
<1>14. ASSUME NEW r \in Requests, RefundTx(r) PROVE Balance(v)'
  <2> DEFINE o == job[r].order
  <2>1. o \in Orders /\ At(r, "refund") /\ payment[o] = "completed"
    BY <1>14, JobAt DEF RefundTx, At, Refunding
  <2>2. Items[o][v] # 0 => o \notin stale /\ status[o] = job[r].seen
    BY <1>14, <1>w, <2>1, Unstale DEF RefundTx
  <2>3. Done(r) /\ UNCHANGED <<handed, goods, late>>
    BY <1>14 DEF RefundTx
  <2>4. CASE UNCHANGED <<status, stock>>
    <3>1. goods'[v] - goods[v] = stock'[v] - stock[v]
      BY <1>t, <2>3, <2>4
    <3> QED
      BY <1>d, <1>h, <1>k, <2>3, <2>4, <3>1
  <2>6. CASE /\ SetStatus(o, "REFUNDED") /\ Items[o][v] = 0
             /\ UNCHANGED stock \/ PutBack(o)
    <3>1. status'[o] = "REFUNDED" /\ \A p \in Orders : p # o => status'[p] = status[p]
      BY <1>z, <2>1, <2>6
    <3>2. HeldBy' \ {o} = HeldBy \ {o}
      BY <2>3, <3>1 DEF HeldBy, Holds
    <3>3. Taking(v)' \ {o} \subseteq Taking(v) /\ MayHave(v) \ {o} \subseteq MayHave(v)'
      BY <1>a, <2>1, <2>3, <3>1
    <3>4. goods'[v] - goods[v] = stock'[v] - stock[v]
      BY <1>t, <2>3, <2>6 DEF PutBack
    <3> QED
      BY <1>f, <2>1, <2>6, <3>2, <3>3, <3>4
  <2>5. CASE /\ SetStatus(o, "REFUNDED") /\ status[o] \notin {"REFUNDED", "CANCELLED"}
             /\ IF job[r].handed THEN UNCHANGED stock ELSE PutBack(o)
             /\ Items[o][v] # 0
    <3>1. status'[o] = "REFUNDED" /\ \A p \in Orders : p # o => status'[p] = status[p]
      BY <1>z, <2>1, <2>5
    <3>2. Taking(v)' \subseteq Taking(v) /\ MayHave(v) \subseteq MayHave(v)'
      BY <1>d, <1>z, <2>1, <2>3, <2>5
    <3>3. status[o] # "none"
      BY <2>1 DEF PayInv, PaidOnce
    <3>4. o \in HeldBy
      BY <2>1, <2>5, <3>3 DEF HeldBy, Holds
    <3>5. HandOK(o) /\ (job[r].handed <=> Handed(status[o])) /\ handed[o] \in Nat
      BY <1>t, <2>1, <2>2, <2>5 DEF HandInv, HandGood, SeenHanded
    <3>6. CASE Handed(status[o])
      <4>1. handed[o] > 0
        BY <3>5, <3>6 DEF HandOK
      <4>2. HeldBy' = HeldBy
        BY <2>1, <2>3, <3>1, <3>4, <4>1 DEF HeldBy, Holds
      <4>3. stock' = stock
        BY <2>5, <3>5, <3>6
      <4>4. goods'[v] - goods[v] = stock'[v] - stock[v]
        BY <1>t, <2>3, <4>3
      <4> QED
        BY <1>k, <3>2, <4>2, <4>4
    <3>7. CASE ~Handed(status[o])
      <4>1. ~(handed[o] > 0)
        BY <2>5, <3>5, <3>7 DEF HandOK
      <4>2. HeldBy' = HeldBy \ {o}
        BY <2>1, <2>3, <3>1, <3>4, <4>1 DEF HeldBy, Holds
      <4>3. PutBack(o)
        BY <2>5, <3>5, <3>7
      <4>4. stock'[v] = stock[v] + Items[o][v]
        BY <4>3 DEF PutBack
      <4> QED
        BY <1>l, <2>1, <2>3, <3>2, <3>4, <4>2, <4>4
    <3> QED
      BY <3>6, <3>7
  <2> QED
    BY <1>14, <2>2, <2>4, <2>5, <2>6 DEF RefundTx
<1>15. CASE UNCHANGED vars
  <2>1. UNCHANGED <<stock, goods, status, handed, job, late>>
    BY <1>15 DEF vars
  <2>2. goods'[v] - goods[v] = stock'[v] - stock[v]
    BY <1>t, <2>1
  <2> QED
    BY <1>h, <1>k, <1>u, <2>1, <2>2
<1> QED
  BY <1>1, <1>2, <1>3, <1>4, <1>5, <1>6, <1>7, <1>8, <1>9, <1>10, <1>11, <1>12, <1>13, <1>14, <1>15
     DEF Next, Checkout, MarkPaid, Organizer, Refund, CloseCheckout, CancelForPayment, ExpireStale

\* Every piece of a variant is in stock or under one order, but for what late payments
\* took, through any number of orders, requests and stock edits, as long as none acted on
\* a stock of this variant, or on a status of an order of it, that had changed.
THEOREM StockAndOrdersBalance == Spec => []StockBalances
<1>1. TypeInv /\ StockInv => StockBalances
  <2> SUFFICES ASSUME TypeInv, StockInv, NEW v \in Variants, Trusted(v)
               PROVE  /\ stock[v] + Held(v) <= goods[v]
                      /\ stock[v] + Held(v) + Retaken(v) >= goods[v]
    BY DEF StockBalances
  <2>1. late \subseteq Orders /\ stock[v] \in Int /\ goods[v] \in Int
    BY DEF TypeInv
  <2> DEFINE cancelled == {o \in late : status[o] = "CANCELLED"}
  <2>2. /\ HeldBy \in SUBSET Orders /\ Taking(v) \in SUBSET Orders
        /\ MayHave(v) \in SUBSET cancelled /\ cancelled \in SUBSET Orders
    BY <2>1 DEF HeldBy, Taking, MayHave, TookAgain
  <2>3. Held(v) = Pieces(v, HeldBy) /\ Retaken(v) = Pieces(v, cancelled)
    BY DEF Held, Retaken, HeldBy
  <2> HIDE DEF cancelled
  <2>4. Pieces(v, MayHave(v)) <= Pieces(v, cancelled)
    BY <2>2, PiecesMore
  <2>5. /\ Pieces(v, HeldBy) \in Nat /\ Pieces(v, Taking(v)) \in Nat
        /\ Pieces(v, MayHave(v)) \in Nat /\ Pieces(v, cancelled) \in Nat
    BY <2>2, PiecesType
  <2> QED
    BY <2>1, <2>3, <2>4, <2>5 DEF StockInv, Balance
<1> QED
  BY <1>1, PayInvAlways, InitHandInv, StepHandInv, InitStockInv, StepStockInv, PTL DEF Spec

=============================================================================
