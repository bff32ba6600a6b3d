------------------------- MODULE TicketStock_proofs -------------------------
(***************************************************************************)
(* Proofs about TicketStock for any number of requests, orders and seats,  *)
(* in three layers: the exact shape of a request's memory (TypeInv), what  *)
(* a generation and a refund know of an order (OrderInv), and the balance  *)
(* of the seats (SeatInv).  The properties alone are not inductive.        *)
(***************************************************************************)
EXTENDS TicketStock, FiniteSetTheorems, SequenceTheorems, TLAPS

-----------------------------------------------------------------------------
(***************************************************************************)
(* Layer 1: types.                                                         *)
(***************************************************************************)
\* The tickets that may exist when the orders in "started" were started
Ticket(started) == [status : Statuses, order : started \cup {NoOrder}]

\* What a request may hold when the orders in "started" were started and n
\* tickets exist
Jobs(started, n) ==
         {Idle}
    \cup [at : {"count"}, order : started \cup {NoOrder}, size : Nat]
    \cup [at : {"insert"}, order : started \cup {NoOrder}, size : Nat, base : 0..n]
    \cup [at : {"cancel", "free"}, ticket : 1..n, seen : Statuses]
    \cup [at : {"pass"}, ticket : 1..n]
    \cup [at : {"claim"}, order : started]
    \cup [at : {"refund"}, order : started, tickets : SUBSET (1..n)]
    \cup [at : {"resize", "requantify"}, to : Nat \ {0}, quantity : Nat, available : Nat]
    \cup [at : {"cancelling", "closing"}]

TypeInv ==
    /\ pass \in BOOLEAN /\ quantity \in Nat /\ available \in Nat
    /\ tickets \in Seq(Ticket(sold))
    /\ event \in {"open", "cancelled"}
    /\ refunded \subseteq sold /\ sold \subseteq Orders
    /\ job \in [Requests -> Jobs(sold, Len(tickets))]
    /\ leak \in BOOLEAN /\ doubled \in Nat
    /\ entered \subseteq 1..Len(tickets) /\ reopened \subseteq 1..Len(tickets)

LEMMA TypeInvImplies == TypeInv => TypeOK
<1> SUFFICES ASSUME TypeInv PROVE TypeOK
  OBVIOUS
<1>1. Serials = 1..Len(tickets) /\ Len(tickets) \in Nat
  BY LenProperties DEF TypeInv, Serials
<1>2. ASSUME NEW r \in Requests
      PROVE LET j == job[r] IN
         \/ j = Idle
         \/ j.at = "count" /\ j.order \in sold \cup {NoOrder} /\ j.size \in Nat
         \/ /\ j.at = "insert" /\ j.order \in sold \cup {NoOrder}
            /\ j.size \in Nat /\ j.base \in 0..Len(tickets)
         \/ j.at \in {"cancel", "free", "pass"} /\ j.ticket \in Serials
         \/ j.at = "claim" /\ j.order \in sold
         \/ j.at = "refund" /\ j.order \in sold /\ j.tickets \subseteq Serials
         \/ /\ j.at \in {"resize", "requantify"} /\ j.to \in Nat \ {0}
            /\ j.quantity \in Nat /\ j.available \in Nat
         \/ j.at \in {"cancelling", "closing"}
  <2>1. job[r] \in Jobs(sold, Len(tickets))
    BY DEF TypeInv
  <2> QED
    BY <1>1, <2>1 DEF Jobs
<1>3. tickets \in Seq([status : Statuses, order : Orders \cup {NoOrder}])
  <2>1. Ticket(sold) \subseteq [status : Statuses, order : Orders \cup {NoOrder}]
    BY DEF TypeInv, Ticket
  <2>2. tickets \in Seq(Ticket(sold))
    BY DEF TypeInv
  <2> QED
    BY <2>1, <2>2, SeqMonotonic
<1> QED
  BY <1>1, <1>2, <1>3 DEF TypeInv, TypeOK

\* Changing the status of some tickets leaves their number and their orders alone.
LEMMA MarkProperties ==
  ASSUME tickets \in Seq(Ticket(sold)), NEW S, NEW s \in Statuses
  PROVE  /\ Mark(S, s) \in Seq(Ticket(sold))
         /\ Len(Mark(S, s)) = Len(tickets)
         /\ \A k \in 1..Len(tickets) :
               /\ Mark(S, s)[k].order = tickets[k].order
               /\ Mark(S, s)[k].status = IF k \in S THEN s ELSE tickets[k].status
<1> DEFINE n == Len(tickets)
           m == Mark(S, s)
<1>1. n \in Nat /\ tickets \in [1..n -> Ticket(sold)] /\ Serials = 1..n
  BY LenProperties DEF Serials
<1>2. m = [k \in 1..n |-> IF k \in S THEN [tickets[k] EXCEPT !.status = s] ELSE tickets[k]]
  BY <1>1 DEF Mark
<1>3. ASSUME NEW k \in 1..n
      PROVE /\ m[k] \in Ticket(sold) /\ m[k].order = tickets[k].order
            /\ m[k].status = IF k \in S THEN s ELSE tickets[k].status
  <2>1. tickets[k] \in Ticket(sold)
    BY <1>1
  <2> QED
    BY <1>2, <2>1 DEF Ticket
<1>4. m \in [1..n -> Ticket(sold)]
  BY <1>2, <1>3
<1>5. m \in Seq(Ticket(sold)) /\ Len(m) = n
  BY <1>1, <1>4, LenProperties, SeqDef
<1> QED
  BY <1>3, <1>5

\* A generation adds its tickets after the others.
LEMMA NewTicketsProperties ==
  ASSUME TypeInv, NEW r \in Requests, At(r, "insert")
  PROVE  LET n == Len(tickets)
             m == job[r].size
             t == tickets \o NewTickets(r)
         IN  /\ n \in Nat /\ m \in Nat
             /\ t \in Seq(Ticket(sold)) /\ Len(t) = n + m
             /\ \A k \in 1..n : t[k] = tickets[k]
             /\ \A k \in (n + 1)..(n + m) :
                   t[k].status = "VALID" /\ t[k].order = job[r].order
<1> DEFINE n == Len(tickets)
           m == job[r].size
           t == tickets \o NewTickets(r)
           new == [status |-> "VALID", order |-> job[r].order]
<1>1. job[r] \in Jobs(sold, n) /\ sold \subseteq Orders
  BY DEF TypeInv
<1>2. m \in Nat /\ new \in Ticket(sold)
  BY <1>1 DEF At, Jobs, Idle, Ticket, Statuses, Live
<1>3. n \in Nat
  BY LenProperties DEF TypeInv
<1>4. NewTickets(r) = [k \in 1..m |-> new]
  BY DEF NewTickets
<1>5. NewTickets(r) \in [1..m -> Ticket(sold)]
  BY <1>2, <1>4
<1>6. NewTickets(r) \in Seq(Ticket(sold))
  BY <1>2, <1>5, SeqDef
<1>7. Len(NewTickets(r)) = m
  BY <1>2, <1>4, <1>6, LenProperties
<1>8. /\ t \in Seq(Ticket(sold)) /\ Len(t) = n + m
      /\ \A i \in 1..(n + m) : t[i] = IF i <= n THEN tickets[i] ELSE NewTickets(r)[i - n]
  <2> HIDE DEF n, m
  <2>1. tickets \in Seq(Ticket(sold))
    BY DEF TypeInv
  <2>2. Len(tickets) = n
    BY DEF n
  <2> QED
    BY <1>6, <1>7, <2>1, <2>2, ConcatProperties
<1>9. ASSUME NEW k \in (n + 1)..(n + m)
      PROVE t[k].status = "VALID" /\ t[k].order = job[r].order
  <2>1. k \in 1..(n + m) /\ ~(k <= n) /\ k - n \in 1..m
    BY <1>2, <1>3
  <2>2. t[k] = new
    BY <1>4, <1>8, <2>1
  <2> QED
    BY <2>2
<1>10. ASSUME NEW k \in 1..n PROVE t[k] = tickets[k]
  BY <1>2, <1>3, <1>8
<1> QED
  BY <1>2, <1>3, <1>8, <1>9, <1>10

LEMMA JobsGrow ==
  ASSUME NEW S, NEW T, S \subseteq T, NEW n \in Nat, NEW m \in Nat, n <= m
  PROVE  Jobs(S, n) \subseteq Jobs(T, m)
<1>1. 0..n \subseteq 0..m /\ 1..n \subseteq 1..m /\ SUBSET (1..n) \subseteq SUBSET (1..m)
  OBVIOUS
<1> QED
  BY <1>1 DEF Jobs

\* A request goes on with a memory that fits the next state.
LEMMA JobTyped ==
  ASSUME TypeInv, NEW r \in Requests, NEW j \in Jobs(sold', Len(tickets')), Goto(r, j),
         sold \subseteq sold', tickets' \in Seq(Ticket(sold')), Len(tickets) <= Len(tickets')
  PROVE  job' \in [Requests -> Jobs(sold', Len(tickets'))]
<1>1. Len(tickets) \in Nat /\ Len(tickets') \in Nat
  BY LenProperties DEF TypeInv
<1>2. Jobs(sold, Len(tickets)) \subseteq Jobs(sold', Len(tickets'))
  BY <1>1, JobsGrow
<1> QED
  BY <1>2 DEF TypeInv, Goto

\* How many of some tickets are not in a given set.
LEMMA CountOthers ==
  ASSUME TypeInv, NEW S, S \subseteq Serials, NEW T
  PROVE  /\ doubled \in Nat /\ IsFiniteSet(S)
         /\ Cardinality(S \ T) \in Nat /\ doubled + Cardinality(S \ T) \in Nat
<1>1. Serials = 1..Len(tickets) /\ Len(tickets) \in Nat /\ doubled \in Nat
  BY LenProperties DEF TypeInv, Serials
<1>2. IsFiniteSet(S) /\ IsFiniteSet(S \ T)
  <2>1. IsFiniteSet(1..Len(tickets))
    BY <1>1, FS_Interval
  <2>2. S \in SUBSET (1..Len(tickets)) /\ S \ T \in SUBSET (1..Len(tickets))
    BY <1>1
  <2> QED
    BY <2>1, <2>2, FS_Subset
<1>3. Cardinality(S \ T) \in Nat
  BY <1>2, FS_CardinalityType
<1> QED
  BY <1>1, <1>2, <1>3

\* ... and of one ticket, if b holds
LEMMA CountOne ==
  ASSUME NEW k, NEW b, NEW T
  PROVE  LET c == Cardinality((IF b THEN {k} ELSE {}) \ T) IN
         c = IF b /\ k \notin T THEN 1 ELSE 0
<1> DEFINE S == (IF b THEN {k} ELSE {}) \ T
<1>1. b /\ k \notin T => S = {k}
  OBVIOUS
<1>2. ~(b /\ k \notin T) => S = {}
  OBVIOUS
<1>3. Cardinality({k}) = 1 /\ Cardinality({}) = 0
  BY FS_Singleton, FS_EmptySet
<1> HIDE DEF S
<1>4. Cardinality(S) = IF b /\ k \notin T THEN 1 ELSE 0
  BY <1>1, <1>2, <1>3
<1> QED
  BY <1>4 DEF S

\* What a ticket that frees its seat adds to "doubled", if b holds
LEMMA FreesOne ==
  ASSUME TypeInv, NEW k \in Serials, NEW b, Frees(IF b THEN {k} ELSE {})
  PROVE  /\ UNCHANGED <<leak, entered>> /\ doubled' \in Nat
         /\ b /\ k \notin LiveTickets \ entered => doubled' = doubled + 1
         /\ ~b \/ k \in LiveTickets \ entered => doubled' = doubled
<1> DEFINE S == IF b THEN {k} ELSE {}
           T == LiveTickets \ entered
           c == Cardinality(S \ T)
<1>1. UNCHANGED <<leak, entered>> /\ doubled' = doubled + c
  BY DEF Frees
<1>2. c = IF b /\ k \notin T THEN 1 ELSE 0
  <2> HIDE DEF T
  <2> QED
    BY CountOne
<1> HIDE DEF c, T
<1>3. doubled \in Nat
  BY DEF TypeInv
<1>4. c = 0 => doubled' = doubled
  BY <1>1, <1>3
<1> QED
  BY <1>1, <1>2, <1>3, <1>4 DEF T

\* ... and one that comes to life
LEMMA RevivesOne ==
  ASSUME TypeInv, NEW k \in Serials, NEW b, Revives(IF b THEN {k} ELSE {})
  PROVE  /\ leak' = leak /\ doubled' \in Nat
         /\ b /\ k \notin Taken => doubled' = doubled + 1
         /\ ~b \/ k \in Taken => doubled' = doubled
<1> DEFINE S == IF b THEN {k} ELSE {}
           c == Cardinality(S \ Taken)
<1>1. leak' = leak /\ doubled' = doubled + c
  BY DEF Revives
<1>2. c = IF b /\ k \notin Taken THEN 1 ELSE 0
  BY CountOne
<1> HIDE DEF c
<1>3. doubled \in Nat
  BY DEF TypeInv
<1>4. c = 0 => doubled' = doubled
  BY <1>1, <1>3
<1> QED
  BY <1>1, <1>2, <1>3, <1>4

LEMMA InitTypeInv == Init => TypeInv
<1> SUFFICES ASSUME Init PROVE TypeInv
  OBVIOUS
<1>1. tickets \in Seq(Ticket(sold))
  BY EmptySeq DEF Init
<1>2. \A n : Idle \in Jobs({}, n)
  BY DEF Jobs
<1> QED
  BY <1>1, <1>2, QuantitiesAssumption DEF Init, TypeInv

LEMMA StepTypeInv == TypeInv /\ [Next]_vars => TypeInv'
<1> SUFFICES ASSUME TypeInv, [Next]_vars PROVE TypeInv'
  OBVIOUS
<1> USE DEF history
<1> DEFINE n == Len(tickets)
<1>n. /\ n \in Nat /\ Serials = 1..n /\ tickets \in Seq(Ticket(sold))
      /\ \A k \in 1..n : /\ tickets[k].status \in Statuses
                         /\ tickets[k].order \in sold \cup {NoOrder}
      /\ entered \subseteq 1..n
  <2>1. tickets \in Seq(Ticket(sold))
    BY DEF TypeInv
  <2>2. n \in Nat /\ tickets \in [1..n -> Ticket(sold)] /\ Serials = 1..n
    BY <2>1, LenProperties DEF Serials
  <2> QED
    BY <2>1, <2>2 DEF Ticket, TypeInv
<1>j. ASSUME NEW r \in Requests PROVE job[r] \in Jobs(sold, n)
  BY DEF TypeInv
<1>i. \A S, m : Idle \in Jobs(S, m)
  BY DEF Jobs
\* A request moves and changes no ticket: its new memory is all there is to see
<1>m. ASSUME NEW r \in Requests, NEW j \in Jobs(sold', n), Goto(r, j),
             UNCHANGED <<pass, tickets, event>>,
             sold \subseteq sold', sold' \subseteq Orders, refunded' = refunded,
             quantity' \in Nat, available' \in Nat, leak' \in BOOLEAN, UNCHANGED <<entered, doubled, reopened>>
      PROVE  TypeInv'
  <2>1. Len(tickets') = n /\ tickets' \in Seq(Ticket(sold')) /\ n <= Len(tickets')
    <3>1. Ticket(sold) \subseteq Ticket(sold')
      BY <1>m DEF Ticket
    <3> QED
      BY <1>m, <1>n, <3>1, SeqMonotonic
  <2>2. job' \in [Requests -> Jobs(sold', Len(tickets'))]
    BY <1>m, <2>1, JobTyped
  <2> QED
    BY <1>m, <2>1, <2>2 DEF TypeInv
\* A request moves and marks tickets
<1>t. ASSUME NEW r \in Requests, NEW j \in Jobs(sold, n), Goto(r, j),
             NEW S, NEW s \in Statuses, tickets' = Mark(S, s),
             UNCHANGED <<pass, quantity, sold>>, available' \in Nat,
             event' \in {"open", "cancelled"},
             refunded' \subseteq sold, leak' = leak, doubled' \in Nat, entered' \subseteq 1..n,
             reopened' \subseteq reopened
      PROVE  TypeInv'
  <2>1. Len(tickets') = n /\ tickets' \in Seq(Ticket(sold')) /\ n <= Len(tickets')
    BY <1>t, <1>n, MarkProperties
  <2>2. job' \in [Requests -> Jobs(sold', Len(tickets'))]
    BY <1>t, <2>1, JobTyped
  <2> QED
    BY <1>t, <2>1, <2>2 DEF TypeInv
\* Nobody moves, a ticket is marked
<1>g. ASSUME NEW k, NEW s \in Statuses, tickets' = Mark({k}, s), leak' = leak,
             doubled' \in Nat, entered' \subseteq 1..n, reopened' \subseteq 1..n,
             UNCHANGED <<pass, quantity, available, event, sold, refunded, job>>
      PROVE  TypeInv'
  <2>1. Len(tickets') = n /\ tickets' \in Seq(Ticket(sold'))
    BY <1>g, <1>n, MarkProperties
  <2> QED
    BY <1>g, <2>1 DEF TypeInv
<1>s. ASSUME NEW r \in Requests, NEW o \in Orders \cup {NoOrder}, NEW m \in Nat,
             StartSale(r, o, m), sold \subseteq sold', sold' \subseteq Orders,
             o \in sold' \cup {NoOrder}
      PROVE  TypeInv'
  <2>1. [at |-> "count", order |-> o, size |-> m] \in Jobs(sold', n)
    BY <1>s DEF Jobs
  <2> QED
    BY <1>s, <1>m, <2>1 DEF StartSale, TypeInv
<1>1. ASSUME NEW r \in Requests, NEW o \in Orders, SellOrder(r, o) PROVE TypeInv'
  <2>1. Size[o] \in Nat
    BY SizesAssumption
  <2> QED
    BY <1>1, <1>s, <2>1 DEF SellOrder, TypeInv
<1>2. ASSUME NEW r \in Requests, MakeBatch(r) PROVE TypeInv'
  <2>1. PICK m \in BatchSizes : StartSale(r, NoOrder, m)
    BY <1>2 DEF MakeBatch
  <2> QED
    BY <1>2, <1>s, <2>1, SizesAssumption DEF MakeBatch, TypeInv
<1>3. ASSUME NEW r \in Requests, CountTickets(r) PROVE TypeInv'
  <2>1. [at |-> "insert", order |-> job[r].order, size |-> job[r].size, base |-> n]
          \in Jobs(sold, n)
    BY <1>3, <1>j, <1>n DEF CountTickets, At, Jobs, Idle
  <2> QED
    BY <1>3, <1>m, <2>1 DEF CountTickets, TypeInv
<1>4. ASSUME NEW r \in Requests, InsertBatch(r) PROVE TypeInv'
  <2>1. At(r, "insert") /\ Goto(r, Idle)
        /\ UNCHANGED <<pass, quantity, event, sold, refunded, history>>
    BY <1>4 DEF InsertBatch, Done
  <2>2. CASE UNCHANGED <<available, tickets>>
    BY <1>m, <1>i, <2>1, <2>2 DEF TypeInv
  <2>3. CASE /\ available >= job[r].size /\ available' = available - job[r].size
             /\ tickets' = tickets \o NewTickets(r)
    <3>1. job[r].size \in Nat /\ tickets' \in Seq(Ticket(sold')) /\ n <= Len(tickets')
      <4>1. /\ job[r].size \in Nat /\ tickets' \in Seq(Ticket(sold'))
            /\ Len(tickets') = n + job[r].size
        BY <2>1, <2>3, NewTicketsProperties
      <4> QED
        BY <1>n, <4>1
    <3>2. job' \in [Requests -> Jobs(sold', Len(tickets'))]
      BY <1>i, <2>1, <3>1, JobTyped
    <3>3. 1..n \subseteq 1..Len(tickets')
      BY <1>n, <3>1, LenProperties
    <3> QED
      BY <2>1, <2>3, <3>1, <3>2, <3>3 DEF TypeInv
  <2> QED
    BY <1>4, <2>2, <2>3 DEF InsertBatch
<1>5. ASSUME NEW r \in Requests, NEW k \in Serials, StartCancel(r, k) PROVE TypeInv'
  <2>1. [at |-> "cancel", ticket |-> k, seen |-> tickets[k].status] \in Jobs(sold, n)
    BY <1>n DEF Jobs
  <2> QED
    BY <1>5, <1>m, <2>1 DEF StartCancel, TypeInv
<1>6. ASSUME NEW r \in Requests, SetCancelled(r) PROVE TypeInv'
  <2>1. [job[r] EXCEPT !.at = "free"] \in Jobs(sold, n)
    BY <1>6, <1>j DEF SetCancelled, CancelThen, At, Jobs, Idle
  <2>2. PICK j \in {Idle, [job[r] EXCEPT !.at = "free"]} : Goto(r, j)
    BY <1>6 DEF SetCancelled, CancelThen, Done
  <2>3. j \in Jobs(sold, n) /\ "CANCELLED" \in Statuses
    BY <1>i, <2>1 DEF Statuses
  <2>4. /\ tickets' = Mark({job[r].ticket}, "CANCELLED")
        /\ UNCHANGED <<pass, quantity, available, event, sold, refunded>>
        /\ Frees(IF job[r].seen \in Unused THEN {job[r].ticket} ELSE {})
        /\ reopened' = reopened
    BY <1>6 DEF SetCancelled, CancelThen
  <2>5. job[r].ticket \in Serials
    BY <1>6, <1>j, <1>n DEF SetCancelled, CancelThen, At, Jobs, Idle
  <2>6. UNCHANGED <<leak, entered>> /\ doubled' \in Nat
    BY <2>4, <2>5, FreesOne
  <2> QED
    BY <1>t, <1>n, <2>2, <2>3, <2>4, <2>6 DEF TypeInv
<1>7. ASSUME NEW r \in Requests, FreeSeat(r) PROVE TypeInv'
  BY <1>7, <1>m, <1>i DEF FreeSeat, Done, TypeInv
<1>8. ASSUME NEW r \in Requests, NEW o \in Orders, StartRefund(r, o) PROVE TypeInv'
  <2>1. o \in sold
    BY <1>8, <1>n, SizesAssumption DEF StartRefund, Of
  <2>2. [at |-> "claim", order |-> o] \in Jobs(sold, n)
    BY <2>1 DEF Jobs
  <2> QED
    BY <1>8, <1>m, <2>2 DEF StartRefund, TypeInv
<1>9. ASSUME NEW r \in Requests, ClaimRefund(r) PROVE TypeInv'
  <2> DEFINE o == job[r].order
             j == [at |-> "refund", order |-> o,
                   tickets |-> {k \in Of(o) : tickets[k].status \in Unused}]
  <2>1. o \in sold /\ {k \in Of(o) : tickets[k].status \in Unused} \in SUBSET (1..n)
    BY <1>9, <1>j, <1>n DEF ClaimRefund, At, Jobs, Idle, Of
  <2>2. j \in Jobs(sold, n)
    BY <2>1 DEF Jobs
  <2>3. PICK i \in {Idle, j} : Goto(r, i)
    BY <1>9 DEF ClaimRefund, Done
  <2> QED
    BY <1>9, <1>m, <1>i, <2>2, <2>3 DEF ClaimRefund, TypeInv
<1>10. ASSUME NEW r \in Requests, CommitRefund(r) PROVE TypeInv'
  <2> DEFINE j == job[r]
  <2>1. j.order \in sold /\ j.tickets \in SUBSET (1..n)
    BY <1>10, <1>j DEF CommitRefund, At, Jobs, Idle
  <2>2. Cardinality(j.tickets) \in Nat
    <3>1. IsFiniteSet(1..n)
      BY <1>n, FS_Interval
    <3>2. IsFiniteSet(j.tickets)
      BY <2>1, <3>1, FS_Subset
    <3> QED
      BY <3>2, FS_CardinalityType
  <2>3. available + Cardinality(j.tickets) \in Nat /\ "CANCELLED" \in Statuses
    BY <2>2 DEF TypeInv, Statuses
  <2>4. /\ Goto(r, Idle) /\ tickets' = Mark(j.tickets, "CANCELLED")
        /\ available' \in Nat /\ refunded' = refunded \cup {j.order}
        /\ UNCHANGED <<pass, quantity, event, sold>> /\ Frees(j.tickets)
        /\ reopened' \subseteq reopened
    BY <1>10, <2>3 DEF CommitRefund, Done, TypeInv
  <2>5. UNCHANGED <<leak, entered>> /\ doubled' \in Nat
    BY <1>n, <2>1, <2>4, CountOthers DEF Frees
  <2> QED
    BY <1>t, <1>n, <1>i, <2>1, <2>3, <2>4, <2>5 DEF TypeInv
<1>11. ASSUME NEW r \in Requests, NEW q \in FormQuantities, StartEdit(r, q) PROVE TypeInv'
  <2>1. q \in Nat \ {0} /\ quantity \in Nat /\ available \in Nat
    BY QuantitiesAssumption DEF FormQuantities, TypeInv
  <2>2. [at |-> IF q = quantity THEN "requantify" ELSE "resize", to |-> q,
         quantity |-> quantity, available |-> available] \in Jobs(sold, n)
    BY <2>1 DEF Jobs
  <2> QED
    BY <1>11, <1>m, <2>1, <2>2 DEF StartEdit, TypeInv
<1>12. ASSUME NEW r \in Requests, Resize(r) PROVE TypeInv'
  <2> DEFINE j == job[r]
  <2>1. /\ [j EXCEPT !.at = "requantify"] \in Jobs(sold, n)
        /\ j.to \in Nat /\ j.quantity \in Nat /\ j.available \in Nat
    BY <1>12, <1>j DEF Resize, At, Jobs, Idle
  <2>2. Left(j) \in Nat
    BY <2>1 DEF Left
  <2>3. leak' \in BOOLEAN /\ UNCHANGED <<entered, doubled, reopened>>
    BY <1>12 DEF Resize, LeakIf, TypeInv
  <2> QED
    BY <1>12, <1>m, <2>1, <2>2, <2>3 DEF Resize, TypeInv
<1>13. ASSUME NEW r \in Requests, Requantify(r) PROVE TypeInv'
  <2>1. job[r].to \in Nat
    BY <1>13, <1>j DEF Requantify, At, Jobs, Idle
  <2>2. leak' \in BOOLEAN /\ UNCHANGED <<entered, doubled, reopened>>
    BY <1>13 DEF Requantify, LeakIf, TypeInv
  <2> QED
    BY <1>13, <1>m, <1>i, <2>1, <2>2 DEF Requantify, Done, TypeInv
<1>14. ASSUME NEW r \in Requests, StartCancelEvent(r) \/ CancelEvent(r) PROVE TypeInv'
  <2>1. [at |-> "closing"] \in Jobs(sold, n) /\ [at |-> "cancelling"] \in Jobs(sold, n)
    BY DEF Jobs
  <2>2. job' \in [Requests -> Jobs(sold, n)]
    BY <1>14, <2>1 DEF StartCancelEvent, CancelEvent, Goto, TypeInv
  <2> QED
    BY <1>14, <2>2 DEF StartCancelEvent, CancelEvent, TypeInv
<1>15. ASSUME NEW r \in Requests, CancelTickets(r) PROVE TypeInv'
  <2>1. "CANCELLED" \in Statuses
    BY DEF Statuses
  <2> QED
    BY <1>15, <1>t, <1>n, <1>i, <2>1 DEF CancelTickets, Done, TypeInv
<1>16. ASSUME NEW r \in Requests, NEW k \in Serials, StartPass(r, k) PROVE TypeInv'
  <2>1. [at |-> "pass", ticket |-> k] \in Jobs(sold, n)
    BY <1>n DEF Jobs
  <2> QED
    BY <1>16, <1>m, <2>1 DEF StartPass, TypeInv
<1>17. ASSUME NEW r \in Requests, EnterPass(r) PROVE TypeInv'
  <2>1. "USED" \in Statuses /\ job[r].ticket \in Serials
    BY <1>17, <1>j, <1>n DEF EnterPass, At, Jobs, Idle, Statuses, Live
  <2>2. leak' = leak /\ doubled' \in Nat /\ entered' \subseteq 1..n
    BY <1>17, <1>n, <2>1, CountOthers DEF EnterPass, Revives
  <2> QED
    BY <1>17, <1>t, <1>i, <2>1, <2>2 DEF EnterPass, Done, TypeInv
<1>18. ASSUME NEW k \in Serials, Admit(k) \/ CondemnForged(k) PROVE TypeInv'
  <2>1. {"USED", "FRAUDULENT"} \subseteq Statuses /\ doubled \in Nat /\ reopened \subseteq 1..n
    BY DEF Statuses, Live, TypeInv
  <2>2. entered' \subseteq 1..n
    BY <1>18, <1>n DEF Admit, CondemnForged
  <2> QED
    BY <1>18, <1>g, <2>1, <2>2 DEF Admit, CondemnForged
<1>19. ASSUME NEW k \in Serials, NEW s \in BulkStatuses, BulkStatus(k, s) PROVE TypeInv'
  <2>1. s \in Statuses /\ reopened' \subseteq 1..n
    BY <1>19, <1>n, BulkStatusesAssumption DEF BulkStatus, TypeInv
  <2>2. leak' = leak /\ doubled' \in Nat
    BY <1>19, RevivesOne DEF BulkStatus
  <2> QED
    BY <1>19, <1>g, <1>n, <2>1, <2>2 DEF BulkStatus
<1>20. CASE UNCHANGED vars
  BY <1>20 DEF vars, TypeInv
<1> QED
  BY <1>1, <1>2, <1>3, <1>4, <1>5, <1>6, <1>7, <1>8, <1>9, <1>10, <1>11, <1>12, <1>13,
     <1>14, <1>15, <1>16, <1>17, <1>18, <1>19, <1>20
  DEF Next, Sale, Cancellation, Refund, Edit, Gate, Pass, Bulk

\* In every reachable state the seats, the tickets and what each request
\* remembers have their types, for any requests, orders and quantities; a
\* request never names a ticket that does not exist.
THEOREM TypeCorrect == Spec => []TypeOK
<1>1. Spec => []TypeInv
  BY InitTypeInv, StepTypeInv, PTL DEF Spec
<1> QED
  BY <1>1, TypeInvImplies, PTL

-----------------------------------------------------------------------------
(***************************************************************************)
(* Layer 2: orders.                                                        *)
(***************************************************************************)
Generating(r) == At(r, "count") \/ At(r, "insert")

\* An order is generated by one request, while it has no ticket yet
GeneratedOnce ==
    \A r \in Requests : Generating(r) /\ job[r].order # NoOrder =>
        /\ Of(job[r].order) = {}
        /\ \A s \in Requests : Generating(s) /\ job[s].order = job[r].order => s = r

\* Only an order with tickets is refunded
RefundsExisting ==
    /\ \A r \in Requests : At(r, "claim") \/ At(r, "refund") => Of(job[r].order) # {}
    /\ \A o \in refunded : Of(o) # {}

\* A refund about to be committed holds all the tickets of the order that may
\* still be used, but the reopened ones
HoldsUnused ==
    \A r \in Requests : At(r, "refund") =>
        \A k \in Of(job[r].order) \ (job[r].tickets \cup reopened) : tickets[k].status \notin Unused

\* ... nor does one committed leave any
RefundedUnusable ==
    \A o \in refunded : \A k \in Of(o) \ reopened : tickets[k].status \notin Unused

\* A pass is set used by an entry, or by a bulk change
PassEntered ==
    pass => \A k \in Serials \ reopened : tickets[k].status = "USED" => k \in entered

OrderInv == GeneratedOnce /\ RefundsExisting /\ HoldsUnused /\ RefundedUnusable

\* Marking tickets leaves each order its tickets.
LEMMA MarkStep ==
  ASSUME TypeInv, NEW S, NEW s \in Statuses, tickets' = Mark(S, s)
  PROVE  /\ Serials' = Serials
         /\ \A o : Of(o)' = Of(o)
         /\ \A k \in Serials : tickets'[k].status = IF k \in S THEN s ELSE tickets[k].status
<1>1. tickets \in Seq(Ticket(sold)) /\ Serials = 1..Len(tickets)
  BY LenProperties DEF TypeInv, Serials
<1>2. /\ tickets' \in Seq(Ticket(sold)) /\ Len(tickets') = Len(tickets)
      /\ \A k \in 1..Len(tickets) :
            /\ tickets'[k].order = tickets[k].order
            /\ tickets'[k].status = IF k \in S THEN s ELSE tickets[k].status
  BY <1>1, MarkProperties
<1>3. Serials' = 1..Len(tickets)
  BY <1>2, LenProperties DEF Serials
<1> QED
  BY <1>1, <1>2, <1>3 DEF Of

\* What most steps do to orders: nothing.  Nobody starts to generate or to
\* refund, and no ticket becomes usable.
LEMMA OrderFrame ==
  ASSUME TypeInv, OrderInv, refunded' = refunded, reopened \subseteq reopened',
         \A o : Of(o)' = Of(o), Serials' = Serials,
         \A k \in Serials \ reopened' :
                      tickets'[k].status \in Unused => tickets[k].status \in Unused,
         \A r \in Requests : \/ job'[r] = job[r]
                             \/ job'[r].at \notin {"count", "insert", "claim", "refund"}
  PROVE  OrderInv'
<1>1. GeneratedOnce' /\ RefundsExisting'
  BY DEF OrderInv, GeneratedOnce, RefundsExisting, Generating, At
<1>2. HoldsUnused'
  BY DEF OrderInv, HoldsUnused, At, Of
<1>3. RefundedUnusable'
  BY DEF OrderInv, RefundedUnusable, Of
<1> QED
  BY <1>1, <1>2, <1>3 DEF OrderInv

LEMMA InitOrderInv == Init => OrderInv
  BY DEF Init, OrderInv, GeneratedOnce, RefundsExisting, HoldsUnused,
         RefundedUnusable, Generating, At, Idle

LEMMA StepOrderInv == TypeInv /\ OrderInv /\ [Next]_vars => OrderInv'
<1> SUFFICES ASSUME TypeInv, OrderInv, [Next]_vars PROVE OrderInv'
  OBVIOUS
<1> USE DEF history
<1>s. /\ \A k \in Serials : tickets[k].order \in sold \cup {NoOrder}
      /\ sold \subseteq Orders /\ NoOrder \notin Orders
  <2>1. tickets \in [1..Len(tickets) -> Ticket(sold)] /\ Serials = 1..Len(tickets)
    BY LenProperties DEF TypeInv, Serials
  <2> QED
    BY <2>1, SizesAssumption DEF TypeInv, Ticket
<1>j. /\ job \in [Requests -> Jobs(sold, Len(tickets))]
      /\ \A r \in Requests : job[r] \in Jobs(sold, Len(tickets))
  BY DEF TypeInv
<1>o. ASSUME NEW r \in Requests
      PROVE  /\ Generating(r) => job[r].order \in sold \cup {NoOrder}
             /\ At(r, "claim") \/ At(r, "refund") => job[r].order \in sold
  BY <1>j DEF Generating, At, Jobs, Idle
\* A request moves on to something else than a generation or a refund
<1>m. ASSUME NEW r \in Requests, NEW j, Goto(r, j),
             j.at \notin {"count", "insert", "claim", "refund"},
             UNCHANGED <<tickets, refunded>>, reopened' = reopened
      PROVE  OrderInv'
  BY <1>m, <1>j, OrderFrame DEF Goto, Of, Serials
\* ... or marks tickets which can be used no more
<1>t. ASSUME NEW S, NEW s \in Statuses \ Unused, tickets' = Mark(S, s),
             job' = job \/ \E r \in Requests : \E j :
                /\ Goto(r, j) /\ j.at \notin {"count", "insert", "claim", "refund"},
             refunded' = refunded, reopened' = reopened
      PROVE  OrderInv'
  <2>1. /\ Serials' = Serials /\ \A o : Of(o)' = Of(o)
        /\ \A k \in Serials : tickets'[k].status \in Unused => tickets[k].status \in Unused
    BY <1>t, MarkStep
  <2>2. \A r \in Requests : \/ job'[r] = job[r]
                            \/ job'[r].at \notin {"count", "insert", "claim", "refund"}
    BY <1>t, <1>j DEF Goto
  <2> QED
    BY <1>t, <2>1, <2>2, OrderFrame
<1>1. ASSUME NEW r \in Requests, NEW o \in Orders, SellOrder(r, o) PROVE OrderInv'
  <2>1. /\ o \notin sold /\ UNCHANGED <<tickets, refunded, reopened>>
        /\ Goto(r, [at |-> "count", order |-> o, size |-> Size[o]])
    BY <1>1 DEF SellOrder, StartSale
  <2>2. Of(o) = {}
    BY <1>s, <2>1 DEF Of
  <2>3. \A s \in Requests : Generating(s) => job[s].order # o
    BY <1>o, <1>s, <2>1
  <2>4. GeneratedOnce' /\ RefundsExisting'
    BY <1>j, <2>1, <2>2, <2>3 DEF OrderInv, GeneratedOnce, RefundsExisting, Generating, At, Goto,
       Of, Serials
  <2>5. HoldsUnused' /\ RefundedUnusable'
    BY <1>j, <2>1 DEF OrderInv, HoldsUnused, RefundedUnusable, At, Goto, Of, Serials
  <2> QED
    BY <2>4, <2>5 DEF OrderInv
<1>2. ASSUME NEW r \in Requests, MakeBatch(r) PROVE OrderInv'
  <2>1. PICK m : /\ UNCHANGED <<tickets, refunded, reopened>>
                 /\ Goto(r, [at |-> "count", order |-> NoOrder, size |-> m])
    BY <1>2 DEF MakeBatch, StartSale
  <2>2. GeneratedOnce' /\ RefundsExisting'
    BY <1>j, <2>1 DEF OrderInv, GeneratedOnce, RefundsExisting, Generating, At, Goto,
       Of, Serials
  <2>3. HoldsUnused' /\ RefundedUnusable'
    BY <1>j, <2>1 DEF OrderInv, HoldsUnused, RefundedUnusable, At, Goto, Of, Serials
  <2> QED
    BY <2>2, <2>3 DEF OrderInv
<1>3. ASSUME NEW r \in Requests, CountTickets(r) PROVE OrderInv'
  <2>1. /\ At(r, "count") /\ UNCHANGED <<tickets, refunded, reopened>>
        /\ Goto(r, [at |-> "insert", order |-> job[r].order, size |-> job[r].size,
                    base |-> Len(tickets)])
    BY <1>3 DEF CountTickets
  <2>2. GeneratedOnce' /\ RefundsExisting'
    BY <1>j, <2>1 DEF OrderInv, GeneratedOnce, RefundsExisting, Generating, At, Goto,
       Of, Serials
  <2>3. HoldsUnused' /\ RefundedUnusable'
    BY <1>j, <2>1 DEF OrderInv, HoldsUnused, RefundedUnusable, At, Goto, Of, Serials
  <2> QED
    BY <2>2, <2>3 DEF OrderInv
<1>4. ASSUME NEW r \in Requests, InsertBatch(r) PROVE OrderInv'
  <2>1. At(r, "insert") /\ Goto(r, Idle) /\ UNCHANGED <<refunded, reopened>>
    BY <1>4 DEF InsertBatch, Done
  <2>2. CASE tickets' = tickets
    BY <1>m, <2>1, <2>2 DEF Idle
  <2>3. CASE tickets' = tickets \o NewTickets(r)
    <3> DEFINE n == Len(tickets)
               m == job[r].size
               b == job[r].order
    <3>1. /\ n \in Nat /\ m \in Nat /\ Serials = 1..n /\ Serials' = 1..(n + m)
          /\ \A k \in 1..n : tickets'[k] = tickets[k]
          /\ \A k \in (n + 1)..(n + m) : tickets'[k].order = b
      <4>1. /\ n \in Nat /\ m \in Nat
            /\ tickets' \in Seq(Ticket(sold)) /\ Len(tickets') = n + m
            /\ \A k \in 1..n : tickets'[k] = tickets[k]
            /\ \A k \in (n + 1)..(n + m) : tickets'[k].order = b
        BY <2>1, <2>3, NewTicketsProperties
      <4>2. Serials = 1..n /\ Serials' = 1..(n + m)
        BY <4>1, LenProperties DEF Serials, TypeInv
      <4> QED
        BY <4>1, <4>2
    <3> HIDE DEF n, m
    \* No other order gets a ticket
    <3>2. \A k \in Serials' : k \in Serials \/ tickets'[k].order = b
      BY <3>1
    <3>3. Serials \subseteq Serials' /\ \A k \in Serials : tickets'[k] = tickets[k]
      BY <3>1
    <3>4. \A o : o # b => {k \in Serials' : tickets'[k].order = o} = Of(o)
      BY <3>2, <3>3 DEF Of
    <3>5. \A o : Of(o) # {} => {k \in Serials' : tickets'[k].order = o} # {}
      BY <3>3 DEF Of
    <3>6. b # NoOrder => Of(b) = {}
      BY <2>1 DEF OrderInv, GeneratedOnce, Generating
    <3>7. ASSUME NEW s \in Requests, Generating(s)', job'[s].order # NoOrder
          PROVE  /\ {k \in Serials' : tickets'[k].order = job'[s].order} = {}
                 /\ \A q \in Requests :
                       Generating(q)' /\ job'[q].order = job'[s].order => q = s
      <4>1. s # r /\ job'[s] = job[s] /\ Generating(s)
        BY <1>j, <2>1, <3>7 DEF Generating, At, Goto, Idle
      <4>2. job[s].order # b
        BY <2>1, <3>7, <4>1 DEF OrderInv, GeneratedOnce, Generating
      <4>3. Of(job[s].order) = {}
        BY <3>7, <4>1 DEF OrderInv, GeneratedOnce
      <4>4. ASSUME NEW q \in Requests, Generating(q)', job'[q].order = job'[s].order
            PROVE  q = s
        <5>1. job'[q] = job[q] /\ Generating(q)
          BY <1>j, <2>1, <4>4 DEF Generating, At, Goto, Idle
        <5> QED
          BY <3>7, <4>1, <4>4, <5>1 DEF OrderInv, GeneratedOnce
      <4> QED
        BY <3>4, <4>1, <4>2, <4>3, <4>4
    <3>8. ASSUME NEW s \in Requests, (At(s, "claim") \/ At(s, "refund"))'
          PROVE  job'[s] = job[s] /\ Of(job[s].order) # {} /\ job[s].order # b
      <4>1. job'[s] = job[s] /\ (At(s, "claim") \/ At(s, "refund"))
        BY <1>j, <2>1, <3>8 DEF At, Goto, Idle
      <4>2. Of(job[s].order) # {} /\ job[s].order \in sold
        BY <1>o, <4>1 DEF OrderInv, RefundsExisting
      <4> QED
        BY <1>s, <3>6, <4>1, <4>2
    <3>9. GeneratedOnce'
      BY <3>7 DEF GeneratedOnce, Of
    <3>10. RefundsExisting'
      <4>1. \A s \in Requests : (At(s, "claim") \/ At(s, "refund"))' =>
               {k \in Serials' : tickets'[k].order = job'[s].order} # {}
        BY <3>5, <3>8
      <4>2. \A o \in refunded' : {k \in Serials' : tickets'[k].order = o} # {}
        BY <2>1, <3>5 DEF OrderInv, RefundsExisting
      <4> QED
        BY <4>1, <4>2 DEF RefundsExisting, Of
    <3>11. HoldsUnused'
      <4>1. ASSUME NEW s \in Requests, At(s, "refund")',
                   NEW k \in Serials', tickets'[k].order = job'[s].order, k \notin job'[s].tickets \cup reopened
            PROVE  tickets'[k].status \notin Unused
        <5>1. job'[s] = job[s] /\ job[s].order # b
          BY <3>8, <4>1
        <5>2. At(s, "refund") /\ k \in Of(job[s].order) \ (job[s].tickets \cup reopened)
          <6>1. k \in Of(job[s].order)
            BY <3>4, <4>1, <5>1
          <6> QED
            BY <4>1, <5>1, <6>1 DEF At
        <5>3. k \in Serials /\ tickets[k].status \notin Unused
          BY <4>1, <5>2 DEF OrderInv, HoldsUnused, Of
        <5> QED
          BY <3>3, <5>3
      <4> QED
        BY <2>1, <4>1 DEF HoldsUnused, Of
    <3>12. RefundedUnusable'
      <4>1. ASSUME NEW o \in refunded, NEW k \in Serials' \ reopened, tickets'[k].order = o
            PROVE  tickets'[k].status \notin Unused
        <5>1. o # b
          BY <1>s, <3>6, <4>1 DEF OrderInv, RefundsExisting, TypeInv
        <5>2. k \in Of(o) /\ k \in Serials
          BY <3>4, <4>1, <5>1 DEF Of
        <5> QED
          BY <3>3, <4>1, <5>2 DEF OrderInv, RefundedUnusable
      <4> QED
        BY <2>1, <4>1 DEF RefundedUnusable, Of
    <3> QED
      BY <3>9, <3>10, <3>11, <3>12 DEF OrderInv
  <2> QED
    BY <1>4, <2>2, <2>3 DEF InsertBatch
<1>5. ASSUME NEW r \in Requests, NEW k \in Serials, StartCancel(r, k) PROVE OrderInv'
  BY <1>5, <1>m DEF StartCancel
<1>6. ASSUME NEW r \in Requests, SetCancelled(r) PROVE OrderInv'
  <2>1. \E j : Goto(r, j) /\ j.at \notin {"count", "insert", "claim", "refund"}
    BY <1>6, <1>j DEF SetCancelled, CancelThen, Done, Idle, At, Jobs
  <2>2. "CANCELLED" \in Statuses \ Unused
    BY DEF Statuses, Unused
  <2>3. /\ tickets' = Mark({job[r].ticket}, "CANCELLED") /\ refunded' = refunded
        /\ reopened' = reopened
    BY <1>6 DEF SetCancelled, CancelThen
  <2> QED
    BY <1>t, <2>1, <2>2, <2>3
<1>7. ASSUME NEW r \in Requests, FreeSeat(r) PROVE OrderInv'
  BY <1>7, <1>m DEF FreeSeat, Done, Idle
<1>8. ASSUME NEW r \in Requests, NEW o \in Orders, StartRefund(r, o) PROVE OrderInv'
  <2>1. /\ UNCHANGED <<tickets, refunded, reopened>> /\ Of(o) # {}
        /\ Goto(r, [at |-> "claim", order |-> o])
    BY <1>8 DEF StartRefund
  <2>2. GeneratedOnce' /\ RefundsExisting'
    BY <1>j, <2>1 DEF OrderInv, GeneratedOnce, RefundsExisting, Generating, At, Goto,
       Of, Serials
  <2>3. HoldsUnused' /\ RefundedUnusable'
    BY <1>j, <2>1 DEF OrderInv, HoldsUnused, RefundedUnusable, At, Goto, Of, Serials
  <2> QED
    BY <2>2, <2>3 DEF OrderInv
<1>9. ASSUME NEW r \in Requests, ClaimRefund(r) PROVE OrderInv'
  <2> DEFINE o == job[r].order
             held == {k \in Of(o) : tickets[k].status \in Unused}
  <2>1. At(r, "claim") /\ UNCHANGED <<tickets, refunded, reopened>>
    BY <1>9 DEF ClaimRefund
  <2>2. CASE Goto(r, Idle)
    BY <1>m, <2>1, <2>2 DEF Idle
  <2>3. CASE Goto(r, [at |-> "refund", order |-> o, tickets |-> held])
    <3>1. GeneratedOnce' /\ RefundsExisting'
      BY <1>j, <2>1, <2>3 DEF OrderInv, GeneratedOnce, RefundsExisting, Generating, At, Goto,
         Of, Serials
    <3>2. HoldsUnused'
      BY <1>j, <2>1, <2>3 DEF OrderInv, HoldsUnused, At, Goto, Of, Serials
    <3>3. RefundedUnusable'
      BY <2>1 DEF OrderInv, RefundedUnusable, Of, Serials
    <3> QED
      BY <3>1, <3>2, <3>3 DEF OrderInv
  <2> QED
    BY <1>9, <2>2, <2>3 DEF ClaimRefund, Done
<1>10. ASSUME NEW r \in Requests, CommitRefund(r) PROVE OrderInv'
  <2> DEFINE o == job[r].order
             held == job[r].tickets
  <2>1. /\ At(r, "refund") /\ tickets' = Mark(held, "CANCELLED")
        /\ refunded' = refunded \cup {o} /\ Goto(r, Idle) /\ reopened' = reopened \ held
    BY <1>10 DEF CommitRefund, Done
  <2>2. "CANCELLED" \in Statuses \ Unused
    BY DEF Statuses, Unused
  <2>3. /\ Serials' = Serials /\ \A p : Of(p)' = Of(p)
        /\ \A k \in Serials : tickets'[k].status
                                = IF k \in held THEN "CANCELLED" ELSE tickets[k].status
    BY <2>1, <2>2, MarkStep
  <2>4. GeneratedOnce' /\ RefundsExisting'
    BY <1>j, <2>1, <2>3 DEF OrderInv, GeneratedOnce, RefundsExisting, Generating, At, Goto, Idle
  <2>5. HoldsUnused'
    BY <1>j, <2>1, <2>2, <2>3 DEF OrderInv, HoldsUnused, At, Goto, Idle, Of
  <2>6. RefundedUnusable'
    BY <2>1, <2>2, <2>3 DEF OrderInv, HoldsUnused, RefundedUnusable, Of
  <2> QED
    BY <2>4, <2>5, <2>6 DEF OrderInv
<1>11. ASSUME NEW r \in Requests, NEW q \in FormQuantities, StartEdit(r, q) PROVE OrderInv'
  <2>1. (IF q = quantity THEN "requantify" ELSE "resize")
           \notin {"count", "insert", "claim", "refund"}
    OBVIOUS
  <2> QED
    BY <1>11, <1>m, <2>1 DEF StartEdit
<1>12. ASSUME NEW r \in Requests, Resize(r) PROVE OrderInv'
  <2>1. [job[r] EXCEPT !.at = "requantify"].at = "requantify"
    BY <1>12, <1>j DEF Resize, At, Jobs, Idle
  <2> QED
    BY <1>12, <1>m, <2>1 DEF Resize, LeakIf
<1>13. ASSUME NEW r \in Requests, Requantify(r) PROVE OrderInv'
  BY <1>13, <1>m DEF Requantify, LeakIf, Done, Idle
<1>14. ASSUME NEW r \in Requests, StartCancelEvent(r) \/ CancelEvent(r) PROVE OrderInv'
  BY <1>14, <1>m DEF StartCancelEvent, CancelEvent
<1>15. ASSUME NEW r \in Requests, CancelTickets(r) PROVE OrderInv'
  BY <1>15, <1>t DEF CancelTickets, Done, Idle, Statuses, Unused
<1>16. ASSUME NEW r \in Requests, NEW k \in Serials, StartPass(r, k) PROVE OrderInv'
  BY <1>16, <1>m DEF StartPass
<1>17. ASSUME NEW r \in Requests, EnterPass(r) PROVE OrderInv'
  <2>1. /\ tickets' = Mark({job[r].ticket}, "USED") /\ Goto(r, Idle)
        /\ refunded' = refunded /\ reopened' = reopened
    BY <1>17 DEF EnterPass, Done
  <2>2. "USED" \in Statuses \ Unused /\ Idle.at \notin {"count", "insert", "claim", "refund"}
    BY DEF Statuses, Live, Unused, Idle
  <2> QED
    BY <1>t, <2>1, <2>2
<1>18. ASSUME NEW k \in Serials, Admit(k) \/ CondemnForged(k) PROVE OrderInv'
  BY <1>18, <1>t DEF Admit, CondemnForged, Statuses, Live, Unused
<1>19. ASSUME NEW k \in Serials, NEW s \in BulkStatuses, BulkStatus(k, s) PROVE OrderInv'
  \* A ticket made usable was usable already, or is reopened
  <2>1. /\ s \in Statuses /\ tickets' = Mark({k}, s) /\ UNCHANGED <<refunded, job>>
        /\ reopened \subseteq reopened'
        /\ s \notin Unused \/ tickets[k].status \in Unused \/ k \in reopened'
    BY <1>19, BulkStatusesAssumption DEF BulkStatus, Opening, Live, Unused
  <2>2. /\ Serials' = Serials /\ \A o : Of(o)' = Of(o)
        /\ \A i \in Serials : tickets'[i].status = IF i \in {k} THEN s ELSE tickets[i].status
    BY <2>1, MarkStep
  <2>3. \A i \in Serials \ reopened' :
                     tickets'[i].status \in Unused => tickets[i].status \in Unused
    BY <2>1, <2>2
  <2> QED
    BY <2>1, <2>2, <2>3, OrderFrame
<1>20. CASE UNCHANGED vars
  BY <1>20, OrderFrame DEF vars, Of, Serials
<1> QED
  BY <1>1, <1>2, <1>3, <1>4, <1>5, <1>6, <1>7, <1>8, <1>9, <1>10, <1>11, <1>12, <1>13,
     <1>14, <1>15, <1>16, <1>17, <1>18, <1>19, <1>20
  DEF Next, Sale, Cancellation, Refund, Edit, Gate, Pass, Bulk

LEMMA InitPassEntered == Init => PassEntered
  BY EmptySeq DEF Init, PassEntered, Serials

LEMMA StepPassEntered == TypeInv /\ PassEntered /\ [Next]_vars => PassEntered'
<1> SUFFICES ASSUME TypeInv, PassEntered, [Next]_vars PROVE PassEntered'
  OBVIOUS
<1> USE DEF history
<1>j. \A r \in Requests : job[r] \in Jobs(sold, Len(tickets))
  BY DEF TypeInv
\* No ticket is written
<1>u. ASSUME UNCHANGED <<pass, tickets, entered, reopened>> PROVE PassEntered'
  BY <1>u DEF PassEntered, Serials
\* Tickets are marked, but not used
<1>t. ASSUME NEW S, NEW s \in Statuses, s # "USED", tickets' = Mark(S, s),
             UNCHANGED <<pass, entered>>, reopened \subseteq reopened' \cup S
      PROVE  PassEntered'
  <2>1. /\ Serials' = Serials
        /\ \A k \in Serials : tickets'[k].status = IF k \in S THEN s ELSE tickets[k].status
    BY <1>t, MarkStep
  <2> QED
    BY <1>t, <2>1 DEF PassEntered
\* One ticket is set used, by an entry or a bulk change
<1>e. ASSUME NEW k, tickets' = Mark({k}, "USED"), pass' = pass,
             entered \subseteq entered', reopened \subseteq reopened',
             pass => k \in entered' \cup reopened'
      PROVE  PassEntered'
  <2>1. /\ Serials' = Serials
        /\ \A i \in Serials :
              tickets'[i].status = IF i \in {k} THEN "USED" ELSE tickets[i].status
    BY <1>e, MarkStep DEF Statuses, Live
  <2> QED
    BY <1>e, <2>1 DEF PassEntered
<1>d. {"CANCELLED", "FRAUDULENT"} \subseteq Statuses
  BY DEF Statuses
<1>1. ASSUME NEW r \in Requests, Sale(r) PROVE PassEntered'
  <2>1. CASE UNCHANGED tickets
    BY <1>1, <1>u, <2>1 DEF Sale, SellOrder, MakeBatch, StartSale, CountTickets, InsertBatch
  <2>2. CASE InsertBatch(r) /\ tickets' = tickets \o NewTickets(r)
    \* The tickets added are not used
    <3> DEFINE n == Len(tickets)
               m == job[r].size
    <3>1. /\ n \in Nat /\ m \in Nat
          /\ tickets' \in Seq(Ticket(sold)) /\ Len(tickets') = n + m
          /\ \A k \in 1..n : tickets'[k] = tickets[k]
          /\ \A k \in (n + 1)..(n + m) : tickets'[k].status = "VALID"
      BY <2>2, NewTicketsProperties DEF InsertBatch
    <3>2. Serials = 1..n /\ Serials' = 1..(n + m)
      BY <3>1, LenProperties DEF Serials, TypeInv
    <3>3. UNCHANGED <<pass, entered, reopened>>
      BY <2>2 DEF InsertBatch
    <3> HIDE DEF n, m
    <3>4. \A k \in Serials' : tickets'[k].status = "USED" =>
             k \in Serials /\ tickets[k].status = "USED"
      BY <3>1, <3>2
    <3> QED
      BY <3>3, <3>4 DEF PassEntered
  <2> QED
    BY <1>1, <2>1, <2>2 DEF Sale, SellOrder, MakeBatch, StartSale, CountTickets, InsertBatch
<1>2. ASSUME NEW r \in Requests, Cancellation(r) PROVE PassEntered'
  <2>1. CASE UNCHANGED tickets
    BY <1>2, <1>u, <2>1
    DEF Cancellation, StartCancel, SetCancelled, CancelThen, Frees, FreeSeat, StartCancelEvent,
        CancelEvent, CancelTickets
  <2>2. CASE SetCancelled(r) \/ CancelTickets(r)
    BY <1>t, <1>d, <2>2 DEF SetCancelled, CancelThen, Frees, CancelTickets
  <2> QED
    BY <1>2, <2>1, <2>2
    DEF Cancellation, StartCancel, FreeSeat, StartCancelEvent, CancelEvent
<1>3. ASSUME NEW r \in Requests, Refund(r) PROVE PassEntered'
  <2>1. CASE CommitRefund(r)
    BY <1>t, <1>d, <2>1 DEF CommitRefund, Frees
  <2> QED
    BY <1>3, <1>u, <2>1 DEF Refund, StartRefund, ClaimRefund
<1>4. ASSUME NEW r \in Requests, Edit(r) \/ Pass(r) PROVE PassEntered'
  <2>1. CASE EnterPass(r)
    BY <1>e, <2>1 DEF EnterPass
  <2> QED
    BY <1>4, <1>u, <2>1 DEF Edit, StartEdit, Resize, Requantify, LeakIf, Pass, StartPass
<1>5. ASSUME NEW k \in Serials, Admit(k) \/ CondemnForged(k) PROVE PassEntered'
  <2>1. CASE Admit(k)
    BY <1>e, <2>1 DEF Admit
  <2>2. CASE CondemnForged(k)
    BY <1>t, <1>d, <2>2 DEF CondemnForged
  <2> QED
    BY <1>5, <2>1, <2>2
<1>6. ASSUME NEW k \in Serials, NEW s \in BulkStatuses, BulkStatus(k, s) PROVE PassEntered'
  <2>1. /\ s \in Statuses /\ tickets' = Mark({k}, s) /\ UNCHANGED <<pass, entered>>
        /\ reopened \subseteq reopened'
        /\ s = "USED" /\ pass => k \in reopened'
    BY <1>6, BulkStatusesAssumption DEF BulkStatus, Opening, Live, Unused
  <2>2. CASE s = "USED"
    BY <1>e, <2>1, <2>2
  <2>3. CASE s # "USED"
    BY <1>t, <2>1, <2>3
  <2> QED
    BY <2>2, <2>3
<1>7. CASE UNCHANGED vars
  BY <1>7, <1>u DEF vars
<1> QED
  BY <1>1, <1>2, <1>3, <1>4, <1>5, <1>6, <1>7 DEF Next, Gate, Bulk

\* After its refund an order is out, whatever the requests and the orders: no ticket of it
\* that nobody has entered with opens the gate, since the refund reads the unused tickets
\* under its claim, no ticket of the order is added or made usable by another step than a
\* bulk change of its own status, and a pass is set used by an entry.  Tickets that have
\* entered are outside: a pass of them opens the gate again on another of its days.
THEOREM RefundIsFinal == Spec => []RefundedStaysOut
<1>1. Init => TypeInv /\ OrderInv /\ PassEntered
  BY InitTypeInv, InitOrderInv, InitPassEntered
<1>2. TypeInv /\ OrderInv /\ PassEntered /\ [Next]_vars => (TypeInv /\ OrderInv /\ PassEntered)'
  BY StepTypeInv, StepOrderInv, StepPassEntered
<1>3. TypeInv /\ OrderInv /\ PassEntered => RefundedStaysOut
  BY DEF OrderInv, RefundedUnusable, PassEntered, RefundedStaysOut, Opening, Live, Unused, Of
<1> QED
  BY <1>1, <1>2, <1>3, PTL DEF Spec

-----------------------------------------------------------------------------
(***************************************************************************)
(* Layer 3: seats.                                                         *)
(***************************************************************************)
Freeing == {r \in Requests : At(r, "free")}
Seats == available + Owed + Cardinality(Taken)

\* One edit at a time is between its two updates, and the seats fit what it is
\* about to write, or else the quantity, but for the doubled ones
SeatInv ==
    ~leak =>
        /\ \A r, s \in Requests : Rewrites(job[r]) /\ Rewrites(job[s]) => r = s
        /\ (\A r \in Requests : ~Rewrites(job[r])) => Seats <= quantity + doubled
        /\ \A r \in Requests : Rewrites(job[r]) => Seats <= job[r].to + doubled

LEMMA SeatInvImplies == SeatInv => NoSeatSoldTwice
<1>1. CASE \E r \in Requests : Rewrites(job[r])
  BY <1>1 DEF SeatInv, NoSeatSoldTwice, Capacities, Seats
<1>2. CASE \A r \in Requests : ~Rewrites(job[r])
  BY <1>2 DEF SeatInv, NoSeatSoldTwice, Capacities, Seats
<1> QED
  BY <1>1, <1>2

SeatsTyped ==
    /\ IsFiniteSet(Freeing) /\ Owed = Cardinality(Freeing) /\ Owed \in Nat
    /\ IsFiniteSet(Taken) /\ Cardinality(Taken) \in Nat
    /\ Seats \in Nat

\* Live tickets, or seats, grow by no more than is counted as doubled
TicketsCovered == Cardinality(Taken') + doubled <= Cardinality(Taken) + doubled'
SeatsCovered == Seats' + doubled <= Seats + doubled'

LEMMA SeatsType == TypeInv => SeatsTyped
<1> SUFFICES ASSUME TypeInv PROVE SeatsTyped
  OBVIOUS
<1>1. IsFiniteSet(Freeing)
  BY RequestsAssumption, FS_Subset DEF Freeing
<1>2. IsFiniteSet(Taken)
  <2>1. Len(tickets) \in Nat /\ Taken \in SUBSET (1..Len(tickets))
    BY LenProperties DEF TypeInv, Taken, LiveTickets, Serials
  <2>2. IsFiniteSet(1..Len(tickets))
    BY <2>1, FS_Interval
  <2> QED
    BY <2>1, <2>2, FS_Subset
<1>3. Owed = Cardinality(Freeing) /\ Owed \in Nat
  BY <1>1, FS_CardinalityType DEF Owed, Freeing
<1>4. Cardinality(Taken) \in Nat
  BY <1>2, FS_CardinalityType
<1> QED
  BY <1>1, <1>2, <1>3, <1>4 DEF TypeInv, Seats, SeatsTyped

LEMMA SeatsTypeNext == TypeInv' => SeatsTyped'
  BY SeatsType, PTL

\* Seats that grow no more than what is counted as doubled stay below the quantity.
LEMMA Below ==
  ASSUME NEW s \in Nat, NEW t \in Nat, NEW d \in Nat, NEW e \in Nat, NEW q \in Nat,
         t + d <= s + e, s <= q + d
  PROVE  t <= q + e
  OBVIOUS

\* A step that adds no seat and is no part of an edit keeps the balance.
LEMMA SeatFrame ==
  ASSUME TypeInv, TypeInv', SeatInv, leak' = leak, quantity' = quantity,
         \A r \in Requests : \/ job'[r] = job[r]
                             \/ ~Rewrites(job[r]) /\ ~Rewrites(job'[r]),
         SeatsCovered
  PROVE  SeatInv'
<1>1. Seats \in Nat /\ Seats' \in Nat /\ doubled \in Nat /\ doubled' \in Nat
  BY SeatsType, SeatsTypeNext DEF SeatsTyped, TypeInv
<1>2. \A r \in Requests : Rewrites(job[r]) => job[r].to \in Nat
  <2>1. \A r \in Requests : job[r] \in Jobs(sold, Len(tickets))
    BY DEF TypeInv
  <2> QED
    BY <2>1 DEF Rewrites, Jobs, Idle
<1>3. \A r \in Requests : Rewrites(job[r])' <=> Rewrites(job[r])
  OBVIOUS
<1>4. \A r \in Requests : Rewrites(job[r]) => job'[r] = job[r]
  OBVIOUS
<1> SUFFICES ASSUME ~leak' PROVE
        /\ \A r, s \in Requests : Rewrites(job[r]) /\ Rewrites(job[s]) => r = s
        /\ (\A r \in Requests : ~Rewrites(job[r])) => Seats' <= quantity + doubled'
        /\ \A r \in Requests : Rewrites(job[r]) => Seats' <= job[r].to + doubled'
  BY <1>3, <1>4 DEF SeatInv
<1> QED
  <2>1. /\ \A r, s \in Requests : Rewrites(job[r]) /\ Rewrites(job[s]) => r = s
        /\ (\A r \in Requests : ~Rewrites(job[r])) => Seats <= quantity + doubled
        /\ \A r \in Requests : Rewrites(job[r]) => Seats <= job[r].to + doubled
    BY DEF SeatInv
  <2>2. Seats' + doubled <= Seats + doubled' /\ quantity \in Nat
    BY DEF SeatsCovered, TypeInv
  <2>3. ASSUME \A r \in Requests : ~Rewrites(job[r])
        PROVE  Seats' <= quantity + doubled'
    <3>1. Seats <= quantity + doubled
      BY <2>1, <2>3
    <3> QED
      BY <1>1, <2>2, <3>1, Below
  <2>4. ASSUME NEW r \in Requests, Rewrites(job[r])
        PROVE  Seats' <= job[r].to + doubled'
    <3> DEFINE q == job[r].to
    <3>1. Seats <= q + doubled /\ q \in Nat
      BY <1>2, <2>1, <2>4
    <3>2. Seats' + doubled <= Seats + doubled'
      BY <2>2
    <3> HIDE DEF q
    <3>3. Seats' <= q + doubled'
      BY <1>1, <3>1, <3>2, Below
    <3> QED
      BY <3>3 DEF q
  <2> QED
    BY <2>1, <2>3, <2>4

\* Who owes a seat after one request has moved.
LEMMA OwedStep ==
  ASSUME TypeInv, TypeInv', NEW r \in Requests, NEW j, Goto(r, j)
  PROVE  /\ At(r, "free") /\ j.at # "free" => Owed' = Owed - 1
         /\ ~At(r, "free") /\ j.at = "free" => Owed' = Owed + 1
         /\ ~At(r, "free") /\ j.at # "free" => Owed' = Owed
<1>1. /\ IsFiniteSet(Freeing) /\ Owed = Cardinality(Freeing) /\ Owed' = Cardinality(Freeing')
      /\ job \in [Requests -> Jobs(sold, Len(tickets))]
  BY SeatsType, SeatsTypeNext DEF TypeInv, SeatsTyped
<1>2. Freeing' = IF j.at = "free" THEN Freeing \cup {r} ELSE Freeing \ {r}
  BY <1>1 DEF Freeing, At, Goto
<1>3. r \in Freeing <=> At(r, "free")
  BY DEF Freeing
<1> QED
  BY <1>1, <1>2, <1>3, FS_AddElement, FS_RemoveElement

LEMMA InitSeatInv == Init => SeatInv
<1> SUFFICES ASSUME Init PROVE SeatInv
  OBVIOUS
<1>1. Taken = {} /\ Freeing = {}
  BY EmptySeq DEF Init, Taken, LiveTickets, Serials, Freeing, At, Idle
<1>2. Owed = 0 /\ Cardinality(Taken) = 0
  BY <1>1, FS_EmptySet DEF Owed, Freeing
<1>3. Seats = quantity
  BY <1>2, QuantitiesAssumption DEF Init, Seats
<1> QED
  BY <1>3, QuantitiesAssumption DEF Init, SeatInv, Rewrites, Idle

LEMMA StepSeatInv == TypeInv /\ TypeInv' /\ SeatInv /\ [Next]_vars => SeatInv'
<1> SUFFICES ASSUME TypeInv, TypeInv', SeatInv, [Next]_vars PROVE SeatInv'
  OBVIOUS
<1> USE DEF history
<1> DEFINE n == Len(tickets)
<1>j. /\ job \in [Requests -> Jobs(sold, n)] /\ n \in Nat /\ Serials = 1..n
      /\ \A r \in Requests : job[r] \in Jobs(sold, n)
      /\ quantity \in Nat /\ available \in Nat /\ doubled \in Nat /\ doubled' \in Nat
  BY LenProperties DEF TypeInv, Serials
<1>c. /\ IsFiniteSet(Taken) /\ Cardinality(Taken) \in Nat /\ Owed \in Nat
      /\ IsFiniteSet(Taken') /\ Cardinality(Taken') \in Nat /\ Owed' \in Nat
  BY SeatsType, SeatsTypeNext DEF SeatsTyped
<1>l. ASSUME Taken' \subseteq Taken, doubled' = doubled PROVE TicketsCovered
  <2>1. Cardinality(Taken') <= Cardinality(Taken)
    BY <1>c, <1>l, FS_Subset
  <2> QED
    BY <1>c, <1>j, <1>l, <2>1 DEF TicketsCovered
<1>u. ASSUME UNCHANGED <<tickets, entered, doubled>> PROVE TicketsCovered /\ Taken' = Taken
  <2>1. Taken' = Taken
    BY <1>u DEF Taken, LiveTickets, Serials
  <2> QED
    BY <1>l, <1>u, <2>1
\* Marking tickets dead, or live ones, takes no other seat
<1>k. ASSUME NEW S, NEW s \in Statuses, tickets' = Mark(S, s), entered' = entered,
             s \in Live => S \subseteq LiveTickets
      PROVE  Taken' \subseteq Taken
  <2>1. /\ Serials' = Serials
        /\ \A k \in Serials : tickets'[k].status = IF k \in S THEN s ELSE tickets[k].status
    BY <1>k, MarkStep
  <2> QED
    BY <1>k, <2>1 DEF Taken, LiveTickets
\* Marking a ticket live, or entering with it, counts it when it had no seat
<1>e. ASSUME NEW k \in Serials, NEW s \in Statuses, tickets' = Mark({k}, s),
             Revives(IF s \in Live THEN {k} ELSE {}),
             entered' \in {entered, entered \cup {k}}, s \in Live \/ entered' = entered
      PROVE  TicketsCovered
  <2>1. /\ Serials' = Serials
        /\ \A i \in Serials : tickets'[i].status = IF i \in {k} THEN s ELSE tickets[i].status
    BY <1>e, MarkStep
  <2>2. CASE s \notin Live \/ k \in Taken
    <3>1. doubled' = doubled
      BY <1>e, <1>j, <2>2, RevivesOne
    <3>2. Taken' \subseteq Taken
      BY <1>e, <2>1, <2>2 DEF Taken, LiveTickets
    <3> QED
      BY <1>l, <3>1, <3>2
  <2>3. CASE s \in Live /\ k \notin Taken
    <3>1. doubled' = doubled + 1
      BY <1>e, <2>3, RevivesOne
    <3>2. Taken' = Taken \cup {k}
      BY <1>e, <2>1, <2>3 DEF Taken, LiveTickets
    <3>3. Cardinality(Taken') = Cardinality(Taken) + 1
      BY <1>c, <2>3, <3>2, FS_AddElement
    <3> QED
      BY <1>c, <1>j, <3>1, <3>3 DEF TicketsCovered
  <2> QED
    BY <2>2, <2>3
\* A request that frees no seat and edits nothing moves on
<1>m. ASSUME NEW r \in Requests, NEW j, Goto(r, j), ~At(r, "free"), ~Rewrites(job[r]),
             j.at # "free", ~Rewrites(j), UNCHANGED <<quantity, available, leak>>,
             TicketsCovered
      PROVE  SeatInv'
  <2>1. Owed' = Owed
    BY <1>m, OwedStep
  <2>2. SeatsCovered
    BY <1>m, <1>j, <1>c, <2>1 DEF Seats, SeatsCovered, TicketsCovered
  <2>3. \A q \in Requests : \/ job'[q] = job[q]
                            \/ ~Rewrites(job[q]) /\ ~Rewrites(job'[q])
    BY <1>m, <1>j DEF Goto
  <2> QED
    BY <1>m, <2>2, <2>3, SeatFrame
\* Nobody moves
<1>g. ASSUME UNCHANGED <<quantity, available, job, leak>>, TicketsCovered PROVE SeatInv'
  <2>1. Owed' = Owed
    BY <1>g DEF Owed, At
  <2>2. SeatsCovered
    BY <1>g, <1>j, <1>c, <2>1 DEF Seats, SeatsCovered, TicketsCovered
  <2> QED
    BY <1>g, <2>2, SeatFrame
<1>1. ASSUME NEW r \in Requests, NEW o, NEW m, StartSale(r, o, m) PROVE SeatInv'
  BY <1>1, <1>m, <1>u DEF StartSale, At, Rewrites
<1>3. ASSUME NEW r \in Requests, CountTickets(r) PROVE SeatInv'
  BY <1>3, <1>m, <1>u DEF CountTickets, At, Rewrites
<1>4. ASSUME NEW r \in Requests, InsertBatch(r) PROVE SeatInv'
  <2>1. At(r, "insert") /\ Goto(r, Idle) /\ UNCHANGED <<quantity, leak, entered, doubled>>
    BY <1>4 DEF InsertBatch, Done
  <2>2. CASE UNCHANGED <<available, tickets>>
    BY <1>m, <1>u, <2>1, <2>2 DEF At, Idle, Rewrites
  <2>3. CASE /\ available' = available - job[r].size
             /\ tickets' = tickets \o NewTickets(r)
    \* As many seats are taken as tickets are added
    <3> DEFINE m == job[r].size
               new == (n + 1)..(n + m)
    <3>1. /\ m \in Nat /\ tickets' \in Seq(Ticket(sold)) /\ Len(tickets') = n + m
          /\ \A k \in 1..n : tickets'[k] = tickets[k]
      BY <2>1, <2>3, NewTicketsProperties
    <3>2. Serials' = 1..(n + m)
      BY <3>1, LenProperties DEF Serials
    <3>3. Taken' \subseteq Taken \cup new
      BY <1>j, <2>1, <3>1, <3>2 DEF Taken, LiveTickets
    <3>4. IsFiniteSet(new) /\ Cardinality(new) = m
      <4>1. n + 1 \in Int /\ n + m \in Int /\ m \in Nat /\ n \in Nat
        BY <1>j, <3>1
      <4> HIDE DEF m, n
      <4>2. /\ IsFiniteSet(new)
            /\ Cardinality(new) = IF n + 1 > n + m THEN 0 ELSE (n + m) - (n + 1) + 1
        BY <4>1, FS_Interval
      <4> QED
        BY <4>1, <4>2
    <3>5. Taken \cap new = {}
      BY <1>j, <3>1 DEF Taken, LiveTickets, TypeInv
    <3>6. /\ IsFiniteSet(Taken \cup new)
          /\ Cardinality(Taken \cup new) = Cardinality(Taken) + m
      <4> HIDE DEF new, m, n
      <4>1. /\ IsFiniteSet(Taken \cup new)
            /\ Cardinality(Taken \cup new)
                 = Cardinality(Taken) + Cardinality(new) - Cardinality({})
        BY <1>c, <3>4, <3>5, FS_Union
      <4> QED
        BY <1>c, <3>1, <3>4, <4>1, FS_EmptySet
    <3>7. Cardinality(Taken') <= Cardinality(Taken) + m
      <4> HIDE DEF new, m, n
      <4> QED
        BY <3>3, <3>6, FS_Subset
    <3>8. Owed' = Owed
      BY <2>1, OwedStep DEF At, Idle
    <3>9. SeatsCovered
      <4> HIDE DEF m, n
      <4>1. available' = available - m
        BY <2>3 DEF m
      <4> QED
        BY <4>1, <1>j, <1>c, <2>1, <2>3, <3>1, <3>7, <3>8 DEF Seats, SeatsCovered
    <3>10. \A q \in Requests : \/ job'[q] = job[q]
                               \/ ~Rewrites(job[q]) /\ ~Rewrites(job'[q])
      BY <1>j, <2>1 DEF Goto, At, Idle, Rewrites
    <3> QED
      BY <2>1, <3>9, <3>10, SeatFrame
  <2> QED
    BY <1>4, <2>2, <2>3 DEF InsertBatch
<1>5. ASSUME NEW r \in Requests, NEW k \in Serials, StartCancel(r, k) PROVE SeatInv'
  BY <1>5, <1>m, <1>u DEF StartCancel, At, Rewrites
<1>6. ASSUME NEW r \in Requests, SetCancelled(r) PROVE SeatInv'
  <2> DEFINE k == job[r].ticket
  <2>1. /\ At(r, "cancel") /\ UNCHANGED <<quantity, available>>
        /\ tickets' = Mark({k}, "CANCELLED") /\ k \in Serials
        /\ "CANCELLED" \in Statuses /\ "CANCELLED" \notin Live
        /\ Frees(IF job[r].seen \in Unused THEN {k} ELSE {})
    BY <1>6, <1>j DEF SetCancelled, CancelThen, At, Jobs, Idle, Statuses, Live
  <2>2. UNCHANGED <<leak, entered>> /\ Taken' \subseteq Taken
    <3>1. UNCHANGED <<leak, entered>>
      BY <2>1 DEF Frees
    <3> QED
      BY <1>k, <2>1, <3>1
  <2>3. CASE job[r].seen \notin Unused
    <3>1. Goto(r, Idle)
      BY <1>6, <2>3 DEF SetCancelled, CancelThen, Done
    <3>2. doubled' = doubled
      BY <1>j, <2>1, <2>3, FreesOne
    <3> QED
      BY <1>l, <1>m, <2>1, <2>2, <3>1, <3>2 DEF At, Idle, Rewrites
  <2>4. CASE job[r].seen \in Unused
    \* The ticket gives up its seat, which is now owed
    <3>1. Goto(r, [job[r] EXCEPT !.at = "free"])
      BY <1>6, <2>4 DEF SetCancelled, CancelThen
    <3>2. [job[r] EXCEPT !.at = "free"].at = "free"
      BY <1>j, <2>1 DEF At, Jobs, Idle
    <3>3. Owed' = Owed + 1
      BY <2>1, <3>1, <3>2, OwedStep DEF At
    <3>4. /\ Serials' = Serials
          /\ \A i \in Serials : tickets'[i].status = IF i \in {k} THEN "CANCELLED"
                                                     ELSE tickets[i].status
      BY <2>1, MarkStep
    <3>7. \A q \in Requests : \/ job'[q] = job[q]
                              \/ ~Rewrites(job[q]) /\ ~Rewrites(job'[q])
      BY <1>j, <2>1, <3>1, <3>2 DEF Goto, At, Rewrites
    <3>5. CASE k \in LiveTickets \ entered
      <4>1. Taken' = Taken \ {k} /\ k \in Taken
        BY <2>1, <2>2, <3>4, <3>5 DEF Taken, LiveTickets
      <4>2. Cardinality(Taken') = Cardinality(Taken) - 1
        BY <1>c, <4>1, FS_RemoveElement
      <4>3. doubled' = doubled
        BY <1>j, <2>1, <2>4, <3>5, FreesOne
      <4>4. SeatsCovered
        BY <1>j, <1>c, <2>1, <3>3, <4>2, <4>3 DEF Seats, SeatsCovered
      <4> QED
        BY <2>1, <2>2, <3>7, <4>4, SeatFrame
    <3>6. CASE k \notin LiveTickets \ entered
      <4>1. Cardinality(Taken') <= Cardinality(Taken)
        BY <1>c, <2>2, FS_Subset
      <4>2. doubled' = doubled + 1
        BY <2>1, <2>4, <3>6, FreesOne
      <4>4. SeatsCovered
        BY <1>j, <1>c, <2>1, <3>3, <4>1, <4>2 DEF Seats, SeatsCovered
      <4> QED
        BY <2>1, <2>2, <3>7, <4>4, SeatFrame
    <3> QED
      BY <3>5, <3>6
  <2> QED
    BY <2>3, <2>4
<1>7. ASSUME NEW r \in Requests, FreeSeat(r) PROVE SeatInv'
  <2>1. /\ At(r, "free") /\ Goto(r, Idle) /\ available' = available + 1
        /\ UNCHANGED <<quantity, tickets, leak, entered, doubled>>
    BY <1>7 DEF FreeSeat, Done
  <2>2. Owed' = Owed - 1 /\ Taken' = Taken
    BY <1>u, <2>1, OwedStep DEF Idle
  <2>3. SeatsCovered
    BY <1>j, <1>c, <2>1, <2>2 DEF Seats, SeatsCovered
  <2>4. \A q \in Requests : \/ job'[q] = job[q]
                            \/ ~Rewrites(job[q]) /\ ~Rewrites(job'[q])
    BY <1>j, <2>1 DEF Goto, At, Idle, Rewrites
  <2> QED
    BY <2>1, <2>3, <2>4, SeatFrame
<1>8. ASSUME NEW r \in Requests, NEW o \in Orders, StartRefund(r, o) PROVE SeatInv'
  BY <1>8, <1>m, <1>u DEF StartRefund, At, Rewrites
<1>9. ASSUME NEW r \in Requests, ClaimRefund(r) PROVE SeatInv'
  <2>1. PICK j : Goto(r, j) /\ j.at \in {"idle", "refund"}
    BY <1>9 DEF ClaimRefund, Done, Idle
  <2> QED
    BY <1>9, <1>m, <1>u, <2>1 DEF ClaimRefund, At, Rewrites
<1>10. ASSUME NEW r \in Requests, CommitRefund(r) PROVE SeatInv'
  <2> DEFINE held == job[r].tickets
             seated == LiveTickets \ entered
  <2>1. /\ At(r, "refund") /\ Goto(r, Idle) /\ quantity' = quantity /\ Frees(held)
        /\ tickets' = Mark(held, "CANCELLED") /\ available' = available + Cardinality(held)
        /\ held \subseteq Serials
        /\ "CANCELLED" \in Statuses /\ "CANCELLED" \notin Live
    BY <1>10, <1>j DEF CommitRefund, Done, At, Jobs, Idle, Statuses, Live
  <2>7. /\ UNCHANGED <<leak, entered>> /\ IsFiniteSet(held)
        /\ doubled' = doubled + Cardinality(held \ seated)
    BY <2>1, CountOthers DEF Frees
  <2>2. Taken' = Taken \ (held \cap seated)
    <3>1. /\ Serials' = Serials
          /\ \A i \in Serials : tickets'[i].status = IF i \in held THEN "CANCELLED"
                                                     ELSE tickets[i].status
      BY <2>1, MarkStep
    <3> QED
      BY <2>1, <2>7, <3>1 DEF Taken, LiveTickets
  \* Each ticket of the refund gives its seat back, a dead one, or one inside, a seat it
  \* does not have
  <2>3. /\ Cardinality(held) \in Nat /\ Cardinality(held \cap seated) \in Nat
        /\ Cardinality(held \ seated) = Cardinality(held) - Cardinality(held \cap seated)
        /\ Cardinality(Taken') = Cardinality(Taken) - Cardinality(held \cap seated)
    <3>0. seated \subseteq Taken
      BY DEF Taken
    <3> HIDE DEF held, seated
    <3>1. /\ Taken \cap (held \cap seated) = held \cap seated
          /\ held \cap seated \in SUBSET held
      BY <3>0
    <3>2. Cardinality(held) \in Nat /\ IsFiniteSet(held \cap seated)
      BY <2>7, <3>1, FS_Subset, FS_CardinalityType
    <3>3. Cardinality(held \cap seated) \in Nat
      BY <3>2, FS_CardinalityType
    <3>4. Cardinality(held \ seated) = Cardinality(held) - Cardinality(held \cap seated)
      BY <2>7, FS_Difference
    <3>5. Cardinality(Taken \ (held \cap seated))
            = Cardinality(Taken) - Cardinality(Taken \cap (held \cap seated))
      BY <1>c, FS_Difference
    <3> QED
      BY <2>2, <3>1, <3>2, <3>3, <3>4, <3>5
  <2>4. Owed' = Owed
    BY <2>1, OwedStep DEF At, Idle
  <2>5. SeatsCovered
    <3> HIDE DEF held, seated
    <3>1. /\ available' = available + Cardinality(held)
          /\ doubled' = doubled + Cardinality(held \ seated)
      BY <2>1, <2>7
    <3>2. available \in Nat /\ doubled \in Nat /\ Owed \in Nat /\ Cardinality(Taken) \in Nat
      BY <1>j, <1>c DEF TypeInv
    <3> QED
      BY ONLY <2>3, <2>4, <3>1, <3>2 DEF Seats, SeatsCovered
  <2>6. \A q \in Requests : \/ job'[q] = job[q]
                            \/ ~Rewrites(job[q]) /\ ~Rewrites(job'[q])
    BY <1>j, <2>1 DEF Goto, At, Idle, Rewrites
  <2> QED
    BY <2>1, <2>5, <2>6, <2>7, SeatFrame
<1>11. ASSUME NEW r \in Requests, NEW q \in FormQuantities, StartEdit(r, q) PROVE SeatInv'
  <2> DEFINE j == [at |-> IF q = quantity THEN "requantify" ELSE "resize", to |-> q,
                   quantity |-> quantity, available |-> available]
  <2>1. j.at # "free" /\ ~Rewrites(j)
    BY DEF Rewrites
  <2>2. /\ At(r, "idle") /\ Goto(r, j)
        /\ UNCHANGED <<quantity, available, tickets, leak, entered, doubled>>
    BY <1>11 DEF StartEdit
  <2>3. ~At(r, "free") /\ ~Rewrites(job[r])
    BY <2>2 DEF At, Rewrites
  <2> HIDE DEF j
  <2> QED
    BY <1>m, <1>u, <2>1, <2>2, <2>3
<1>12. ASSUME NEW r \in Requests, Resize(r) PROVE SeatInv'
  <2> DEFINE i == job[r]
             j == [i EXCEPT !.at = "requantify"]
  <2>1. /\ At(r, "resize") /\ Goto(r, j) /\ available' = Left(i)
        /\ UNCHANGED <<quantity, tickets, entered, doubled>> /\ (leak => leak')
    BY <1>12 DEF Resize, LeakIf
  <2>2. /\ j.at = "requantify" /\ j.to = i.to /\ i.to \in Nat /\ job'[r] = j
        /\ \A q \in Requests : q # r => job'[q] = job[q]
    BY <1>j, <2>1 DEF At, Jobs, Idle, Goto
  <2>3. ~leak' => /\ quantity = i.quantity /\ available = i.available
                  /\ i.to >= i.quantity - i.available
                  /\ \A q \in Requests : ~Rewrites(job[q])
    <3>1. i.to \in Nat /\ i.quantity \in Nat /\ i.available \in Nat
      BY <1>j, <2>1 DEF At, Jobs, Idle
    <3>2. ~leak' => ~(\/ quantity # i.quantity \/ available # i.available
                      \/ i.to < i.quantity - i.available
                      \/ \E q \in Requests : Rewrites(job[q]))
      BY <1>12 DEF Resize, LeakIf
    <3> QED
      BY <3>1, <3>2
  <2>4. Owed' = Owed /\ Taken' = Taken
    BY <1>u, <2>1, <2>2, OwedStep DEF At
  \* The edit moves the seats on sale by as much as the quantity
  <2>5. ~leak' => Seats' <= i.to + doubled
    <3>1. ~leak' => Seats <= quantity + doubled
      BY <2>1, <2>3 DEF SeatInv
    <3>2. ~leak' => available' = i.to - (quantity - available)
      BY <1>j, <2>1, <2>2, <2>3 DEF Left
    <3> QED
      BY <1>j, <1>c, <2>2, <2>4, <3>1, <3>2 DEF Seats
  \* A rewrite of the same quantity would leave it as it is
  <2>6. ~leak' => Rewrites(j) \/ i.to = quantity
    BY <2>2, <2>3 DEF Rewrites
  <2>7. ~Rewrites(i)
    BY <2>1 DEF At, Rewrites
  <2> HIDE DEF i, j
  <2> QED
    BY <2>1, <2>2, <2>3, <2>5, <2>6, <2>7 DEF SeatInv
<1>13. ASSUME NEW r \in Requests, Requantify(r) PROVE SeatInv'
  <2>1. /\ At(r, "requantify") /\ Goto(r, Idle) /\ quantity' = job[r].to
        /\ UNCHANGED <<available, tickets, entered, doubled>> /\ (leak => leak')
        /\ ~leak' => quantity = job[r].quantity
    BY <1>13 DEF Requantify, Done, LeakIf
  <2>2. Owed' = Owed /\ Taken' = Taken
    BY <1>u, <2>1, OwedStep DEF At, Idle
  <2>3. Seats' = Seats
    BY <2>1, <2>2 DEF Seats
  <2>4. job'[r] = Idle /\ ~Rewrites(Idle) /\ \A q \in Requests : q # r => job'[q] = job[q]
    BY <1>j, <2>1 DEF Goto, Rewrites, Idle
  <2>5. ~leak' => Rewrites(job[r]) \/ quantity' = quantity
    BY <2>1 DEF At, Rewrites
  <2>6. ~Rewrites(job[r]) /\ ~leak' => quantity' = quantity
    BY <2>5
  <2> QED
    BY <2>1, <2>3, <2>4, <2>6 DEF SeatInv
<1>14. ASSUME NEW r \in Requests, StartCancelEvent(r) \/ CancelEvent(r) PROVE SeatInv'
  BY <1>14, <1>m, <1>u DEF StartCancelEvent, CancelEvent, At, Rewrites
<1>15. ASSUME NEW r \in Requests, CancelTickets(r) PROVE SeatInv'
  <2>1. "CANCELLED" \in Statuses /\ "CANCELLED" \notin Live
    BY DEF Statuses, Live
  <2>2. Taken' \subseteq Taken /\ doubled' = doubled
    BY <1>15, <1>k, <2>1 DEF CancelTickets
  <2> QED
    BY <1>15, <1>l, <1>m, <2>2 DEF CancelTickets, Done, Idle, At, Rewrites
<1>16. ASSUME NEW r \in Requests, NEW k \in Serials, StartPass(r, k) PROVE SeatInv'
  BY <1>16, <1>m, <1>u DEF StartPass, At, Rewrites
<1>17. ASSUME NEW r \in Requests, EnterPass(r) PROVE SeatInv'
  <2> DEFINE k == job[r].ticket
  <2>1. /\ tickets' = Mark({k}, "USED") /\ "USED" \in Statuses /\ "USED" \in Live
        /\ k \in Serials /\ Revives({k}) /\ entered' = entered \cup {k}
    BY <1>17, <1>j DEF EnterPass, At, Jobs, Idle, Statuses, Live
  <2>4. (IF "USED" \in Live THEN {k} ELSE {}) = {k}
    BY <2>1
  <2>2. TicketsCovered
    BY <1>e, <2>1, <2>4
  <2>3. leak' = leak
    BY <2>1 DEF Revives
  <2> QED
    BY <1>17, <1>m, <2>2, <2>3 DEF EnterPass, Done, Idle, At, Rewrites
<1>18. ASSUME NEW k \in Serials, Admit(k) PROVE SeatInv'
  <2>1. /\ tickets' = Mark({k}, "USED") /\ "USED" \in Statuses /\ k \in LiveTickets
        /\ doubled' = doubled /\ entered' = entered \cup {k}
    BY <1>18 DEF Admit, Statuses, Live, Unused, LiveTickets
  <2>2. Serials' = Serials /\ \A i \in Serials : i # k => tickets'[i].status = tickets[i].status
    BY <2>1, MarkStep
  <2>3. Taken' \subseteq Taken
    BY <2>1, <2>2 DEF Taken, LiveTickets
  <2> QED
    BY <1>18, <1>g, <1>l, <2>1, <2>3 DEF Admit
<1>19. ASSUME NEW k \in Serials, CondemnForged(k) PROVE SeatInv'
  <2>1. "FRAUDULENT" \in Statuses /\ "FRAUDULENT" \notin Live
    BY DEF Statuses, Live
  <2>2. Taken' \subseteq Taken /\ doubled' = doubled
    BY <1>19, <1>k, <2>1 DEF CondemnForged
  <2> QED
    BY <1>19, <1>g, <1>l, <2>2 DEF CondemnForged
<1>20. ASSUME NEW k \in Serials, NEW s \in BulkStatuses, BulkStatus(k, s) PROVE SeatInv'
  <2>1. s \in Statuses /\ tickets' = Mark({k}, s) /\ Revives(IF s \in Live THEN {k} ELSE {})
        /\ entered' = entered /\ entered' \in {entered, entered \cup {k}}
    BY <1>20, BulkStatusesAssumption DEF BulkStatus
  <2>4. s \in Live \/ entered' = entered
    BY <2>1
  <2>2. TicketsCovered
    BY <1>e, <2>1, <2>4
  <2>3. leak' = leak
    BY <2>1 DEF Revives
  <2> QED
    BY <1>20, <1>g, <2>2, <2>3 DEF BulkStatus
<1>21. CASE UNCHANGED vars
  BY <1>21, <1>g, <1>u DEF vars
<1> QED
  BY <1>1, <1>3, <1>4, <1>5, <1>6, <1>7, <1>8, <1>9, <1>10, <1>11, <1>12, <1>13,
     <1>14, <1>15, <1>16, <1>17, <1>18, <1>19, <1>20, <1>21
  DEF Next, Sale, SellOrder, MakeBatch, Cancellation, Refund, Edit, Gate, Pass, Bulk

\* No seat is sold twice, for any category, requests and orders: seats on sale, seats
\* owed and tickets that may enter or have entered together fit the quantity, or the one
\* an edit is about to write, as long as no edit is based on what has changed (the write
\* of the quantity it has read, over another's, included) or goes below what was sold; but
\* for one seat each time a ticket dead already, or inside, frees one, or a ticket that had
\* given its seat up comes back.
THEOREM SeatsAreEnough == Spec => []NoSeatSoldTwice
<1>1. Init => TypeInv /\ SeatInv
  BY InitTypeInv, InitSeatInv
<1>2. TypeInv /\ SeatInv /\ [Next]_vars => (TypeInv /\ SeatInv)'
  BY StepTypeInv, StepSeatInv
<1> QED
  BY <1>1, <1>2, SeatInvImplies, PTL DEF Spec
=============================================================================
