--------------------------- MODULE MCTicketStock ---------------------------
(* Small instances of TicketStock for TLC. *)
EXTENDS TicketStock, TLC

CONSTANT o1

\* An order of a single ticket
Sizes == [o \in Orders |-> 1]

\* The category is being edited, or was
Edited == quantity # InitialQuantity \/ \E r \in Requests : job[r].at \in {"resize", "requantify"}
\* The event is being cancelled, or was
EventOff == event # "open" \/ \E r \in Requests : At(r, "cancelling")

\* Bounds: nothing is promised of seats after such an edit; one ticket enters; one seat
\* is doubled or one ticket reopened, then neither category nor event is touched; and
\* not both of these are
Balanced ==
    /\ ~leak /\ Cardinality(entered) <= 1
    /\ doubled + Cardinality(reopened) <= 1
    /\ doubled + Cardinality(reopened) = 1 => ~Edited /\ ~EventOff
    /\ ~(Edited /\ EventOff)

Handlers == Permutations(Requests)
=============================================================================
