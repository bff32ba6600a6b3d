----------------------------- MODULE MCPayouts -----------------------------
(* Small instances of Payouts for TLC. *)
EXTENDS Payouts, TLC

CONSTANTS o1, o2

\* Two tickets whose fee the buyer pays, one whose fee the organizer pays, in
\* cents; an order older than the fee
Carts == [o \in Orders |-> IF o = o1 THEN [price |-> 150, quantity |-> 2]
                           ELSE [price |-> 105, quantity |-> 1]]
Payers == [o \in Orders |-> IF o = o1 THEN "BUYER" ELSE "ORGANIZER"]
OldOrders == [o \in Orders |-> "NONE"]

\* Nothing is promised of an account whose orders change after it is closed, but
\* of the buyers whose refunds the request counted; a retired account is
\* followed while a request to close it is at work
ClosedForGood ==
    /\ account.state = "closed" => account.current \/ account.counted
    /\ account.state = "retired" => \E j \in Clerks : ~DeskAt(j, "idle") /\ desk[j].for = "close"

AnyClerk == Permutations(Clerks)
=============================================================================
