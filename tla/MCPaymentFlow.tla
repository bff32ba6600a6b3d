--------------------------- MODULE MCPaymentFlow ---------------------------
(* Small instances of PaymentFlow for TLC. *)
EXTENDS PaymentFlow, TLC

CONSTANTS tickets, shopOnly   \* an order of tickets and a shop-only one

\* The order of tickets has a line of every category, the shop-only one none
OrderLines == [p \in Payments |-> IF p = shopOnly THEN {} ELSE Templates]

Jobs == Permutations(Workers)
=============================================================================
