----------------------------- MODULE MCBilling -----------------------------
(* Small instances of Billing for TLC. *)
EXTENDS Billing, TLC

CONSTANTS plan, pack, pro, basic

\* A month of the plan and a pack of two credits
Quantities == (plan :> 0) @@ (pack :> 2)

\* The month is one of the better plan
PlanPaid == [p \in Payments |-> pro]

\* The plan paid for, another one, or the plan paid for suspended without end
SomeOffers == {<<pro, 1, TRUE>>, <<basic, 1, TRUE>>, <<pro, 0, FALSE>>}

\* Stop when a grant crossed a change of plan: MonthsAccounted promises nothing more
Uncrossed == ~crossed

AnyJob == Permutations(Jobs)
=============================================================================
