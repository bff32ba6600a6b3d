--------------------------- MODULE MCMerchOrders ---------------------------
(* Small instances of MerchOrders for TLC. *)
EXTENDS MerchOrders, TLC

CONSTANTS o1, o2, v1, v2

\* o1 has a piece of every variant, o2 one of v1
OrderItems == [o \in Orders |-> [v \in Variants |-> IF o = o1 \/ v = v1 THEN 1 ELSE 0]]
OneEach == [v \in Variants |-> 1]

\* Bound: one order or variant is acted on after it changed; it is then left alone,
\* and no other stock is edited
OneStale ==
    /\ Cardinality(stale) + Cardinality(edited) <= 1
    /\ \/ stale \cup edited = {}
       \/ /\ \A r \in Requests : /\ job[r].at # "stock"
                                 /\ "order" \in DOMAIN job[r] => job[r].order \notin stale
          /\ \A v \in Variants \ edited : goods[v] = Stock[v]

Handlers == Permutations(Requests)
=============================================================================
